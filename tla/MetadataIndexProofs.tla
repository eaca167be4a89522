------------------------ MODULE MetadataIndexProofs ------------------------
(***************************************************************************)
(* What the metadata index shows and what its tasks report, for every        *)
(* number of sources, tasks and versions of a schema: clearing is a barrier, *)
(* an index is of the present connection, the total counts what is indexed,  *)
(* a task that is shown as cancelled has stored nothing, and the tasks       *)
(* implement TaskLifecycle.                                                *)
(***************************************************************************)
EXTENDS MetadataIndex, ConnectionManagerProofs

USE SchemaAssumption, WalkAssumption, CapacityAssumption

-----------------------------------------------------------------------------
(* Types, and what a walk holds where it is.                               *)

OnLease == {"reserving", "reading", "committing"}
Label == {"idle", "created", "waiting", "finishing"} \cup OnLease
Index == [size : Nat, version : 0..MaxSchema, generation : Generation \cup {NoGeneration}]

\* A lease waits exactly while its walk does, and has a walk that works on it.
LeasesFollowWalks ==
  \A l \in registered : pc[l.query] \in (IF l \in waiting THEN {"created", "waiting"} ELSE OnLease)

IndexTypeOK ==
  /\ MetadataTypeOK
  /\ taskStatus \in [QueryId -> Tasks!TaskStatus] /\ cancelRequested \subseteq QueryId
  /\ entries \in [Source -> Index] /\ holder \in [Source -> QueryId \cup {NoWalk}]
  /\ pc \in [QueryId -> Label] /\ forced \subseteq QueryId
  /\ read \in [QueryId -> 0..MaxSchema] /\ result \in [QueryId -> {"none", "ok", "error"}]
  /\ floor \in [Source -> 0..MaxSchema]
  /\ late \subseteq Generation /\ committed \subseteq QueryId
  /\ LeasesFollowWalks

\* What a walk does with its lease.
LeaseKept == UNCHANGED <<sessionVars, registered, waiting, schema, emptied>>
LeaseWaits(l) == /\ registered' = registered /\ waiting' = waiting \ {l}
                 /\ UNCHANGED <<sessionVars, schema, emptied>>
LeaseEnded(l) == /\ registered' = registered \ {l} /\ waiting' = waiting \ {l}
                 /\ UNCHANGED <<sessionVars, schema, emptied>>

LEMMA RegisteredTypes ==
  ASSUME MetadataTypeOK, NEW l \in registered
  PROVE  l.source \in Source /\ l.query \in QueryId /\ l.generation \in Generation
BY DEF MetadataTypeOK, TypeOK, Lease

LEMMA WorkEnds ==
  ASSUME MetadataTypeOK, NEW l \in Underway, EndMetadataOperation(l)
  PROVE  LeaseEnded(l)
BY LeaseEnds DEF EndMetadataOperation, Underway, LeaseEnded, metadataVars, MetadataTypeOK

LEMMA UnchangedKeeps ==
  ASSUME UNCHANGED <<vars, metadataVars>>
  PROVE  LeaseKept
BY DEF LeaseKept, vars, sessionVars, queryVars, metadataVars

\* A walk that does not wait works on its lease.
LEMMA WalkHasLease ==
  ASSUME IndexTypeOK, NEW l \in registered, pc[l.query] \in OnLease
  PROVE  l \in Underway
BY DEF IndexTypeOK, LeasesFollowWalks, OnLease, Underway

\* The steps of the index are steps of metadata operations.
LEMMA IndexStepIsMetadataStep == IndexTypeOK /\ [IndexNext]_ivars => MetadataStep
<1> SUFFICES ASSUME IndexTypeOK, [IndexNext]_ivars PROVE MetadataStep
  OBVIOUS
<1> USE DEF MetadataStep
<1>1. ASSUME NEW t \in QueryId, NEW s \in Source, NEW force \in BOOLEAN,
             StartMetadataIndexTask(t, s, force)
      PROVE  MetadataStep
  BY <1>1 DEF StartMetadataIndexTask
<1>2. ASSUME NEW t \in QueryId, TaskStarts(t) \/ FinishTask(t) PROVE MetadataStep
  BY <1>2 DEF TaskStarts, FinishTask
<1>3. ASSUME NEW l \in registered, WalkWaits(l) PROVE MetadataStep
  BY <1>3 DEF WalkWaits, Wait, AbandonWait
<1>4. ASSUME NEW l \in registered, Reserve(l) \/ Read(l) \/ Commit(l) PROVE MetadataStep
  BY <1>4, WalkHasLease DEF Reserve, Read, Commit, OnLease
<1>5. ASSUME NEW s \in Source, ClearConnection(s) \/ ClearForAttempt(s) PROVE MetadataStep
  BY <1>5 DEF ClearConnection, ClearForAttempt
<1>6. CASE ClearAll \/ TaskCommand
  BY <1>6 DEF ClearAll, TaskCommand
<1> QED
  BY <1>1, <1>2, <1>3, <1>4, <1>5, <1>6 DEF IndexNext, WalkStep, ivars

LEMMA IndexTypeInit == IndexInit => IndexTypeOK
<1> SUFFICES ASSUME IndexInit PROVE IndexTypeOK
  OBVIOUS
<1>1. MetadataTypeOK /\ registered = {}
  BY MetadataTypeInit DEF IndexInit, MetadataOperationsInit, Init
<1> QED
  BY <1>1 DEF IndexInit, IndexTypeOK, Tasks!TaskInit, Tasks!TaskStatus, NoIndex, Index, Label,
              LeasesFollowWalks

LEMMA WaitOutcome ==
  ASSUME MetadataTypeOK, NEW l \in waiting, Wait(l) \/ AbandonWait(l)
  PROVE  LeaseKept \/ LeaseWaits(l) \/ LeaseEnded(l)
BY WaitSteps DEF LeaseKept, LeaseWaits, LeaseEnded

\* Where a walk is after it has waited.
LEMMA WaitLeadsOn ==
  ASSUME IndexTypeOK, NEW l \in registered, WalkWaits(l)
  PROVE  /\ l \in waiting
         /\ \/ LeaseKept /\ UNCHANGED <<pc, result>>
            \/ LeaseWaits(l) /\ pc' = [pc EXCEPT ![l.query] = "reserving"] /\ UNCHANGED result
            \/ LeaseEnded(l) /\ EndsWith(l.query, "error")
<1>1. l \in waiting
  BY DEF WalkWaits, Wait, AbandonWait
<1>2. LeaseKept \/ LeaseWaits(l) \/ LeaseEnded(l)
  BY <1>1, WaitOutcome DEF WalkWaits, IndexTypeOK
<1>3. CASE Wait(l) /\ IF l \in waiting' THEN UNCHANGED <<pc, result>>
                      ELSE IF l \in registered' THEN Goto(l.query, "reserving") /\ UNCHANGED result
                      ELSE EndsWith(l.query, "error")
  BY <1>1, <1>2, <1>3 DEF LeaseKept, LeaseWaits, LeaseEnded, Goto
<1>4. CASE AbandonWait(l) /\ EndsWith(l.query, "error")
  <2>1. waiting' = waiting \ {l} /\ registered' = registered \ {l}
    BY <1>4 DEF AbandonWait, Unregister
  <2> QED
    BY <1>1, <1>2, <1>4, <2>1 DEF LeaseKept, LeaseWaits, LeaseEnded, IndexTypeOK, MetadataTypeOK
<1> QED
  BY <1>1, <1>3, <1>4 DEF WalkWaits

LEMMA IndexTypeNext == IndexTypeOK /\ [IndexNext]_ivars => IndexTypeOK'
<1> SUFFICES ASSUME IndexTypeOK, [IndexNext]_ivars PROVE IndexTypeOK'
  OBVIOUS
<1>0. MetadataTypeOK /\ MetadataTypeOK'
  BY IndexStepIsMetadataStep, MetadataTypeNext DEF IndexTypeOK
<1>a. \A l \in registered : l.source \in Source /\ l.query \in QueryId /\ l.generation \in Generation
  BY <1>0, RegisteredTypes
<1>b. waiting \subseteq registered /\ \A l, m \in registered : l.query = m.query => l = m
  BY <1>0 DEF MetadataTypeOK
<1>c. schema \in 0..MaxSchema
  BY <1>0 DEF MetadataTypeOK, SchemaVersion
<1> USE DEF IndexTypeOK, LeasesFollowWalks, OnLease, Label, Index, Tasks!TaskStatus, NoIndex
<1>1. ASSUME NEW t \in QueryId, NEW s \in Source, NEW force \in BOOLEAN,
             StartMetadataIndexTask(t, s, force)
      PROVE  IndexTypeOK'
  <2> DEFINE l == [source |-> s, generation |-> live[s], query |-> t]
  <2>1. registered' = registered \cup {l} /\ waiting' = waiting \cup {l}
    BY <1>1 DEF StartMetadataIndexTask, BeginMetadataOperation, BeginQuery
  <2>2. /\ \A m \in registered : m.query # t
        /\ l.query = t
    BY <1>1 DEF StartMetadataIndexTask, BeginMetadataOperation
  <2> HIDE DEF l
  <2>3. LeasesFollowWalks'
    BY <1>1, <1>a, <1>b, <2>1, <2>2 DEF StartMetadataIndexTask, Goto
  <2> QED
    BY <1>0, <1>1, <2>3 DEF StartMetadataIndexTask, Goto, Tasks!CreateTask, indexVars
<1>2. ASSUME NEW t \in QueryId, TaskStarts(t) PROVE IndexTypeOK'
  <2>1. LeaseKept
    BY <1>2, UnchangedKeeps DEF TaskStarts
  <2> QED
    BY <1>0, <1>2, <1>a, <2>1 DEF LeaseKept, TaskStarts, Goto, Tasks!StartTask, indexVars, historyVars
<1>3. ASSUME NEW t \in QueryId, FinishTask(t) PROVE IndexTypeOK'
  <2>1. LeaseKept
    BY <1>3, UnchangedKeeps DEF FinishTask
  <2> QED
    BY <1>0, <1>3, <1>a, <2>1
       DEF LeaseKept, FinishTask, EndWalk, Goto, Tasks!Finish, indexVars, historyVars
<1>4. ASSUME NEW l \in registered, WalkWaits(l) PROVE IndexTypeOK'
  BY SMTT(30), <1>0, <1>4, <1>a, <1>b, WaitLeadsOn
     DEF LeaseKept, LeaseWaits, LeaseEnded, WalkWaits, EndsWith, Goto, taskVars, indexVars, historyVars
<1>5. ASSUME NEW l \in registered, Reserve(l) PROVE IndexTypeOK'
  <2>1. l \in Underway
    BY <1>5, WalkHasLease DEF Reserve
  <2>2. CASE EndMetadataOperation(l) /\ EndsWith(l.query, "ok") /\ UNCHANGED <<holder, late>>
    BY <1>0, <1>5, <1>a, <1>b, <2>1, <2>2, WorkEnds
       DEF Reserve, LeaseEnded, EndsWith, Goto, taskVars
  <2>3. CASE /\ UNCHANGED <<vars, metadataVars, result>>
             /\ holder' = [holder EXCEPT ![l.source] = l.query]
             /\ late' = IF RegistryOpen(l) THEN late ELSE late \cup {l.generation}
             /\ Goto(l.query, "reading")
    BY <1>0, <1>5, <1>a, <1>b, <2>1, <2>3, UnchangedKeeps
       DEF Reserve, LeaseKept, Goto, taskVars, Underway
  <2> QED
    BY <1>5, <2>2, <2>3 DEF Reserve
<1>6. ASSUME NEW l \in registered, Read(l) PROVE IndexTypeOK'
  <2>1. l \in Underway
    BY <1>6, WalkHasLease DEF Read
  <2>2. CASE EndMetadataOperation(l) /\ EndsWith(l.query, "error") /\ UNCHANGED read
    BY <1>0, <1>6, <1>a, <1>b, <2>1, <2>2, WorkEnds
       DEF Read, LeaseEnded, EndsWith, Goto, taskVars, indexVars, historyVars
  <2>3. CASE /\ read' = [read EXCEPT ![l.query] = schema]
             /\ Goto(l.query, "committing")
             /\ UNCHANGED <<vars, metadataVars, result>>
    BY <1>0, <1>6, <1>a, <1>b, <1>c, <2>1, <2>3, UnchangedKeeps
       DEF Read, LeaseKept, Goto, taskVars, indexVars, historyVars, Underway
  <2> QED
    BY <1>6, <2>2, <2>3 DEF Read
<1>7. ASSUME NEW l \in registered, Commit(l) PROVE IndexTypeOK'
  <2>1. l \in Underway
    BY <1>7, WalkHasLease DEF Commit
  <2>2. LeaseEnded(l)
    BY <1>0, <1>7, <2>1, WorkEnds DEF Commit
  <2>3. entries' \in [Source -> Index] /\ committed' \subseteq QueryId
    BY <1>7, <1>a DEF Commit
  <2>4. \E outcome \in {"ok", "error"} : EndsWith(l.query, outcome)
    BY <1>7 DEF Commit
  <2> QED
    BY <1>0, <1>7, <1>a, <1>b, <2>1, <2>2, <2>3, <2>4 DEF Commit, LeaseEnded, EndsWith, Goto, taskVars
<1>8. ASSUME NEW s \in Source, ClearConnection(s) \/ ClearForAttempt(s) PROVE IndexTypeOK'
  <2>1. UNCHANGED <<registered, waiting, taskVars, walkVars>> /\ Empty(s)
    BY <1>8 DEF ClearConnection, ClearForAttempt, vars, queryVars, metadataVars
  <2> QED
    BY <1>0, <1>c, <2>1 DEF Empty, taskVars, walkVars
<1>9. CASE ClearAll
  <2>1. LeaseKept
    BY <1>9, UnchangedKeeps DEF ClearAll
  <2> QED
    BY <1>0, <1>9, <1>c, <2>1 DEF ClearAll, LeaseKept, taskVars, walkVars
<1>10. CASE TaskCommand
  <2>1. LeaseKept
    BY <1>10, UnchangedKeeps DEF TaskCommand
  <2> QED
    BY <1>0, <1>10, <2>1
       DEF TaskCommand, LeaseKept, Tasks!RequestCancel, Tasks!ClearCompletedTasks, indexVars,
           walkVars, historyVars
<1>11. CASE SurroundingStep /\ UNCHANGED <<taskVars, indexVars, walkVars, historyVars>>
  BY <1>0, <1>11, SurroundingSteps DEF taskVars, indexVars, walkVars, historyVars
<1>12. CASE UNCHANGED ivars
  <2>1. LeaseKept
    BY <1>12, UnchangedKeeps DEF ivars
  <2> QED
    BY <1>0, <1>12, <2>1 DEF LeaseKept, ivars, taskVars, indexVars, walkVars, historyVars
<1> QED
  BY <1>1, <1>2, <1>3, <1>4, <1>5, <1>6, <1>7, <1>8, <1>9, <1>10, <1>11, <1>12 DEF IndexNext, WalkStep

LEMMA IndexTypeAlways == IndexSpec => []IndexTypeOK
BY IndexTypeInit, IndexTypeNext, PTL DEF IndexSpec

-----------------------------------------------------------------------------
(* Clearing.                                                               *)

\* A reservation that survived holds what was read after the last clear, for no
\* clear lies in the future.
BarrierInv == (\A s \in Source : floor[s] <= schema) /\ ClearingIsBarrier

LEMMA BarrierNext == IndexTypeOK /\ BarrierInv /\ [IndexNext]_ivars => BarrierInv'
<1> SUFFICES ASSUME IndexTypeOK, BarrierInv, [IndexNext]_ivars PROVE BarrierInv'
  OBVIOUS
<1>a. /\ \A l \in registered : l.source \in Source /\ l.query \in QueryId
      /\ \A l, m \in registered : l.query = m.query => l = m
      /\ waiting \subseteq registered
      /\ schema \in Nat
  BY RegisteredTypes DEF IndexTypeOK, MetadataTypeOK, SchemaVersion
<1>b. /\ pc \in [QueryId -> Label] /\ entries \in [Source -> Index]
      /\ floor \in [Source -> 0..MaxSchema] /\ holder \in [Source -> QueryId \cup {NoWalk}]
      /\ read \in [QueryId -> 0..MaxSchema]
  BY DEF IndexTypeOK
<1> USE DEF BarrierInv, ClearingIsBarrier
<1>1. ASSUME NEW t \in QueryId, NEW s \in Source, NEW force \in BOOLEAN,
             StartMetadataIndexTask(t, s, force)
      PROVE  BarrierInv'
  <2> DEFINE l == [source |-> s, generation |-> live[s], query |-> t]
  <2>1. registered' = registered \cup {l} /\ l.query = t /\ UNCHANGED schema
    BY <1>1 DEF StartMetadataIndexTask, BeginMetadataOperation, BeginQuery
  <2> HIDE DEF l
  <2> QED
    BY <1>1, <1>a, <1>b, <2>1 DEF StartMetadataIndexTask, Goto, indexVars
<1>2. ASSUME NEW t \in QueryId, TaskStarts(t) \/ FinishTask(t) PROVE BarrierInv'
  <2>1. LeaseKept
    BY <1>2, UnchangedKeeps DEF TaskStarts, FinishTask
  <2> QED
    BY <1>2, <1>a, <1>b, <2>1
       DEF LeaseKept, TaskStarts, FinishTask, EndWalk, Goto, indexVars, historyVars
<1>3. ASSUME NEW l \in registered, WalkWaits(l) PROVE BarrierInv'
  BY <1>3, <1>a, <1>b, WaitLeadsOn
     DEF LeaseKept, LeaseWaits, LeaseEnded, WalkWaits, EndsWith, Goto, indexVars, historyVars
<1>4. ASSUME NEW l \in registered, Reserve(l) PROVE BarrierInv'
  <2>1. LeaseKept \/ LeaseEnded(l)
    BY <1>4, WalkHasLease, WorkEnds, UnchangedKeeps DEF Reserve, OnLease, IndexTypeOK
  <2>2. pc' \in {[pc EXCEPT ![l.query] = "finishing"], [pc EXCEPT ![l.query] = "reading"]}
    BY <1>4 DEF Reserve, EndsWith, Goto
  <2>3. holder' = holder \/ holder' = [holder EXCEPT ![l.source] = l.query]
    BY <1>4 DEF Reserve
  <2> QED
    BY <1>4, <1>a, <1>b, <2>1, <2>2, <2>3 DEF Reserve, LeaseKept, LeaseEnded
<1>5. ASSUME NEW l \in registered, Read(l) PROVE BarrierInv'
  <2>1. LeaseKept \/ LeaseEnded(l)
    BY <1>5, WalkHasLease, WorkEnds, UnchangedKeeps DEF Read, OnLease, IndexTypeOK
  <2> QED
    BY <1>5, <1>a, <1>b, <2>1
       DEF Read, EndsWith, Goto, LeaseKept, LeaseEnded, indexVars, historyVars
<1>6. ASSUME NEW l \in registered, Commit(l) PROVE BarrierInv'
  <2>1. LeaseEnded(l)
    BY <1>6, WalkHasLease, WorkEnds DEF Commit, OnLease, IndexTypeOK
  <2>2. \A s \in Source :
          \/ entries'[s] \in {entries[s], NoIndex}
          \/ s = l.source /\ holder[s] = l.query /\ entries'[s].version = read[l.query]
    <3>1. CASE UNCHANGED entries
      BY <3>1
    <3>2. CASE holder[l.source] = l.query /\ \E size \in 1..Capacity : \E E \in Evicted(l.source, size) :
                 entries' = [o \in Source |->
                   IF o = l.source
                   THEN [size |-> size, version |-> read[l.query], generation |-> l.generation]
                   ELSE IF o \in E THEN NoIndex ELSE entries[o]]
      BY <3>2
    <3> QED
      BY <1>6, <3>1, <3>2 DEF Commit
  <2>3. \A m \in registered' : pc'[m.query] = pc[m.query]
    BY <1>6, <1>a, <1>b, <2>1 DEF Commit, LeaseEnded, EndsWith, Goto
  <2>4. pc[l.query] = "committing" /\ UNCHANGED <<holder, read, floor>>
    BY <1>6 DEF Commit
  <2> QED
    BY <1>a, <1>b, <2>1, <2>2, <2>3, <2>4 DEF LeaseEnded
<1>7. ASSUME NEW s \in Source, ClearConnection(s) \/ ClearForAttempt(s) PROVE BarrierInv'
  <2>1. UNCHANGED <<registered, schema, walkVars>> /\ Empty(s)
    BY <1>7 DEF ClearConnection, ClearForAttempt, vars, queryVars, metadataVars
  <2> QED
    BY <1>a, <1>b, <2>1 DEF Empty, walkVars
<1>8. CASE ClearAll
  <2>1. LeaseKept
    BY <1>8, UnchangedKeeps DEF ClearAll
  <2> QED
    BY <1>8, <1>a, <1>b, <2>1 DEF ClearAll, LeaseKept, walkVars
<1>9. CASE TaskCommand \/ UNCHANGED ivars
  <2>1. LeaseKept
    BY <1>9, UnchangedKeeps DEF TaskCommand, ivars
  <2> QED
    BY <1>9, <2>1 DEF TaskCommand, LeaseKept, indexVars, walkVars, historyVars, ivars
<1>10. CASE SurroundingStep /\ UNCHANGED <<taskVars, indexVars, walkVars, historyVars>>
  <2>1. schema' \in {schema, schema + 1}
    BY <1>10 DEF SurroundingStep, ChangeSchema, ConnectionStep, AdmitAttempt, FinishAttempt, EndSession
  <2> QED
    BY <1>10, <1>a, <1>b, <2>1, SurroundingSteps DEF indexVars, walkVars, historyVars, IndexTypeOK
<1> QED
  BY <1>1, <1>2, <1>3, <1>4, <1>5, <1>6, <1>7, <1>8, <1>9, <1>10 DEF IndexNext, WalkStep

(* Clearing is a barrier: no index that was read before a clear is found     *)
(* after it (ClearingIsBarrier of MetadataIndex.tla).                       *)
THEOREM ClearingCorrect == IndexSpec => []ClearingIsBarrier
<1>1. IndexInit => BarrierInv
  BY DEF IndexInit, MetadataOperationsInit, Init, BarrierInv, ClearingIsBarrier
<1>2. BarrierInv => ClearingIsBarrier
  BY DEF BarrierInv
<1> QED
  BY <1>1, <1>2, IndexTypeAlways, BarrierNext, PTL DEF IndexSpec

-----------------------------------------------------------------------------
(* What the tasks report.  finish overwrites any status, so what protects a  *)
(* status that has ended is that the one walk of the task has ended before.  *)

\* What the list may show of a task while its walk is under way, and what its
\* walk has stored.
Report(st, label, outcome, stored) ==
  /\ label # "idle" => st \in {"pending", "running", "cancelling"}
  /\ label \notin {"idle", "finishing"} => ~stored
  /\ label = "finishing" /\ outcome # "ok" => ~stored
  /\ st \in {"cancelled", "failed"} => ~stored

ReportsAreTrue == \A t \in QueryId : Report(taskStatus[t], pc[t], result[t], t \in committed)

LEMMA CommittingStores ==
  ASSUME NEW l \in registered, Commit(l)
  PROVE  \/ EndsWith(l.query, "ok") /\ committed' = committed \cup {l.query}
         \/ EndsWith(l.query, "error") /\ UNCHANGED committed
BY DEF Commit

LEMMA ReportsNext == IndexTypeOK /\ ReportsAreTrue /\ [IndexNext]_ivars => ReportsAreTrue'
<1> SUFFICES ASSUME IndexTypeOK, ReportsAreTrue, [IndexNext]_ivars PROVE ReportsAreTrue'
  OBVIOUS
<1>a. \A l \in registered : l.query \in QueryId
  BY RegisteredTypes DEF IndexTypeOK
<1>b. /\ pc \in [QueryId -> Label] /\ taskStatus \in [QueryId -> Tasks!TaskStatus]
      /\ result \in [QueryId -> {"none", "ok", "error"}]
  BY DEF IndexTypeOK
<1> USE DEF ReportsAreTrue, Report
<1>1. ASSUME NEW t \in QueryId, NEW s \in Source, NEW force \in BOOLEAN,
             StartMetadataIndexTask(t, s, force)
      PROVE  ReportsAreTrue'
  BY <1>1, <1>b DEF StartMetadataIndexTask, Tasks!CreateTask, Goto
<1>2. ASSUME NEW t \in QueryId, TaskStarts(t) PROVE ReportsAreTrue'
  BY <1>2, <1>b DEF TaskStarts, Tasks!StartTask, Goto, historyVars
<1>3. ASSUME NEW t \in QueryId, FinishTask(t) PROVE ReportsAreTrue'
  BY <1>3, <1>b DEF FinishTask, Tasks!Finish, EndWalk, Goto, historyVars
<1>4. ASSUME NEW l \in registered, WalkWaits(l) PROVE ReportsAreTrue'
  BY <1>4, <1>a, <1>b DEF WalkWaits, EndsWith, Goto, taskVars, historyVars
<1>5. ASSUME NEW l \in registered, Reserve(l) PROVE ReportsAreTrue'
  BY <1>5, <1>a, <1>b DEF Reserve, EndsWith, Goto, taskVars
<1>6. ASSUME NEW l \in registered, Read(l) PROVE ReportsAreTrue'
  BY <1>6, <1>a, <1>b DEF Read, EndsWith, Goto, taskVars, historyVars
<1>7. ASSUME NEW l \in registered, Commit(l) PROVE ReportsAreTrue'
  <2>1. pc[l.query] = "committing" /\ UNCHANGED taskStatus
    BY <1>7 DEF Commit, taskVars
  <2> QED
    BY <1>7, <1>a, <1>b, <2>1, CommittingStores DEF EndsWith, Goto
<1>8. ASSUME NEW s \in Source, ClearConnection(s) \/ ClearForAttempt(s) PROVE ReportsAreTrue'
  BY <1>8 DEF ClearConnection, ClearForAttempt, Empty, taskVars, walkVars
<1>9. CASE ClearAll
  BY <1>9 DEF ClearAll, taskVars, walkVars
<1>10. CASE TaskCommand
  BY <1>10, <1>b
     DEF TaskCommand, Tasks!RequestCancel, Tasks!ClearCompletedTasks, walkVars, historyVars
<1>11. CASE UNCHANGED <<taskVars, walkVars, historyVars>>
  BY <1>11 DEF taskVars, walkVars, historyVars
<1> QED
  BY <1>1, <1>2, <1>3, <1>4, <1>5, <1>6, <1>7, <1>8, <1>9, <1>10, <1>11
     DEF IndexNext, WalkStep, ivars

LEMMA ReportsAlways == IndexSpec => []ReportsAreTrue
<1>1. IndexInit => ReportsAreTrue
  BY DEF IndexInit, Tasks!TaskInit, ReportsAreTrue, Report
<1> QED
  BY <1>1, IndexTypeAlways, ReportsNext, PTL DEF IndexSpec

(* The tasks implement TaskLifecycle: each ends once, keeps its outcome until *)
(* it is cleared away, and does not forget a cancellation.                  *)
THEOREM LifecycleCorrect == IndexSpec => KeepsLifecycle
<1>1. IndexInit => Lifecycle!LifecycleInit
  BY DEF IndexInit, Tasks!TaskInit, Lifecycle!LifecycleInit
<1>2. IndexTypeOK /\ ReportsAreTrue /\ [IndexNext]_ivars => [Lifecycle!LifecycleNext]_taskStatus
  <2> SUFFICES ASSUME IndexTypeOK, ReportsAreTrue, [IndexNext]_ivars
               PROVE  Lifecycle!LifecycleNext \/ UNCHANGED taskStatus
    OBVIOUS
  <2>a. taskStatus \in [QueryId -> Tasks!TaskStatus]
    BY DEF IndexTypeOK
  \* Any task whose status becomes a successor of the one it had.
  <2>1. ASSUME NEW t \in QueryId, NEW st \in Lifecycle!Unended \cup Lifecycle!Ended,
               st \in Lifecycle!Successors(taskStatus[t]),
               taskStatus' = [taskStatus EXCEPT ![t] = st]
        PROVE  Lifecycle!LifecycleNext
    BY <2>1 DEF Lifecycle!LifecycleNext, Lifecycle!Advance
  <2> USE DEF Lifecycle!Unended, Lifecycle!Ended, Lifecycle!Successors
  <2>2. ASSUME NEW t \in QueryId, NEW s \in Source, NEW force \in BOOLEAN,
               StartMetadataIndexTask(t, s, force)
        PROVE  Lifecycle!LifecycleNext
    BY <2>1, <2>2 DEF StartMetadataIndexTask, Tasks!CreateTask
  <2>3. ASSUME NEW t \in QueryId, TaskStarts(t)
        PROVE  Lifecycle!LifecycleNext \/ UNCHANGED taskStatus
    BY <2>1, <2>3 DEF TaskStarts, Tasks!StartTask
  <2>4. ASSUME NEW t \in QueryId, FinishTask(t)
        PROVE  Lifecycle!LifecycleNext \/ UNCHANGED taskStatus
    <3>1. taskStatus[t] \in Lifecycle!Unended
      BY <2>4 DEF FinishTask, ReportsAreTrue, Report
    <3> QED
      BY <2>1, <2>4, <3>1 DEF FinishTask, Tasks!Finish
  <2>5. CASE TaskCommand
    <3>1. ASSUME NEW t \in QueryId, Tasks!RequestCancel(t)
          PROVE  Lifecycle!LifecycleNext \/ UNCHANGED taskStatus
      BY <2>1, <3>1 DEF Tasks!RequestCancel
    <3>2. Tasks!ClearCompletedTasks => Lifecycle!ClearEnded
      BY DEF Tasks!ClearCompletedTasks, Lifecycle!ClearEnded
    <3> QED
      BY <2>5, <3>1, <3>2 DEF TaskCommand, Lifecycle!LifecycleNext
  <2>6. ASSUME NEW l \in registered, WalkWaits(l) \/ Reserve(l) \/ Read(l) \/ Commit(l)
        PROVE  UNCHANGED taskStatus
    BY <2>6 DEF WalkWaits, Reserve, Read, Commit, taskVars
  <2>7. ASSUME NEW s \in Source, ClearConnection(s) \/ ClearForAttempt(s)
        PROVE  UNCHANGED taskStatus
    BY <2>7 DEF ClearConnection, ClearForAttempt, taskVars
  <2>8. ClearAll \/ UNCHANGED <<taskVars, indexVars, walkVars, historyVars>> => UNCHANGED taskStatus
    BY DEF ClearAll, taskVars
  <2> QED
    BY <2>2, <2>3, <2>4, <2>5, <2>6, <2>7, <2>8 DEF IndexNext, WalkStep, ivars
<1> QED
  BY <1>1, <1>2, IndexTypeAlways, ReportsAlways, PTL
     DEF IndexSpec, KeepsLifecycle, Lifecycle!LifecycleSpec

-----------------------------------------------------------------------------
(* Which connection an index is of.                                        *)

\* An index of s read over connection g may be kept: it describes s, or its walk
\* came late.
MayKeep(s, g) == g \in late \/ Describes(s, g)

PresentInv ==
  /\ \A s \in Source : entries[s] # NoIndex => MayKeep(s, entries[s].generation)
  /\ \A l \in registered :
       holder[l.source] = l.query /\ pc[l.query] \in {"reading", "committing"}
         => MayKeep(l.source, l.generation)

LEMMA PresentNext ==
  IndexTypeOK /\ StatusMatchesRuntime /\ PresentInv /\ [IndexNext]_ivars => PresentInv'
<1> SUFFICES ASSUME IndexTypeOK, StatusMatchesRuntime, PresentInv, [IndexNext]_ivars
             PROVE  PresentInv'
  OBVIOUS
<1>a. /\ \A l \in registered :
           l.source \in Source /\ l.query \in QueryId /\ l.generation \in Generation
      /\ \A l, m \in registered : l.query = m.query => l = m
      /\ MetadataTypeOK
  BY RegisteredTypes DEF IndexTypeOK, MetadataTypeOK
<1>b. /\ pc \in [QueryId -> Label] /\ entries \in [Source -> Index]
      /\ holder \in [Source -> QueryId \cup {NoWalk}]
  BY DEF IndexTypeOK
<1> USE DEF PresentInv
\* Where the sessions stay, what may be kept may still be kept.
<1>c. ASSUME UNCHANGED <<sessionVars, emptied>>, late \subseteq late', NEW s, NEW g, MayKeep(s, g)
      PROVE  MayKeep(s, g)'
  BY <1>c DEF MayKeep, Describes, sessionVars, LiveSources
<1>1. ASSUME NEW t \in QueryId, NEW s \in Source, NEW force \in BOOLEAN,
             StartMetadataIndexTask(t, s, force)
      PROVE  PresentInv'
  <2> DEFINE l == [source |-> s, generation |-> live[s], query |-> t]
  <2>1. registered' = registered \cup {l} /\ l.query = t
        /\ UNCHANGED <<sessionVars, emptied, late, entries, holder>>
    BY <1>1 DEF StartMetadataIndexTask, BeginMetadataOperation, BeginQuery, indexVars
  <2>2. pc' = [pc EXCEPT ![t] = "created"]
    BY <1>1 DEF StartMetadataIndexTask, Goto
  <2> HIDE DEF l
  <2> QED
    BY <1>a, <1>b, <1>c, <2>1, <2>2
<1>2. ASSUME NEW t \in QueryId, TaskStarts(t) \/ FinishTask(t) PROVE PresentInv'
  <2>1. LeaseKept /\ UNCHANGED <<entries, holder, late>>
    BY <1>2, UnchangedKeeps DEF TaskStarts, FinishTask, indexVars, historyVars
  <2>2. pc' \in {[pc EXCEPT ![t] = "waiting"], [pc EXCEPT ![t] = "idle"]}
    BY <1>2 DEF TaskStarts, FinishTask, EndWalk, Goto
  <2> QED
    BY <1>a, <1>b, <1>c, <2>1, <2>2 DEF LeaseKept
<1>3. ASSUME NEW l \in registered, WalkWaits(l) PROVE PresentInv'
  <2>1. UNCHANGED <<entries, holder, late>>
    BY <1>3 DEF WalkWaits, indexVars, historyVars
  <2> QED
    BY <1>3, <1>a, <1>b, <1>c, <2>1, WaitLeadsOn
       DEF LeaseKept, LeaseWaits, LeaseEnded, EndsWith, Goto
<1>4. ASSUME NEW l \in registered, Reserve(l) PROVE PresentInv'
  <2>1. CASE EndMetadataOperation(l) /\ EndsWith(l.query, "ok") /\ UNCHANGED <<holder, late>>
    <3>1. LeaseEnded(l) /\ UNCHANGED entries
      BY <1>4, <1>a, <2>1, WalkHasLease, WorkEnds DEF Reserve, OnLease
    <3> QED
      BY <1>a, <1>b, <1>c, <2>1, <3>1 DEF LeaseEnded, EndsWith, Goto
  <2>2. CASE /\ UNCHANGED <<vars, metadataVars, result>>
             /\ holder' = [holder EXCEPT ![l.source] = l.query]
             /\ late' = IF RegistryOpen(l) THEN late ELSE late \cup {l.generation}
             /\ Goto(l.query, "reading")
    <3>1. LeaseKept /\ UNCHANGED entries
      BY <1>4, <2>2, UnchangedKeeps DEF Reserve
    <3>2. MayKeep(l.source, l.generation)'
      <4>1. CASE RegistryOpen(l)
        BY <1>a, <1>c, <2>2, <3>1, <4>1, OpenDescribes DEF MayKeep, LeaseKept
      <4>2. CASE ~RegistryOpen(l)
        BY <2>2, <4>2 DEF MayKeep
      <4> QED
        BY <4>1, <4>2
    <3>3. \A m \in registered' :
            holder'[m.source] = m.query /\ pc'[m.query] \in {"reading", "committing"}
              => m = l \/ (holder[m.source] = m.query /\ pc[m.query] \in {"reading", "committing"})
      BY <1>a, <1>b, <2>2, <3>1 DEF LeaseKept, Goto
    <3> QED
      BY <1>a, <1>c, <2>2, <3>1, <3>2, <3>3 DEF LeaseKept
  <2> QED
    BY <1>4, <2>1, <2>2 DEF Reserve
<1>5. ASSUME NEW l \in registered, Read(l) PROVE PresentInv'
  <2>1. LeaseKept \/ LeaseEnded(l)
    BY <1>5, <1>a, WalkHasLease, WorkEnds, UnchangedKeeps DEF Read, OnLease
  <2>2. UNCHANGED <<entries, holder, late>> /\ pc[l.query] = "reading"
    BY <1>5 DEF Read, indexVars, historyVars
  <2>3. \E label \in {"committing", "finishing"} : pc' = [pc EXCEPT ![l.query] = label]
    BY <1>5 DEF Read, EndsWith, Goto
  <2> QED
    BY <1>a, <1>b, <1>c, <2>1, <2>2, <2>3 DEF LeaseKept, LeaseEnded
<1>6. ASSUME NEW l \in registered, Commit(l) PROVE PresentInv'
  <2>1. LeaseEnded(l)
    BY <1>6, <1>a, WalkHasLease, WorkEnds DEF Commit, OnLease
  <2>2. \A s \in Source :
          \/ entries'[s] \in {entries[s], NoIndex}
          \/ s = l.source /\ holder[s] = l.query /\ entries'[s].generation = l.generation
    <3>1. CASE UNCHANGED entries
      BY <3>1
    <3>2. CASE holder[l.source] = l.query /\ \E size \in 1..Capacity : \E E \in Evicted(l.source, size) :
                 entries' = [o \in Source |->
                   IF o = l.source
                   THEN [size |-> size, version |-> read[l.query], generation |-> l.generation]
                   ELSE IF o \in E THEN NoIndex ELSE entries[o]]
      BY <3>2
    <3> QED
      BY <1>6, <3>1, <3>2 DEF Commit
  <2>3. \A m \in registered' : pc'[m.query] = pc[m.query]
    BY <1>6, <1>a, <1>b, <2>1 DEF Commit, LeaseEnded, EndsWith, Goto
  <2>4. pc[l.query] = "committing" /\ UNCHANGED <<holder, late>>
    BY <1>6 DEF Commit
  <2> QED
    BY <1>a, <1>c, <2>1, <2>2, <2>3, <2>4 DEF LeaseEnded
<1>7. ASSUME NEW s \in Source, ClearConnection(s) \/ ClearForAttempt(s) PROVE PresentInv'
  <2>1. UNCHANGED <<registered, live, late, walkVars>> /\ Empty(s)
        /\ emptied' \in {emptied, emptied \cup {s}}
    BY <1>7 DEF ClearConnection, ClearForAttempt, Empty, vars, sessionVars, queryVars, metadataVars
  <2>2. \A o \in Source : \A g : o # s /\ MayKeep(o, g) => MayKeep(o, g)'
    BY <2>1 DEF MayKeep, Describes, LiveSources
  <2> QED
    BY <1>a, <1>b, <2>1, <2>2 DEF Empty, walkVars
<1>8. CASE ClearAll
  <2>1. LeaseKept
    BY <1>8, UnchangedKeeps DEF ClearAll
  <2> QED
    BY <1>8, <1>a, <1>b, <2>1 DEF ClearAll, LeaseKept, walkVars
<1>9. CASE TaskCommand \/ UNCHANGED ivars
  <2>1. LeaseKept
    BY <1>9, UnchangedKeeps DEF TaskCommand, ivars
  <2>2. UNCHANGED <<entries, holder, pc, late>>
    BY <1>9 DEF TaskCommand, indexVars, walkVars, historyVars, ivars
  <2> QED
    BY <1>c, <2>1, <2>2 DEF LeaseKept
<1>10. CASE SurroundingStep /\ UNCHANGED <<taskVars, indexVars, walkVars, historyVars>>
  <2>1. UNCHANGED <<registered, entries, holder, pc, late>>
    BY <1>10, <1>a, SurroundingSteps DEF indexVars, walkVars, historyVars
  <2>2. \A s \in Source : \A g : MayKeep(s, g) => MayKeep(s, g)'
    BY <1>10, <1>a, <2>1, SessionsKeepDescribing DEF MayKeep
  <2> QED
    BY <1>a, <2>1, <2>2
<1> QED
  BY <1>1, <1>2, <1>3, <1>4, <1>5, <1>6, <1>7, <1>8, <1>9, <1>10 DEF IndexNext, WalkStep

LEMMA PresentAlways == IndexSpec => []PresentInv
<1>1. IndexInit => StatusMatchesRuntime /\ PresentInv
  BY DEF IndexInit, MetadataOperationsInit, Init, StatusMatchesRuntime, LiveSources, PresentInv
<1>2. IndexTypeOK /\ StatusMatchesRuntime /\ [IndexNext]_ivars => StatusMatchesRuntime'
  BY IndexStepIsMetadataStep, MetadataStatusNext DEF IndexTypeOK
<1> QED
  BY <1>1, <1>2, IndexTypeAlways, PresentNext, PTL DEF IndexSpec

(* A task that is shown as cancelled or failed has not replaced the index,   *)
(* and the index of a live source is of its present connection, unless a    *)
(* walk whose connection had been retired reserved it afterwards            *)
(* (IndexSafety of MetadataIndex.tla).                                      *)
THEOREM IndexCorrect == IndexSpec => []IndexSafety
<1>1. IndexTypeOK /\ ReportsAreTrue => CancelledLeavesNothing
  BY DEF IndexTypeOK, ReportsAreTrue, Report, CancelledLeavesNothing
<1>2. PresentInv => IndexOfPresentConnection
  BY DEF PresentInv, MayKeep, Describes, LiveSources, IndexOfPresentConnection
<1> QED
  BY <1>1, <1>2, IndexTypeAlways, ReportsAlways, PresentAlways, PTL DEF IndexSafety
-----------------------------------------------------------------------------
(* The entries of all indexes together.  The sum over a set of sources takes  *)
(* them one by one; which one is next makes no difference.                  *)

Pick(T) == CHOOSE s \in T : TRUE

\* f gives the entries of each set of sources in D, which holds with a set its subsets.
Summing(f, e, D) == f = [T \in D |-> IF T = {} THEN 0 ELSE e[Pick(T)].size + f[T \ {Pick(T)}]]

SizeOf(e, S) == FoldSet(LAMBDA s, n : e[s].size + n, 0, S)

LEMMA SourcesAreFinite ==
  ASSUME NEW T \in SUBSET Source
  PROVE  /\ Cardinality(T) \in Nat
         /\ \A s \in T : /\ T \ {s} \in SUBSET Source /\ Cardinality(T \ {s}) = Cardinality(T) - 1
         /\ Cardinality(T) = 0 <=> T = {}
         /\ T # {} => Pick(T) \in T
<1>1. IsFiniteSet(T)
  BY SourceAssumption, FS_Subset
<1>2. ASSUME NEW s \in T PROVE Cardinality(T \ {s}) = Cardinality(T) - 1
  BY <1>1, FS_RemoveElement
<1> QED
  BY <1>1, <1>2, FS_CardinalityType, FS_EmptySet DEF Pick

\* A fact about sets of sources that holds where it holds without any one source.
LEMMA SmallestExists ==
  ASSUME NEW Fails \in SUBSET (SUBSET Source), Fails # {}
  PROVE  \E T \in Fails : \A s \in T : T \ {s} \notin Fails
<1> DEFINE Counts == {Cardinality(T) : T \in Fails}
<1>1. Counts \in SUBSET Nat /\ Counts # {}
  BY SourcesAreFinite
<1>2. PICK m \in Counts : \A n \in Counts : m <= n
  <2> HIDE DEF Counts
  <2> QED
    BY <1>1, LeastExists
<1>3. PICK T \in Fails : Cardinality(T) = m
  OBVIOUS
<1>4. ASSUME NEW s \in T PROVE T \ {s} \notin Fails
  BY <1>1, <1>2, <1>3, SourcesAreFinite
<1> QED
  BY <1>4


Until(n) == {T \in SUBSET Source : Cardinality(T) <= n}

LEMMA SummingExists ==
  ASSUME NEW e
  PROVE  \E f : Summing(f, e, SUBSET Source)
<1> DEFINE Fails == {n \in Nat : ~ \E f : Summing(f, e, Until(n))}
<1>1. Fails = {}
  <2> SUFFICES ASSUME Fails # {} PROVE FALSE
    OBVIOUS
  <2>1. PICK m \in Fails : \A n \in Fails : m <= n
    <3>1. Fails \in SUBSET Nat
      OBVIOUS
    <3> HIDE DEF Fails
    <3> QED
      BY <3>1, LeastExists
  <2>2. Summing([T \in Until(0) |-> 0], e, Until(0))
    <3>1. \A T \in Until(0) : T = {}
      BY SourcesAreFinite DEF Until
    <3> QED
      BY <3>1 DEF Summing
  <2>3. m # 0 /\ m - 1 \in Nat /\ m - 1 \notin Fails
    <3> HIDE DEF Summing
    <3> QED
      BY <2>1, <2>2
  <2>4. PICK g : Summing(g, e, Until(m - 1))
    BY <2>3
  <2> DEFINE f == [T \in Until(m) |-> IF T = {} THEN 0 ELSE e[Pick(T)].size + g[T \ {Pick(T)}]]
  <2>5. ASSUME NEW T \in Until(m), T # {} PROVE f[T \ {Pick(T)}] = g[T \ {Pick(T)}]
    <3>1. T \ {Pick(T)} \in Until(m - 1) /\ T \ {Pick(T)} \in Until(m)
      BY <2>3, <2>5, SourcesAreFinite DEF Until
    <3> QED
      BY <2>4, <3>1 DEF Summing
  <2>6. Summing(f, e, Until(m))
    BY <2>5 DEF Summing
  <2> QED
    BY <2>1, <2>6
<1>2. Until(Cardinality(Source)) = SUBSET Source
  BY SourceAssumption, FS_Subset DEF Until
<1>3. Cardinality(Source) \in Nat
  BY SourcesAreFinite
<1>4. \E f : Summing(f, e, Until(Cardinality(Source)))
  BY <1>1, <1>3
<1> QED
  BY <1>2, <1>4

\* What the entries of a set of sources come to, source by source in any order.
IsSum(f, e) ==
  /\ f \in [SUBSET Source -> Nat]
  /\ f[{}] = 0
  /\ \A T \in SUBSET Source : \A s \in T : f[T] = e[s].size + f[T \ {s}]

LEMMA SummingIsSum ==
  ASSUME NEW e, \A s \in Source : e[s].size \in Nat,
         NEW f, Summing(f, e, SUBSET Source)
  PROVE  IsSum(f, e)
<1>1. f = [T \in SUBSET Source |-> f[T]] /\ f[{}] = 0
  BY DEF Summing
<1>2. ASSUME NEW T \in SUBSET Source, T # {}
      PROVE  f[T] = e[Pick(T)].size + f[T \ {Pick(T)}] /\ Pick(T) \in T
  BY <1>2, SourcesAreFinite DEF Summing
<1> DEFINE Untyped == {T \in SUBSET Source : f[T] \notin Nat}
<1>3. Untyped = {}
  <2> SUFFICES ASSUME Untyped # {} PROVE FALSE
    OBVIOUS
  <2>1. PICK T \in Untyped : \A s \in T : T \ {s} \notin Untyped
    BY SmallestExists
  <2>2. T # {} /\ T \in SUBSET Source
    <3>1. f[T] \notin Nat /\ T \in SUBSET Source
      OBVIOUS
    <3>2. f[{}] \in Nat
      BY <1>1
    <3> QED
      BY <3>1, <3>2
  <2>3. f[T \ {Pick(T)}] \in Nat /\ Pick(T) \in Source
    BY <1>2, <2>1, <2>2
  <2>4. f[T] = e[Pick(T)].size + f[T \ {Pick(T)}] /\ e[Pick(T)].size \in Nat
    BY <1>2, <2>2, <2>3
  <2>5. f[T] \in Nat
    BY <2>3, <2>4
  <2> QED
    BY <2>5
<1> DEFINE Fails == {T \in SUBSET Source : \E s \in T : f[T] # e[s].size + f[T \ {s}]}
<1>4. Fails = {}
  <2> SUFFICES ASSUME Fails # {} PROVE FALSE
    OBVIOUS
  <2>1. PICK T \in Fails : \A s \in T : T \ {s} \notin Fails
    BY SmallestExists
  <2>2. PICK s \in T : f[T] # e[s].size + f[T \ {s}]
    OBVIOUS
  <2>3. T # {} /\ T \in SUBSET Source
    BY <2>2
  <2> DEFINE p == Pick(T)
  <2>4. p \in T /\ f[T] = e[p].size + f[T \ {p}] /\ p # s
    BY <1>2, <2>2, <2>3
  <2> HIDE DEF p
  <2>5. f[T \ {p}] = e[s].size + f[(T \ {p}) \ {s}]
    BY <2>1, <2>3, <2>4
  <2>6. f[T \ {s}] = e[p].size + f[(T \ {s}) \ {p}]
    BY <2>1, <2>3, <2>4
  <2>7. (T \ {p}) \ {s} = (T \ {s}) \ {p}
    OBVIOUS
  <2>8. f[(T \ {s}) \ {p}] \in Nat /\ e[s].size \in Nat /\ e[p].size \in Nat
    BY <1>3, <2>3, <2>4
  <2>9. \A x, y, z \in Nat : x + (y + z) = y + (x + z)
    OBVIOUS
  <2> DEFINE r == f[(T \ {s}) \ {p}]
  <2>11. e[p].size + (e[s].size + r) = e[s].size + (e[p].size + r)
    <3> HIDE DEF r
    <3>1. r \in Nat
      BY <2>8 DEF r
    <3> QED
      BY <2>8, <2>9, <3>1
  <2>10. e[p].size + f[T \ {p}] = e[s].size + f[T \ {s}]
    BY ZenonT(30), <2>5, <2>6, <2>7, <2>11
  <2> QED
    BY <2>2, <2>4, <2>10
<1> QED
  BY <1>1, <1>3, <1>4 DEF IsSum

LEMMA SizesAreSum ==
  ASSUME NEW e, \A s \in Source : e[s].size \in Nat
  PROVE  \E f : IsSum(f, e) /\ \A S \in SUBSET Source : SizeOf(e, S) = f[S]
<1>1. PICK f : Summing(f, e, SUBSET Source)
  BY SummingExists
<1>2. ASSUME NEW S \in SUBSET Source PROVE SizeOf(e, S) = f[S]
  <2> DEFINE g == CHOOSE h : Summing(h, e, SUBSET S)
  <2>1. SizeOf(e, S) = g[S]
    BY DEF SizeOf, FoldSet, MapThenFoldSet, Summing, Pick
  <2>2. Summing(g, e, SUBSET S)
    <3> DEFINE h == [T \in SUBSET S |-> f[T]]
    <3>1. Summing(h, e, SUBSET S)
      BY <1>1, SourcesAreFinite DEF Summing
    <3> HIDE DEF h
    <3> QED
      BY <3>1
  <2> HIDE DEF g
  <2> DEFINE Fails == {T \in SUBSET S : g[T] # f[T]}
  <2>3. Fails = {}
    <3> SUFFICES ASSUME Fails # {} PROVE FALSE
      OBVIOUS
    <3>1. PICK T \in Fails : \A s \in T : T \ {s} \notin Fails
      BY SmallestExists
    <3>2. g[T] = IF T = {} THEN 0 ELSE e[Pick(T)].size + g[T \ {Pick(T)}]
      BY <2>2 DEF Summing
    <3>3. f[T] = IF T = {} THEN 0 ELSE e[Pick(T)].size + f[T \ {Pick(T)}]
      BY <1>1 DEF Summing
    <3>4. T # {} => g[T \ {Pick(T)}] = f[T \ {Pick(T)}]
      BY <3>1, SourcesAreFinite
    <3> QED
      BY <3>2, <3>3, <3>4
  <2> QED
    BY <2>1, <2>3
<1> QED
  BY <1>1, <1>2, SummingIsSum

\* Two indexes that agree on a set of sources agree on its size.
LEMMA SumsAgree ==
  ASSUME NEW d, NEW e, NEW f, NEW g, IsSum(f, d), IsSum(g, e),
         NEW S \in SUBSET Source, \A s \in S : d[s].size = e[s].size
  PROVE  f[S] = g[S]
<1> DEFINE Fails == {T \in SUBSET S : f[T] # g[T]}
<1> SUFFICES ASSUME Fails # {} PROVE FALSE
  OBVIOUS
<1>1. PICK T \in Fails : \A s \in T : T \ {s} \notin Fails
  BY SmallestExists
<1>2. PICK s : s \in T
  BY DEF IsSum
<1>3. f[T \ {s}] = g[T \ {s}] /\ f[T] # g[T] /\ d[s].size = e[s].size
  BY <1>1, <1>2
<1>4. f[T] = d[s].size + f[T \ {s}] /\ g[T] = e[s].size + g[T \ {s}]
  BY <1>2 DEF IsSum
<1> QED
  BY <1>3, <1>4

\* Sources without an index count for nothing.
LEMMA EmptyOnesDoNotCount ==
  ASSUME NEW e, NEW f, IsSum(f, e), NEW S \in SUBSET Source,
         NEW E \in SUBSET S, \A s \in E : e[s].size = 0
  PROVE  f[S] = f[S \ E]
<1> DEFINE Fails == {D \in SUBSET E : f[S] # f[S \ D]}
<1> SUFFICES ASSUME Fails # {} PROVE FALSE
  OBVIOUS
<1>1. PICK D \in Fails : \A s \in D : D \ {s} \notin Fails
  BY SmallestExists
<1>2. PICK s : s \in D
  BY DEF IsSum
<1>3. f[S] = f[S \ (D \ {s})] /\ s \in S /\ s \in S \ (D \ {s})
  BY <1>1, <1>2
<1>4. (S \ (D \ {s})) \ {s} = S \ D
  BY <1>2
<1>5. f[S \ (D \ {s})] = e[s].size + f[S \ D] /\ e[s].size = 0 /\ f[S \ D] \in Nat
  BY <1>1, <1>2, <1>3, <1>4 DEF IsSum
<1> QED
  BY <1>1, <1>3, <1>5

\* Fewer sources have no more entries.
LEMMA SumGrows ==
  ASSUME NEW e, \A s \in Source : e[s].size \in Nat,
         NEW f, IsSum(f, e), NEW S \in SUBSET Source, NEW E \in SUBSET S
  PROVE  f[S \ E] <= f[S]
<1> DEFINE Fails == {D \in SUBSET E : ~ (f[S \ D] <= f[S])}
<1> SUFFICES ASSUME Fails # {} PROVE FALSE
  OBVIOUS
<1>0. Fails \in SUBSET (SUBSET Source)
  OBVIOUS
<1>1. PICK D \in Fails : \A s \in D : D \ {s} \notin Fails
  BY <1>0, SmallestExists
<1>2. PICK s : s \in D
  <2>1. D # {}
    <3>1. f[S] \in Nat /\ ~ (f[S \ D] <= f[S])
      BY DEF IsSum
    <3> SUFFICES ASSUME D = {} PROVE FALSE
      OBVIOUS
    <3>2. S \ D = S
      OBVIOUS
    <3>3. ~ (f[S] <= f[S])
      BY Zenon, <3>1, <3>2
    <3>4. f[S] <= f[S]
      BY <3>1
    <3> QED
      BY <3>3, <3>4
  <2> QED
    BY <2>1
<1>3. f[S \ (D \ {s})] <= f[S] /\ s \in S /\ s \in S \ (D \ {s})
  BY <1>1, <1>2
<1>4. (S \ (D \ {s})) \ {s} = S \ D
  BY <1>2
<1>5. f[S \ (D \ {s})] = e[s].size + f[S \ D] /\ e[s].size \in Nat
  BY <1>3, <1>4 DEF IsSum
<1>6. f[S] \in Nat /\ f[S \ D] \in Nat
  BY DEF IsSum
<1>7. ~ (f[S \ D] <= f[S])
  OBVIOUS
<1> HIDE DEF Fails
<1> QED
  BY <1>3, <1>5, <1>6, <1>7

LEMMA IndexSizes ==
  ASSUME IndexTypeOK
  PROVE  \A s \in Source : entries[s].size \in Nat
BY DEF IndexTypeOK, Index

\* Of what a commit evicts, enough goes for the new index to fit.
LEMMA CommitFits ==
  ASSUME IndexTypeOK, IndexTypeOK', NEW s \in Source, NEW size \in 1..Capacity, NEW v, NEW g,
         NEW E \in Evicted(s, size),
         entries' = [o \in Source |->
           IF o = s THEN [size |-> size, version |-> v, generation |-> g]
           ELSE IF o \in E THEN NoIndex ELSE entries[o]]
  PROVE  IndexWithinTotal'
<1> DEFINE rest == Source \ (E \cup {s})
<1>1. E \in SUBSET (Source \ {s}) /\ SizeOf(entries, rest) + size <= MaxTotal
  BY DEF Evicted, TotalSize, SizeOf
<1>2. PICK f : IsSum(f, entries) /\ \A S \in SUBSET Source : SizeOf(entries, S) = f[S]
  BY IndexSizes, SizesAreSum
<1>3. PICK h : IsSum(h, entries') /\ \A S \in SUBSET Source : SizeOf(entries', S) = h[S]
  <2>1. \A o \in Source : entries'[o].size \in Nat
    BY DEF IndexTypeOK, Index
  <2> QED
    BY <2>1, SizesAreSum
<1>4. /\ entries'[s].size = size
      /\ \A o \in E : entries'[o].size = 0
      /\ \A o \in rest : entries[o].size = entries'[o].size
  BY <1>1 DEF NoIndex
<1>5. h[Source] = size + h[Source \ {s}]
  BY <1>3, <1>4 DEF IsSum
<1>6. h[Source \ {s}] = h[(Source \ {s}) \ E]
  <2>1. IsSum(h, entries') /\ Source \ {s} \in SUBSET Source
        /\ E \in SUBSET (Source \ {s}) /\ \A o \in E : entries'[o].size = 0
    BY <1>1, <1>3, <1>4
  <2> HIDE DEF rest
  <2> QED
    BY <2>1, EmptyOnesDoNotCount
<1>7. (Source \ {s}) \ E = rest
  OBVIOUS
<1>8. f[rest] = h[rest]
  BY <1>2, <1>3, <1>4, SumsAgree
<1>9. f[rest] + size <= MaxTotal /\ f[rest] \in Nat
  BY <1>1, <1>2 DEF IsSum
<1>10. SizeOf(entries', Source) = h[Source] /\ h[Source] = size + f[rest] /\ size \in Nat
  <2>1. size \in Nat
    BY CapacityAssumption
  <2>2. SizeOf(entries', Source) = h[Source]
    BY <1>3
  <2>3. h[Source] = size + f[rest]
    <3> HIDE DEF rest
    <3> QED
      BY <1>5, <1>6, <1>7, <1>8
  <2> QED
    BY <2>1, <2>2, <2>3
<1>11. SizeOf(entries', Source) <= MaxTotal
  <2> HIDE DEF rest
  <2> QED
    BY <1>9, <1>10, CapacityAssumption
<1> QED
  BY <1>11 DEF IndexWithinTotal, TotalSize, SizeOf, FoldSet, MapThenFoldSet

\* Emptying indexes makes room.
LEMMA EmptyingFits ==
  ASSUME IndexTypeOK, IndexTypeOK', IndexWithinTotal,
         \A s \in Source : entries'[s] \in {entries[s], NoIndex}
  PROVE  IndexWithinTotal'
<1> DEFINE E == {s \in Source : entries'[s] # entries[s]}
           rest == Source \ E
<1>1. PICK f : IsSum(f, entries) /\ \A S \in SUBSET Source : SizeOf(entries, S) = f[S]
  BY IndexSizes, SizesAreSum
<1>2. PICK h : IsSum(h, entries') /\ \A S \in SUBSET Source : SizeOf(entries', S) = h[S]
  <2>1. \A o \in Source : entries'[o].size \in Nat
    BY DEF IndexTypeOK, Index
  <2> QED
    BY <2>1, SizesAreSum
<1>3. h[Source] = h[rest]
  <2>1. \A s \in E : entries'[s].size = 0
    BY DEF NoIndex
  <2>2. E \in SUBSET Source /\ IsSum(h, entries')
    BY <1>2
  <2> HIDE DEF E
  <2>3. h[Source] = h[Source \ E]
    BY <2>1, <2>2, EmptyOnesDoNotCount
  <2> QED
    BY <2>3
<1>4. h[rest] = f[rest]
  BY <1>1, <1>2, SumsAgree
<1>5. f[rest] <= f[Source]
  <2>1. E \in SUBSET Source
    OBVIOUS
  <2> HIDE DEF E
  <2> QED
    BY <1>1, <2>1, IndexSizes, SumGrows
<1>6. f[Source] <= MaxTotal /\ f[Source] \in Nat /\ f[rest] \in Nat
  BY <1>1 DEF IndexWithinTotal, TotalSize, SizeOf, IsSum
<1>7. SizeOf(entries', Source) = f[rest]
  BY <1>2, <1>3, <1>4
<1>8. SizeOf(entries', Source) <= MaxTotal
  <2> HIDE DEF rest
  <2> QED
    BY <1>5, <1>6, <1>7, CapacityAssumption
<1> QED
  BY <1>8 DEF IndexWithinTotal, TotalSize, SizeOf, FoldSet, MapThenFoldSet

LEMMA TotalNext ==
  IndexTypeOK /\ IndexTypeOK' /\ IndexWithinTotal /\ [IndexNext]_ivars => IndexWithinTotal'
<1> SUFFICES ASSUME IndexTypeOK, IndexTypeOK', IndexWithinTotal, [IndexNext]_ivars
             PROVE  IndexWithinTotal'
  OBVIOUS
<1>1. ASSUME UNCHANGED entries PROVE IndexWithinTotal'
  BY <1>1, EmptyingFits
<1>2. ASSUME NEW l \in registered, Commit(l) PROVE IndexWithinTotal'
  <2>1. l.source \in Source
    BY RegisteredTypes DEF IndexTypeOK
  <2>2. ASSUME NEW size \in 1..Capacity, NEW E \in Evicted(l.source, size),
               entries' = [o \in Source |->
                 IF o = l.source
                 THEN [size |-> size, version |-> read[l.query], generation |-> l.generation]
                 ELSE IF o \in E THEN NoIndex ELSE entries[o]]
        PROVE  IndexWithinTotal'
    BY <2>1, <2>2, CommitFits
  <2> QED
    BY <1>1, <1>2, <2>2 DEF Commit
<1>3. ASSUME NEW s \in Source, ClearConnection(s) \/ ClearForAttempt(s) PROVE IndexWithinTotal'
  <2>1. \A o \in Source : entries'[o] \in {entries[o], NoIndex}
    BY <1>3 DEF ClearConnection, ClearForAttempt, Empty, IndexTypeOK
  <2> QED
    BY <2>1, EmptyingFits
<1>4. CASE ClearAll
  <2>1. \A o \in Source : entries'[o] \in {entries[o], NoIndex}
    BY <1>4 DEF ClearAll
  <2> QED
    BY <2>1, EmptyingFits
<1>5. ASSUME NEW t \in QueryId, NEW s \in Source, NEW force \in BOOLEAN,
             StartMetadataIndexTask(t, s, force)
      PROVE  UNCHANGED entries
  BY <1>5 DEF StartMetadataIndexTask, indexVars
<1>6. ASSUME NEW t \in QueryId, TaskStarts(t) \/ FinishTask(t) PROVE UNCHANGED entries
  BY <1>6 DEF TaskStarts, FinishTask, indexVars
<1>7. ASSUME NEW l \in registered, WalkWaits(l) \/ Reserve(l) \/ Read(l) PROVE UNCHANGED entries
  BY <1>7 DEF WalkWaits, Reserve, Read, indexVars
<1>8. TaskCommand \/ UNCHANGED indexVars \/ UNCHANGED ivars => UNCHANGED entries
  BY DEF TaskCommand, indexVars, ivars
<1> QED
  BY <1>1, <1>2, <1>3, <1>4, <1>5, <1>6, <1>7, <1>8 DEF IndexNext, WalkStep

(* The indexes of all sources together keep within the total, whatever sizes  *)
(* are stored in which order: a commit evicts until its index fits           *)
(* (IndexWithinTotal of MetadataIndex.tla).                                 *)
THEOREM TotalCorrect == IndexSpec => []IndexWithinTotal
<1>1. IndexInit => IndexWithinTotal
  <2> SUFFICES ASSUME IndexInit PROVE IndexWithinTotal
    OBVIOUS
  <2>1. IndexTypeOK /\ \A s \in Source : entries[s].size = 0
    BY IndexTypeInit DEF IndexInit, NoIndex
  <2>2. PICK f : IsSum(f, entries) /\ \A S \in SUBSET Source : SizeOf(entries, S) = f[S]
    BY <2>1, IndexSizes, SizesAreSum
  <2>3. f[Source] = f[Source \ Source]
    <3>1. IsSum(f, entries) /\ Source \in SUBSET Source
      BY <2>2
    <3>2. \A s \in Source : entries[s].size = 0
      BY <2>1
    <3>3. \A E \in SUBSET Source : (\A s \in E : entries[s].size = 0) => f[Source] = f[Source \ E]
      BY <3>1, EmptyOnesDoNotCount
    <3> QED
      BY <3>1, <3>2, <3>3
  <2>4. Source \ Source = {} /\ f[{}] = 0
    BY <2>2 DEF IsSum
  <2>5. SizeOf(entries, Source) = 0
    BY <2>2, <2>3, <2>4
  <2>6. SizeOf(entries, Source) <= MaxTotal
    BY <2>5, CapacityAssumption
  <2> QED
    BY <2>6 DEF IndexWithinTotal, TotalSize, SizeOf
<1> QED
  BY <1>1, IndexTypeAlways, TotalNext, PTL DEF IndexSpec

=============================================================================
