--------------------------- MODULE MetadataIndex ---------------------------
(***************************************************************************)
(* The metadata index of services/metadata_index.rs and the tasks that     *)
(* commands/metadata.rs runs to build it.                                  *)
(*                                                                         *)
(* A walk reserves a generation of its source, reads the database without  *)
(* the lock and commits only if the generation is still its own.  Only     *)
(* whether it is matters, so `holder` is the walk that made the latest     *)
(* reservation of a source, or NoWalk when the generation has been         *)
(* advanced since.  A task and the one operation it begins have one name.  *)
(***************************************************************************)
EXTENDS MetadataOperations, FiniteSetsExt

CONSTANTS
  NoWalk,      \* nobody's reservation
  Capacity,    \* MAX_METADATA_INDEX_ENTRIES_PER_CONNECTION
  MaxTotal     \* MAX_METADATA_INDEX_ENTRIES_TOTAL

ASSUME WalkAssumption == NoWalk \notin QueryId
ASSUME CapacityAssumption == Capacity \in Nat \ {0} /\ MaxTotal \in Nat /\ Capacity <= MaxTotal

NoIndex == [size |-> 0, version |-> 0, generation |-> NoGeneration]

VARIABLES
  taskStatus, cancelRequested,   \* the task table
  entries,     \* the index of each source, or NoIndex
  holder,      \* who holds the source's present generation
  pc,          \* where each walk is
  forced,      \* walks that do not content themselves with an index already there
  read,        \* schema version of the first thing each walk has read
  result,      \* how the walk ended
  floor,       \* history: schema version when the index was last cleared
  late,        \* history: generations retired before a walk of theirs made its reservation
  committed    \* history: walks that have stored an index

Tasks == INSTANCE TaskManager WITH Task <- QueryId, status <- taskStatus

taskVars == <<taskStatus, cancelRequested>>
indexVars == <<entries, holder>>
walkVars == <<pc, forced, read, result>>
historyVars == <<floor, late, committed>>
ivars == <<vars, metadataVars, taskVars, indexVars, walkVars, historyVars>>

IndexInit ==
  /\ MetadataOperationsInit
  /\ Tasks!TaskInit
  /\ entries = [s \in Source |-> NoIndex]
  /\ holder = [s \in Source |-> NoWalk]
  /\ pc = [t \in QueryId |-> "idle"]
  /\ forced = {}
  /\ read = [t \in QueryId |-> 0]
  /\ result = [t \in QueryId |-> "none"]
  /\ floor = [s \in Source |-> 0]
  /\ late = {} /\ committed = {}

-----------------------------------------------------------------------------
(* A walk and its task.                                                    *)

Goto(t, label) == pc' = [pc EXCEPT ![t] = label]

EndsWith(t, outcome) ==
  /\ Goto(t, "finishing")
  /\ result' = [result EXCEPT ![t] = outcome]

\* Whatever the walk has collected goes with it.
EndWalk(t) ==
  /\ Goto(t, "idle")
  /\ forced' = forced \ {t}
  /\ read' = [read EXCEPT ![t] = 0]
  /\ result' = [result EXCEPT ![t] = "none"]

\* The lease is taken before the task is announced.
StartMetadataIndexTask(t, s, force) ==
  /\ pc[t] = "idle"
  /\ BeginMetadataOperation(s, t)
  /\ Tasks!CreateTask(t)
  /\ Goto(t, "created")
  /\ forced' = IF force THEN forced \cup {t} ELSE forced
  /\ committed' = committed \ {t}
  /\ UNCHANGED <<indexVars, read, result, floor, late>>

TaskStarts(t) ==
  /\ pc[t] = "created"
  /\ Tasks!StartTask(t)
  /\ Goto(t, "waiting")
  /\ UNCHANGED <<vars, metadataVars, indexVars, forced, read, result, historyVars>>

\* A cancellation is looked at before the lease.
WalkWaits(l) ==
  LET t == l.query IN
  /\ pc[t] = "waiting"
  /\ \/ /\ t \notin cancelRequested
        /\ Wait(l)
        /\ IF l \in waiting' THEN UNCHANGED <<pc, result>>
           ELSE IF l \in registered' THEN Goto(t, "reserving") /\ UNCHANGED result
           ELSE EndsWith(t, "error")
     \/ /\ t \in cancelRequested
        /\ AbandonWait(l)
        /\ EndsWith(t, "error")
  /\ UNCHANGED <<taskVars, indexVars, forced, read, historyVars>>

\* An index already there is enough, unless the walk is forced.
Reserve(l) ==
  LET t == l.query
      s == l.source IN
  /\ pc[t] = "reserving"
  /\ \/ /\ t \notin forced
        /\ entries[s] # NoIndex
        /\ EndMetadataOperation(l)
        /\ EndsWith(t, "ok")
        /\ UNCHANGED <<holder, late>>
     \/ /\ t \in forced \/ entries[s] = NoIndex
        /\ holder' = [holder EXCEPT ![s] = t]
        /\ late' = IF RegistryOpen(l) THEN late ELSE late \cup {l.generation}
        /\ Goto(t, "reading")
        /\ UNCHANGED <<vars, metadataVars, result>>
  /\ UNCHANGED <<taskVars, entries, forced, read, floor, committed>>

\* Many reads; the first is the oldest, and any may fail or find the task
\* cancelled.
Read(l) ==
  LET t == l.query IN
  /\ pc[t] = "reading"
  /\ \/ /\ t \notin cancelRequested
        /\ read' = [read EXCEPT ![t] = schema]
        /\ Goto(t, "committing")
        /\ UNCHANGED <<vars, metadataVars, result>>
     \/ /\ EndMetadataOperation(l)
        /\ EndsWith(t, "error")
        /\ UNCHANGED read
  /\ UNCHANGED <<taskVars, indexVars, forced, historyVars>>

TotalSize(S) == FoldSet(LAMBDA s, n : entries[s].size + n, 0, S)

\* Mutant: the entries about to be stored are not counted.
EvictedUncounted(s, size) ==
  LET fits(E) == TotalSize(Source \ (E \cup {s})) <= MaxTotal IN
  {E \in SUBSET {o \in Source \ {s} : entries[o] # NoIndex} :
     fits(E) /\ (E = {} \/ \E o \in E : ~fits(E \ {o}))}

\* Evicting others one by one, in no particular order, until the new index fits.
Evicted(s, size) ==
  LET fits(E) == TotalSize(Source \ (E \cup {s})) + size <= MaxTotal IN
  {E \in SUBSET {o \in Source \ {s} : entries[o] # NoIndex} :
     fits(E) /\ (E = {} \/ \E o \in E : ~fits(E \ {o}))}

Commit(l) ==
  LET t == l.query
      s == l.source
      mine == holder[s] = t /\ t \notin cancelRequested IN
  /\ pc[t] = "committing"
  /\ \/ /\ mine
        /\ \E size \in 1..Capacity : \E E \in Evicted(s, size) :
             entries' = [o \in Source |->
               IF o = s THEN [size |-> size, version |-> read[t], generation |-> l.generation]
               ELSE IF o \in E THEN NoIndex ELSE entries[o]]
        /\ committed' = committed \cup {t}
        /\ EndsWith(t, "ok")
     \/ /\ ~mine
        /\ EndsWith(t, "error")
        /\ UNCHANGED <<entries, committed>>
  /\ EndMetadataOperation(l)
  /\ UNCHANGED <<taskVars, holder, forced, read, floor, late>>

\* Mutant: a cancellation that came too late is reported as if it had worked.
FinishTaskCancelledFirst(t) ==
  /\ pc[t] = "finishing"
  /\ Tasks!Finish(t, IF t \in cancelRequested THEN "cancelled"
                     ELSE IF result[t] = "ok" THEN "succeeded" ELSE "failed")
  /\ EndWalk(t)
  /\ UNCHANGED <<vars, metadataVars, indexVars, historyVars>>

FinishTask(t) ==
  /\ pc[t] = "finishing"
  /\ Tasks!Finish(t, IF result[t] = "ok" THEN "succeeded"
                     ELSE IF t \in cancelRequested THEN "cancelled" ELSE "failed")
  /\ EndWalk(t)
  /\ UNCHANGED <<vars, metadataVars, indexVars, historyVars>>

-----------------------------------------------------------------------------
(* What happens around the walks.                                          *)

\* Mutant: the entries go, the reservation stays.
EmptyKeepingReservation(s) ==
  /\ entries' = [entries EXCEPT ![s] = NoIndex]
  /\ floor' = [floor EXCEPT ![s] = schema]
  /\ UNCHANGED <<holder, late, committed>>

Empty(s) ==
  /\ entries' = [entries EXCEPT ![s] = NoIndex]
  /\ holder' = [holder EXCEPT ![s] = NoWalk]
  /\ floor' = [floor EXCEPT ![s] = schema]
  /\ UNCHANGED <<late, committed>>

\* By command, or after a disconnect, an edit, a deletion or a DDL statement.
ClearConnection(s) ==
  /\ Empty(s)
  /\ UNCHANGED <<vars, metadataVars, taskVars, walkVars>>

ClearAll ==
  /\ entries' = [s \in Source |-> NoIndex]
  /\ holder' = [s \in Source |-> NoWalk]
  /\ floor' = [s \in Source |-> schema]
  /\ UNCHANGED <<vars, metadataVars, taskVars, walkVars, late, committed>>

ClearForAttempt(s) ==
  /\ s \in pending \ emptied
  /\ Empty(s)
  /\ emptied' = emptied \cup {s}
  /\ UNCHANGED <<vars, schema, waiting, taskVars, walkVars>>

TaskCommand ==
  /\ (\E t \in QueryId : Tasks!RequestCancel(t)) \/ Tasks!ClearCompletedTasks
  /\ UNCHANGED <<vars, metadataVars, indexVars, walkVars, historyVars>>

WalkStep(t) ==
  \/ TaskStarts(t)
  \/ FinishTask(t)
  \/ \E l \in registered : l.query = t /\ (WalkWaits(l) \/ Reserve(l) \/ Read(l) \/ Commit(l))

IndexNext ==
  \/ \E t \in QueryId, s \in Source, force \in BOOLEAN : StartMetadataIndexTask(t, s, force)
  \/ \E t \in QueryId : WalkStep(t)
  \/ \E s \in Source : ClearConnection(s) \/ ClearForAttempt(s)
  \/ ClearAll
  \/ TaskCommand
  \/ SurroundingStep /\ UNCHANGED <<taskVars, indexVars, walkVars, historyVars>>

IndexSpec == IndexInit /\ [][IndexNext]_ivars

\* The runtime runs a task that can run, reads return, and the serial gate
\* serves its waiters in order.
FairIndexSpec == IndexSpec /\ \A t \in QueryId : SF_ivars(WalkStep(t))

-----------------------------------------------------------------------------
(* Properties.                                                             *)

(* Clearing is a barrier: no index read before a clear is found after it,   *)
(* whichever walk was on its way then.                                      *)
ClearingIsBarrier ==
  /\ \A s \in Source : entries[s] # NoIndex => entries[s].version >= floor[s]
  /\ \A l \in registered :
       (pc[l.query] = "committing" /\ holder[l.source] = l.query) => read[l.query] >= floor[l.source]

(* The index of a live source describes what its present connection        *)
(* reached, unless a walk whose connection had been retired under it made  *)
(* its reservation afterwards.                                             *)
IndexOfPresentConnection ==
  \A s \in LiveSources :
    entries[s] # NoIndex
      => entries[s].generation = live[s] \/ entries[s].generation \in late

(* The indexes of all sources together keep within the total.              *)
IndexWithinTotal == TotalSize(Source) <= MaxTotal

(* A task that is shown as cancelled or failed has not replaced the index. *)
CancelledLeavesNothing ==
  \A t \in QueryId : taskStatus[t] \in {"cancelled", "failed"} => t \notin committed

(* A cancelled task leaves no index, and an index is of the present          *)
(* connection of its source.                                               *)
IndexSafety == CancelledLeavesNothing /\ IndexOfPresentConnection

(* The tasks keep what TaskLifecycle promises, although finish itself       *)
(* would overwrite any status: each ends once, and an accepted cancellation *)
(* is not undone by the start of the task.                                  *)
Lifecycle == INSTANCE TaskLifecycle WITH Task <- QueryId, status <- taskStatus
KeepsLifecycle == Lifecycle!LifecycleSpec

(* Every task ends, whatever is retired, cleared or cancelled meanwhile.   *)
EveryTaskEnds ==
  \A t \in QueryId : taskStatus[t] \in {"pending", "running", "cancelling"}
                       ~> taskStatus[t] \in {"none", "cancelled", "succeeded", "failed"}
=============================================================================
