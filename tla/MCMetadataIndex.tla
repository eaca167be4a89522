-------------------------- MODULE MCMetadataIndex --------------------------
(* Finite instances of MetadataIndex: two tasks that walk the serial source,  *)
(* one task that walks two sources, or one that walks the serial source while *)
(* the schema changes.  A behaviour moves one of the three instances, its     *)
(* focus.  No symmetry: the run checks a liveness property.                   *)
EXTENDS MetadataIndex

VARIABLE focus

tasksVars == <<focus, ivars>>

\* The bounds of each focus.
OneTask == \A t \in QueryId \ {CHOOSE u \in QueryId : TRUE} : pc'[t] = "idle"
SerialOnly ==
  \A s \in Source \ SerialSource : s \notin pending' /\ status'[s] = status[s] /\ floor'[s] = 0

InFocus ==
  \/ focus = "walks" /\ nextGeneration' <= 2 /\ schema' = 1 /\ SerialOnly
  \/ focus = "sources" /\ schema' = 1 /\ OneTask /\ cancelRequested' = {}
  \/ focus = "schemas" /\ SerialOnly /\ OneTask

TasksInit == IndexInit /\ focus \in {"walks", "sources", "schemas"}
TasksNext == IndexNext /\ InFocus /\ UNCHANGED focus
TasksSpec ==
  TasksInit /\ [][TasksNext]_tasksVars /\ \A t \in QueryId : SF_tasksVars(WalkStep(t) /\ UNCHANGED focus)
=============================================================================
