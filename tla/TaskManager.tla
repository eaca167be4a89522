---------------------------- MODULE TaskManager ----------------------------
(***************************************************************************)
(* The task table of services/task_manager.rs.  Each method is one action  *)
(* under the table's lock.  finish writes whatever status it is given: that *)
(* a task ends once is up to those who run tasks.                          *)
(***************************************************************************)
EXTENDS Integers, FiniteSets

CONSTANT Task

VARIABLES
  status,           \* status of each task in the table, "none" if it is not there
  cancelRequested   \* tasks whose cancel flag is set

taskVars == <<status, cancelRequested>>

TaskStatus == {"none", "pending", "running", "cancelling", "cancelled", "succeeded", "failed"}

TaskInit ==
  /\ status = [t \in Task |-> "none"]
  /\ cancelRequested = {}

CreateTask(t) ==
  /\ status[t] = "none"
  /\ status' = [status EXCEPT ![t] = "pending"]
  /\ cancelRequested' = cancelRequested \ {t}

\* Mutant: the task runs whatever has become of it.
StartTaskAnyway(t) ==
  /\ status[t] # "none"
  /\ status' = [status EXCEPT ![t] = "running"]
  /\ UNCHANGED cancelRequested

\* A task that was cancelled before it could start stays cancelling.
StartTask(t) ==
  /\ status' = IF status[t] = "pending" THEN [status EXCEPT ![t] = "running"] ELSE status
  /\ UNCHANGED cancelRequested

\* The flag is set even when the task has ended.
RequestCancel(t) ==
  /\ status[t] # "none"
  /\ cancelRequested' = cancelRequested \cup {t}
  /\ status' = IF status[t] \in {"pending", "running"}
                 THEN [status EXCEPT ![t] = "cancelling"] ELSE status

ClearCompletedTasks ==
  /\ \E t \in Task : status[t] \in {"cancelled", "succeeded", "failed"}
  /\ status' = [t \in Task |-> IF status[t] \in {"cancelled", "succeeded", "failed"}
                               THEN "none" ELSE status[t]]
  /\ UNCHANGED cancelRequested

Finish(t, outcome) ==
  /\ status' = IF status[t] = "none" THEN status ELSE [status EXCEPT ![t] = outcome]
  /\ UNCHANGED cancelRequested
=============================================================================
