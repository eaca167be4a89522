--------------------------- MODULE TaskLifecycle ---------------------------
(***************************************************************************)
(* What a background task promises to whoever watches the task list: it is *)
(* announced, may run, ends once, and from then on keeps its outcome until *)
(* it is cleared away.  A cancellation that was accepted is not forgotten. *)
(***************************************************************************)
CONSTANT Task

VARIABLE status

Ended == {"cancelled", "succeeded", "failed"}
Unended == {"pending", "running", "cancelling"}

\* What a status may become.
Successors(st) ==
  CASE st = "none"       -> {"pending"}
    [] st = "pending"    -> {"running", "cancelling"} \cup Ended
    [] st = "running"    -> {"cancelling"} \cup Ended
    [] st = "cancelling" -> Ended
    [] OTHER             -> {"none"}

LifecycleInit == status = [t \in Task |-> "none"]

Advance(t, st) == st \in Successors(status[t]) /\ status' = [status EXCEPT ![t] = st]

ClearEnded ==
  status' = [t \in Task |-> IF status[t] \in Ended THEN "none" ELSE status[t]]

LifecycleNext ==
  \/ \E t \in Task : \E st \in Unended \cup Ended : Advance(t, st)
  \/ ClearEnded

LifecycleSpec == LifecycleInit /\ [][LifecycleNext]_status
=============================================================================
