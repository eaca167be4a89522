---------------------------- MODULE CsvPreviews ----------------------------
(***************************************************************************)
(* The CSV preview between the webview and the backend: the hook that starts, *)
(* cancels and clears previews (hooks/useCsvPreview.ts), the command that     *)
(* runs one under a scoped task (commands/export.rs) and the task table it    *)
(* registers in (services/task_manager.rs).                                  *)
(*                                                                         *)
(* Calls travel on their own: a cancellation may arrive before the preview    *)
(* it is for, or after it is over.  A preview is known by its number; the     *)
(* identifiers of the tasks are as unique.                                   *)
(***************************************************************************)
EXTENDS Naturals, FiniteSets

CONSTANTS
  MaxPreviews,         \* bound: previews started
  MaxPreviewCancels    \* bound: cancellations sent

ASSUME PreviewAssumption == {MaxPreviews, MaxPreviewCancels} \subseteq Nat

VARIABLES
  generation,          \* of the hook: counts starts and clears
  activePreview,       \* activeTaskId: the preview it waits for, 0 for none
  previewStatus,       \* what the panel shows of it
  shownPreview,        \* the preview displayed, 0 for none
  command,             \* each started preview: its generation, stage and outcome
  registeredPreviews,  \* scoped tasks in the table
  askedToStop,         \* scoped tasks whose flag is set
  cancels,             \* cancellations: the preview, how far, whether the hook awaits it
  gateBusy             \* another statement holds the connection

previewVars == <<generation, activePreview, previewStatus, shownPreview, command, registeredPreviews,
                 askedToStop, cancels, gateBusy>>
hookVars == <<generation, activePreview, previewStatus, shownPreview>>
tableVars == <<registeredPreviews, askedToStop>>

PreviewStage == {"sent", "waiting", "describing", "reading", "cleaning", "answered", "over"}
Outcome == {"none", "preview", "cancelled", "failed"}
Previews == DOMAIN command

----------------------------------------------------------------------------
\* The hook.

PreviewInit ==
  /\ generation = 0 /\ activePreview = 0 /\ previewStatus = "idle" /\ shownPreview = 0
  /\ command = <<>>
  /\ registeredPreviews = {} /\ askedToStop = {}
  /\ cancels = <<>>
  /\ gateBusy \in BOOLEAN

\* start: the preview before it is forgotten but not cancelled.
StartPreview ==
  /\ Cardinality(Previews) < MaxPreviews
  /\ generation' = generation + 1
  /\ LET p == Cardinality(Previews) + 1 IN
       /\ activePreview' = p
       /\ command' = [q \in 1..p |-> IF q = p
                        THEN [generation |-> generation', stage |-> "sent", outcome |-> "none"]
                        ELSE command[q]]
  /\ previewStatus' = "loading" /\ shownPreview' = 0
  /\ UNCHANGED <<tableVars, cancels, gateBusy>>

SendCancel(p, awaited) ==
  LET n == Cardinality(DOMAIN cancels) + 1 IN
    /\ n <= MaxPreviewCancels
    /\ cancels' = [c \in 1..n |-> IF c = n
                     THEN [preview |-> p, stage |-> "sent", awaited |-> awaited]
                     ELSE cancels[c]]

CancelPreview ==
  /\ activePreview # 0
  /\ previewStatus' = "cancelling"
  /\ SendCancel(activePreview, TRUE)
  /\ UNCHANGED <<generation, activePreview, shownPreview, command, tableVars, gateBusy>>

ClearPreview ==
  /\ generation <= MaxPreviews
  /\ generation' = generation + 1
  /\ activePreview' = 0 /\ shownPreview' = 0 /\ previewStatus' = "idle"
  /\ IF activePreview # 0 THEN SendCancel(activePreview, FALSE) ELSE UNCHANGED cancels
  /\ UNCHANGED <<command, tableVars, gateBusy>>

\* Mutant: an answer is taken whichever preview it is for.
ReceiveAny(p) ==
  /\ command[p].stage = "answered"
  /\ command' = [command EXCEPT ![p].stage = "over"]
  /\ activePreview' = 0 /\ previewStatus' = "idle"
  /\ shownPreview' = IF command[p].outcome = "preview" THEN p ELSE shownPreview
  /\ UNCHANGED <<generation, tableVars, cancels, gateBusy>>

\* The answer of a preview reaches the hook.
ReceivePreview(p) ==
  /\ command[p].stage = "answered"
  /\ command' = [command EXCEPT ![p].stage = "over"]
  /\ IF command[p].generation = generation
     THEN /\ activePreview' = 0 /\ previewStatus' = "idle"
          /\ shownPreview' = IF command[p].outcome = "preview" THEN p ELSE shownPreview
     ELSE UNCHANGED <<activePreview, previewStatus, shownPreview>>
  /\ UNCHANGED <<generation, tableVars, cancels, gateBusy>>

\* A refused cancellation lets its preview be cancelled again.
ReceiveCancel(c) ==
  /\ cancels[c].stage \in {"done", "refused"}
  /\ cancels' = [cancels EXCEPT ![c].stage = "over"]
  /\ previewStatus' = IF /\ cancels[c].stage = "refused" /\ cancels[c].awaited
                         /\ activePreview = cancels[c].preview
                      THEN "loading" ELSE previewStatus
  /\ UNCHANGED <<generation, activePreview, shownPreview, command, tableVars, gateBusy>>

----------------------------------------------------------------------------
\* The backend.

\* request_cancel of the task table.
CancelTask(c) ==
  /\ cancels[c].stage = "sent"
  /\ IF cancels[c].preview \in registeredPreviews
     THEN /\ askedToStop' = askedToStop \cup {cancels[c].preview}
          /\ cancels' = [cancels EXCEPT ![c].stage = "done"]
     ELSE /\ cancels' = [cancels EXCEPT ![c].stage = "refused"]
          /\ UNCHANGED askedToStop
  /\ UNCHANGED <<hookVars, command, registeredPreviews, gateBusy>>

Reach(p, stage) == command' = [command EXCEPT ![p].stage = stage]
Conclude(p, outcome) == command' = [command EXCEPT ![p].stage = "cleaning", ![p].outcome = outcome]

\* register_scoped_task, and the first look at the flag.
RegisterPreview(p) ==
  /\ command[p].stage = "sent"
  /\ registeredPreviews' = registeredPreviews \cup {p}
  /\ Reach(p, "waiting")
  /\ UNCHANGED <<hookVars, askedToStop, cancels, gateBusy>>

\* The flag is not watched while the preview waits for the connection, and is
\* looked at before the columns, before the file and every hundred rows of it.
Proceed(p, from, to) ==
  /\ command[p].stage = from
  /\ IF p \in askedToStop THEN Conclude(p, "cancelled") ELSE Reach(p, to)
  /\ UNCHANGED <<hookVars, tableVars, cancels, gateBusy>>

EnterConnection(p) == ~gateBusy /\ Proceed(p, "waiting", "describing")
Describe(p) == Proceed(p, "describing", "reading")

\* A file of less than a hundred rows is read to its end without a look.
ReadPreview(p) ==
  /\ command[p].stage = "reading"
  /\ \/ Conclude(p, "preview") \/ Conclude(p, "failed")
     \/ p \in askedToStop /\ Conclude(p, "cancelled")
  /\ UNCHANGED <<hookVars, tableVars, cancels, gateBusy>>

FailPreview(p) ==
  /\ command[p].stage \in {"waiting", "describing"}
  /\ Conclude(p, "failed")
  /\ UNCHANGED <<hookVars, tableVars, cancels, gateBusy>>

\* Mutant: a preview that failed keeps its task.
CleanUpUnlessFailed(p) ==
  /\ command[p].stage = "cleaning"
  /\ registeredPreviews' = IF command[p].outcome = "failed" THEN registeredPreviews
                            ELSE registeredPreviews \ {p}
  /\ askedToStop' = IF command[p].outcome = "failed" THEN askedToStop ELSE askedToStop \ {p}
  /\ Reach(p, "answered")
  /\ UNCHANGED <<hookVars, cancels, gateBusy>>

\* cleanup: the registration goes before the answer does.
CleanUpPreview(p) ==
  /\ command[p].stage = "cleaning"
  /\ registeredPreviews' = registeredPreviews \ {p} /\ askedToStop' = askedToStop \ {p}
  /\ Reach(p, "answered")
  /\ UNCHANGED <<hookVars, cancels, gateBusy>>

GateChanges ==
  /\ gateBusy' = ~gateBusy
  /\ UNCHANGED <<hookVars, command, tableVars, cancels>>

----------------------------------------------------------------------------
PreviewStep(p) ==
  \/ RegisterPreview(p) \/ EnterConnection(p) \/ Describe(p) \/ ReadPreview(p)
  \/ CleanUpPreview(p) \/ ReceivePreview(p)

CancelStep(c) == CancelTask(c) \/ ReceiveCancel(c)

PreviewNext ==
  \/ StartPreview \/ CancelPreview \/ ClearPreview
  \/ \E p \in Previews : PreviewStep(p) \/ FailPreview(p)
  \/ \E c \in DOMAIN cancels : CancelStep(c)
  \/ GateChanges

PreviewSpec == PreviewInit /\ [][PreviewNext]_previewVars

----------------------------------------------------------------------------
PreviewTypeOK ==
  /\ generation \in Nat /\ {activePreview, shownPreview} \subseteq 0..MaxPreviews
  /\ previewStatus \in {"idle", "loading", "cancelling"}
  /\ \A p \in Previews : command[p].stage \in PreviewStage /\ command[p].outcome \in Outcome
  /\ registeredPreviews \subseteq Previews /\ askedToStop \subseteq registeredPreviews

\* What the panel shows is what it waits for: it is busy exactly while the
\* preview it started last is unanswered, it displays only that preview and
\* never one that was cleared or superseded, and a cancellation that came too
\* early or too late leaves neither the panel nor the task table behind: only
\* commands that are still running are registered.
PreviewsAreCurrent ==
  /\ previewStatus = "idle" <=> activePreview = 0
  /\ activePreview # 0 =>
       /\ command[activePreview].generation = generation
       /\ command[activePreview].stage # "over"
  /\ shownPreview # 0 =>
       /\ command[shownPreview].generation = generation
       /\ command[shownPreview].outcome = "preview" /\ activePreview = 0
  /\ registeredPreviews =
       {p \in Previews : command[p].stage \in {"waiting", "describing", "reading", "cleaning"}}
=============================================================================
