----------------------------- MODULE Lifecycle -----------------------------
(***************************************************************************)
(* Closing the application: the bridge of commands/lifecycle.rs that hands  *)
(* close requests of the window and the menu to the frontend, the          *)
(* coordinator that runs the cleanup once for all who ask for it, and the  *)
(* idle worker of lib.rs that the cleanup stops.                           *)
(*                                                                         *)
(* The page in the webview listens, asks the user, and answers; it may be    *)
(* loaded again at any time.                                               *)
(***************************************************************************)
EXTENDS Integers, FiniteSets

CONSTANTS
  Caller,          \* calls of shutdown_application
  MaxRequests      \* bound: close requests

ASSUME RequestsAssumption == MaxRequests \in Nat

VARIABLES
  listenerReady, closePending, closeInFlight,   \* CloseRequestBridge
  pageListens,     \* the page has registered its handler
  readyDue,        \* it has called listener_ready, which has not arrived
  closeEvents,     \* whether an event is on its way to the page
  closeDialog,     \* of the page: "closed", "open", "answered"
  closeRequests,   \* close requests so far
  closeWanted,     \* history: a request was taken and not answered yet
  closeLost,       \* history: a page was loaded again and forgot a request
  shutdownState,   \* ShutdownState
  callerStage,
  cleanupStep,     \* where the owner's cleanup is
  cleanups,        \* history: cleanups that have succeeded
  idleTask,        \* the idle worker's task
  idleStopped      \* its token is cancelled

pageVars == <<pageListens, closeEvents, closeDialog, closeLost>>
bridgeVars == <<listenerReady, closePending, closeInFlight, pageVars, readyDue, closeRequests,
                closeWanted>>
shutdownVars == <<shutdownState, callerStage, cleanupStep, cleanups>>
workerVars == <<idleTask, idleStopped>>
lifecycleVars == <<bridgeVars, shutdownVars, workerVars>>

LifecycleInit ==
  /\ listenerReady = FALSE /\ closePending = FALSE /\ closeInFlight = FALSE
  /\ pageListens = FALSE /\ readyDue = FALSE /\ closeEvents = FALSE
  /\ closeDialog = "closed" /\ closeLost = FALSE
  /\ closeRequests = 0 /\ closeWanted = FALSE
  /\ shutdownState = "idle"
  /\ callerStage = [c \in Caller |-> "outside"]
  /\ cleanupStep = "none" /\ cleanups = 0
  /\ idleTask = "absent" /\ idleStopped = FALSE

-----------------------------------------------------------------------------
(* Close requests.                                                         *)

\* Emitting the event reaches a page that listens; a failure takes it back.
Emit ==
  \/ /\ closeInFlight' = TRUE /\ closeWanted' = TRUE
     /\ IF pageListens THEN closeEvents' = TRUE /\ UNCHANGED closeLost
                       ELSE closeLost' = TRUE /\ UNCHANGED closeEvents
  \/ /\ closeInFlight' = FALSE /\ closeWanted' = FALSE
     /\ UNCHANGED <<closeEvents, closeLost>>

NothingEmitted == UNCHANGED <<closeInFlight, closeWanted, closeEvents, closeLost>>

RequestClose ==
  /\ closeRequests < MaxRequests
  /\ closeRequests' = closeRequests + 1
  /\ IF closeInFlight THEN NothingEmitted /\ UNCHANGED closePending
     ELSE IF listenerReady THEN Emit /\ UNCHANGED closePending
     ELSE /\ closePending' = TRUE /\ closeWanted' = TRUE
          /\ UNCHANGED <<closeInFlight, closeEvents, closeLost>>
  /\ UNCHANGED <<listenerReady, pageListens, readyDue, closeDialog, shutdownVars, workerVars>>

\* The page registers its handler and says so.
Listen ==
  /\ ~pageListens
  /\ pageListens' = TRUE /\ readyDue' = TRUE
  /\ UNCHANGED <<listenerReady, closePending, closeInFlight, closeEvents, closeDialog, closeLost,
                 closeRequests, closeWanted, shutdownVars, workerVars>>

\* Mutant: a request made before the listener is there is not replayed.
ListenerReadyOnly ==
  /\ readyDue
  /\ readyDue' = FALSE /\ listenerReady' = TRUE
  /\ NothingEmitted
  /\ UNCHANGED <<closePending, pageListens, closeDialog, closeRequests, shutdownVars, workerVars>>

\* What was pending is emitted when the page says that it listens.
ListenerReady ==
  /\ readyDue
  /\ readyDue' = FALSE /\ listenerReady' = TRUE
  /\ IF closePending /\ ~closeInFlight THEN closePending' = FALSE /\ Emit
     ELSE NothingEmitted /\ UNCHANGED closePending
  /\ UNCHANGED <<pageListens, closeDialog, closeRequests, shutdownVars, workerVars>>

\* The page asks the user once, however many events arrive.
OpenDialog ==
  /\ closeEvents /\ pageListens
  /\ closeEvents' = FALSE /\ closeDialog' = "open"
  /\ UNCHANGED <<listenerReady, closePending, closeInFlight, pageListens, readyDue, closeLost,
                 closeRequests, closeWanted, shutdownVars, workerVars>>

\* The user declines, or the shutdown that was begun has returned an error.
AnswerDialog ==
  /\ closeDialog = "open"
  /\ closeDialog' = "answered" /\ closeWanted' = FALSE
  /\ UNCHANGED <<listenerReady, closePending, closeInFlight, pageListens, readyDue, closeEvents,
                 closeLost, closeRequests, shutdownVars, workerVars>>

FinishRequest ==
  /\ closeDialog = "answered"
  /\ closeDialog' = "closed" /\ closeInFlight' = FALSE
  /\ UNCHANGED <<listenerReady, closePending, pageListens, readyDue, closeEvents, closeLost,
                 closeRequests, closeWanted, shutdownVars, workerVars>>

\* The page is loaded again: its handler, its dialog and what it was to answer
\* are gone, and the bridge is not told.
Reload ==
  /\ pageListens
  /\ pageListens' = FALSE /\ closeEvents' = FALSE /\ closeDialog' = "closed"
  /\ closeLost' = (closeLost \/ closeEvents \/ closeDialog # "closed")
  /\ UNCHANGED <<listenerReady, closePending, closeInFlight, readyDue, closeRequests, closeWanted,
                 shutdownVars, workerVars>>

-----------------------------------------------------------------------------
(* run_once.                                                               *)

Exited == cleanupStep = "exited"

\* A call becomes the owner of the cleanup, waits for it, or finds it done.  Who
\* waits has its wakeup from the moment it looked, under the lock.
EnterShutdown(c) ==
  /\ callerStage[c] \in {"outside", "woken"}
  /\ CASE shutdownState = "completed" ->
            /\ callerStage' = [callerStage EXCEPT ![c] = "returned"]
            /\ UNCHANGED <<shutdownState, cleanupStep>>
       [] shutdownState = "running" ->
            /\ callerStage' = [callerStage EXCEPT ![c] = "waiting"]
            /\ UNCHANGED <<shutdownState, cleanupStep>>
       [] shutdownState = "idle" ->
            /\ callerStage' = [callerStage EXCEPT ![c] = "owner"]
            /\ shutdownState' = "running"
            /\ cleanupStep' = "stopping"
  /\ UNCHANGED <<bridgeVars, workerVars, cleanups>>

\* The worker's token is cancelled and its task joined.
StopIdleWorker ==
  /\ cleanupStep = "stopping"
  /\ idleStopped' = TRUE
  /\ IF idleTask \in {"absent", "ended"} /\ idleStopped
       THEN cleanupStep' = "closing" ELSE UNCHANGED cleanupStep
  /\ UNCHANGED <<bridgeVars, shutdownState, callerStage, cleanups, idleTask>>

\* Sessions are shut down and the metadata index cleared; then the application
\* is told to exit.  A cleanup may also fail.
CleanUp ==
  /\ cleanupStep = "closing"
  /\ \/ cleanupStep' = "exited" /\ cleanups' = cleanups + 1
     \/ cleanupStep' = "failed" /\ UNCHANGED cleanups
  /\ UNCHANGED <<bridgeVars, shutdownState, callerStage, workerVars>>

\* The owner publishes the outcome and wakes everybody.
LeaveShutdown(c) ==
  /\ callerStage[c] = "owner" /\ cleanupStep \in {"exited", "failed"}
  /\ shutdownState' = IF Exited THEN "completed" ELSE "idle"
  /\ cleanupStep' = IF Exited THEN "exited" ELSE "none"
  /\ callerStage' = [d \in Caller |-> IF d = c THEN "returned"
                                      ELSE IF callerStage[d] = "waiting" THEN "woken"
                                      ELSE callerStage[d]]
  /\ UNCHANGED <<bridgeVars, workerVars, cleanups>>

-----------------------------------------------------------------------------
(* The idle worker.                                                        *)

\* Mutant: the token is not looked at before the task is spawned.
StartIdleWorkerAnyway ==
  /\ idleTask \in {"absent", "ended"}
  /\ idleTask' = "ticking"
  /\ UNCHANGED <<bridgeVars, shutdownVars, idleStopped>>

\* From the application's setup, which may come after a first shutdown.
StartIdleWorker ==
  /\ idleTask = "absent" /\ ~idleStopped
  /\ idleTask' = "ticking"
  /\ UNCHANGED <<bridgeVars, shutdownVars, idleStopped>>

BeginTick ==
  /\ idleTask = "ticking" /\ ~idleStopped
  /\ idleTask' = "reclaiming"
  /\ UNCHANGED <<bridgeVars, shutdownVars, idleStopped>>

\* A tick that has begun runs to its end, whatever the token says meanwhile.  It
\* waits for the gate of the reclaim, which a command holds while it pings.
ReclaimIdleSessions ==
  /\ idleTask = "reclaiming"
  /\ idleTask' = "ticking"
  /\ UNCHANGED <<bridgeVars, shutdownVars, idleStopped>>

EndIdleWorker ==
  /\ idleTask = "ticking" /\ idleStopped
  /\ idleTask' = "ended"
  /\ UNCHANGED <<bridgeVars, shutdownVars, idleStopped>>

LifecycleStep ==
  \/ RequestClose \/ Listen \/ ListenerReady \/ OpenDialog \/ AnswerDialog \/ FinishRequest \/ Reload
  \/ \E c \in Caller : EnterShutdown(c) \/ LeaveShutdown(c)
  \/ StopIdleWorker \/ CleanUp
  \/ StartIdleWorker \/ BeginTick \/ ReclaimIdleSessions \/ EndIdleWorker

\* The runtime polls tasks that can run, and a page that has an event handles it.
\* Nothing is assumed of the user, of the loading of pages, of a reclaim or of the
\* closing of sessions, all of which may take any time.
LifecycleFairness ==
  /\ WF_lifecycleVars(OpenDialog)
  /\ WF_lifecycleVars(StopIdleWorker) /\ WF_lifecycleVars(EndIdleWorker)
  /\ \A c \in Caller : /\ WF_lifecycleVars(LeaveShutdown(c))
                       /\ WF_lifecycleVars(callerStage[c] = "woken" /\ EnterShutdown(c))

ClosingSpec == LifecycleInit /\ [][LifecycleStep]_lifecycleVars /\ LifecycleFairness

-----------------------------------------------------------------------------
(* Properties.                                                             *)

ClosingTypeOK ==
  /\ listenerReady \in BOOLEAN /\ closePending \in BOOLEAN /\ closeInFlight \in BOOLEAN
  /\ pageListens \in BOOLEAN /\ readyDue \in BOOLEAN /\ closeEvents \in BOOLEAN
  /\ closeLost \in BOOLEAN /\ closeWanted \in BOOLEAN /\ idleStopped \in BOOLEAN
  /\ closeDialog \in {"closed", "open", "answered"}
  /\ closeRequests \in 0..MaxRequests
  /\ shutdownState \in {"idle", "running", "completed"}
  /\ callerStage \in [Caller -> {"outside", "owner", "waiting", "woken", "returned"}]
  /\ cleanupStep \in {"none", "stopping", "closing", "exited", "failed"}
  /\ cleanups \in 0..1
  /\ idleTask \in {"absent", "ticking", "reclaiming", "ended"}

\* The owner waits for a reclaim that is under way, or for the sessions to close.
CleanupWaits ==
  cleanupStep = "closing" \/ (cleanupStep = "stopping" /\ idleTask = "reclaiming")

(* A close request is put to the user, also one that was made before the     *)
(* page listened, unless a page that was loaded again has forgotten one; and *)
(* whoever asks for the shutdown gets an answer, whether it cleans up itself, *)
(* waits for another's cleanup or sees that fail, as long as the cleanup is  *)
(* not kept waiting for ever.                                              *)
EveryCloserIsAnswered ==
  /\ (closeWanted /\ listenerReady) ~> (closeDialog # "closed" \/ ~closeWanted \/ closeLost)
  /\ []<>~CleanupWaits =>
       \A c \in Caller : (callerStage[c] # "outside") ~> (callerStage[c] = "returned")

(* The sessions are cleaned up once, by one owner, and never beside an idle  *)
(* reclaim: its last tick is over, and none starts later.                   *)
CleanupIsAlone ==
  /\ Cardinality({c \in Caller : callerStage[c] = "owner"}) =
       (IF shutdownState = "running" THEN 1 ELSE 0)
  /\ cleanupStep \in {"closing", "exited"} => idleTask \notin {"ticking", "reclaiming"}
  /\ cleanups > 0 => cleanupStep = "exited"
=============================================================================
