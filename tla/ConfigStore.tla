---------------------------- MODULE ConfigStore ----------------------------
(***************************************************************************)
(* The saved datasource passwords of the configuration store, on macOS:     *)
(* config.db keeps an opaque reference, the Keychain keeps the secret, and  *)
(* nothing commits to both at once.  Deleting a connection queues its       *)
(* reference in the same transaction; a second transaction removes the      *)
(* secret and the queue entry, now, at the next launch or when the user     *)
(* asks.  The process may die between any two steps.                        *)
(*                                                                         *)
(* One process: create_connection runs beside the others, update and       *)
(* delete hold the manager's lock, retries run on blocking threads.  The    *)
(* write lock of SQLite admits one immediate transaction at a time.         *)
(***************************************************************************)
EXTENDS FiniteSets

CONSTANTS
  Record,          \* ids of saved connections
  Secret,          \* Keychain accounts; every save mints a new one
  NoSecret

ASSUME NoSecretAssumption == NoSecret \notin Secret

VARIABLES
  recordState,     \* "unborn", "present", "deleted"
  savedSecret,     \* connections.password_encrypted
  cleanupQueue,    \* connection_credential_cleanup: the reference, or NoSecret
  cleanupResult,   \* connection_credential_cleanup_results
  keychain,        \* the secrets the Keychain holds
  minted,          \* accounts used so far
  createJob,       \* create_connection between its writes
  editJob,         \* update_connection or delete_connection between its writes
  startupRetry,    \* ids the retry of this launch still has to visit
  cleanupTx,       \* the open cleanup transaction, or NoTx
  entrusted        \* history: the secret a deleted connection had

storeVars == <<recordState, savedSecret, cleanupQueue, cleanupResult, keychain, minted,
               createJob, editJob, startupRetry, cleanupTx, entrusted>>

Idle == [step |-> "idle"]
NoTx == [step |-> "none"]
Present == {c \in Record : recordState[c] = "present"}

StoreInit ==
  /\ recordState = [c \in Record |-> "unborn"]
  /\ savedSecret = [c \in Record |-> NoSecret]
  /\ cleanupQueue = [c \in Record |-> NoSecret]
  /\ cleanupResult = [c \in Record |-> "none"]
  /\ keychain = {} /\ minted = {}
  /\ createJob = Idle /\ editJob = Idle
  /\ startupRetry = {} /\ cleanupTx = NoTx
  /\ entrusted = [c \in Record |-> NoSecret]

\* A new Keychain item, or no password to save.
Mint(s) ==
  \/ s = NoSecret /\ UNCHANGED <<keychain, minted>>
  \/ s \in Secret \ minted /\ keychain' = keychain \cup {s} /\ minted' = minted \cup {s}

-----------------------------------------------------------------------------
(* Creating and updating.  A job that fails keeps what it already wrote.    *)

CreateStores(c, s) ==
  /\ createJob = Idle /\ recordState[c] = "unborn"
  /\ Mint(s)
  /\ createJob' = [step |-> "stored", record |-> c, new |-> s]
  /\ UNCHANGED <<recordState, savedSecret, cleanupQueue, cleanupResult, editJob,
                 startupRetry, cleanupTx, entrusted>>

CreateInserts ==
  /\ createJob # Idle /\ cleanupTx = NoTx
  /\ recordState' = [recordState EXCEPT ![createJob.record] = "present"]
  /\ savedSecret' = [savedSecret EXCEPT ![createJob.record] = createJob.new]
  /\ createJob' = Idle
  /\ UNCHANGED <<cleanupQueue, cleanupResult, keychain, minted, editJob, startupRetry,
                 cleanupTx, entrusted>>

CreateFails ==
  /\ createJob # Idle
  /\ createJob' = Idle
  /\ UNCHANGED <<recordState, savedSecret, cleanupQueue, cleanupResult, keychain, minted,
                 editJob, startupRetry, cleanupTx, entrusted>>

\* Mutant: the old item is removed as soon as the new one is stored.
UpdateStoresRemoving(c, s) ==
  /\ editJob = Idle /\ c \in Present
  /\ \/ s = savedSecret[c] /\ UNCHANGED <<keychain, minted>>
     \/ /\ s \in Secret \ minted
        /\ keychain' = (keychain \ {savedSecret[c]}) \cup {s} /\ minted' = minted \cup {s}
  /\ editJob' = [step |-> "stored", record |-> c, old |-> savedSecret[c], new |-> s]
  /\ UNCHANGED <<recordState, savedSecret, cleanupQueue, cleanupResult, createJob,
                 startupRetry, cleanupTx, entrusted>>

\* Keeping the saved password, replacing it, or no longer saving one.
UpdateStores(c, s) ==
  /\ editJob = Idle /\ c \in Present
  /\ \/ s = savedSecret[c] /\ UNCHANGED <<keychain, minted>>
     \/ Mint(s)
  /\ editJob' = [step |-> "stored", record |-> c, old |-> savedSecret[c], new |-> s]
  /\ UNCHANGED <<recordState, savedSecret, cleanupQueue, cleanupResult, createJob,
                 startupRetry, cleanupTx, entrusted>>

UpdateWrites ==
  /\ editJob.step = "stored" /\ cleanupTx = NoTx
  /\ savedSecret' = [savedSecret EXCEPT ![editJob.record] = editJob.new]
  /\ editJob' = IF editJob.old \in {editJob.new, NoSecret} THEN Idle
                ELSE [editJob EXCEPT !.step = "written"]
  /\ UNCHANGED <<recordState, cleanupQueue, cleanupResult, keychain, minted, createJob,
                 startupRetry, cleanupTx, entrusted>>

\* The item that was replaced; an item that cannot be removed is left behind.
UpdateRemovesOld ==
  /\ editJob.step = "written"
  /\ keychain' \in {keychain, keychain \ {editJob.old}}
  /\ editJob' = Idle
  /\ UNCHANGED <<recordState, savedSecret, cleanupQueue, cleanupResult, minted, createJob,
                 startupRetry, cleanupTx, entrusted>>

UpdateFails ==
  /\ editJob.step = "stored"
  /\ editJob' = Idle
  /\ UNCHANGED <<recordState, savedSecret, cleanupQueue, cleanupResult, keychain, minted,
                 createJob, startupRetry, cleanupTx, entrusted>>

-----------------------------------------------------------------------------
(* Deleting: one transaction for the row and the queue, one for the secret. *)

DeleteCommits(c) ==
  /\ editJob = Idle /\ cleanupTx = NoTx /\ recordState[c] # "unborn"
  /\ cleanupQueue' = [cleanupQueue EXCEPT ![c] =
       IF c \in Present /\ @ = NoSecret THEN savedSecret[c] ELSE @]
  /\ entrusted' = [entrusted EXCEPT ![c] = IF c \in Present THEN savedSecret[c] ELSE @]
  /\ recordState' = [recordState EXCEPT ![c] = "deleted"]
  /\ savedSecret' = [savedSecret EXCEPT ![c] = NoSecret]
  /\ editJob' = [step |-> "deleted", record |-> c]
  /\ UNCHANGED <<cleanupResult, keychain, minted, createJob, startupRetry, cleanupTx>>

\* Where a visit to c goes back to: the delete command, this launch's retry
\* or nobody (retry_credential_cleanup).
VisitEnds(by, c) ==
  /\ editJob' = IF by = "delete" THEN Idle ELSE editJob
  /\ startupRetry' = IF by = "startup" THEN startupRetry \ {c} ELSE startupRetry

Visits(by, c) ==
  \/ by = "delete" /\ editJob.step = "deleted" /\ editJob.record = c
  \/ by = "startup" /\ c \in startupRetry
  \/ by = "user"

\* BEGIN IMMEDIATE and the two reads; nothing queued means nothing to do.
CleanupBegins(by, c) ==
  /\ cleanupTx = NoTx /\ Visits(by, c)
  /\ IF cleanupQueue[c] = NoSecret
     THEN VisitEnds(by, c) /\ UNCHANGED cleanupTx
     ELSE /\ cleanupTx' = [step |-> IF \E d \in Present : savedSecret[d] = cleanupQueue[c]
                                    THEN "shared" ELSE "owned",
                           record |-> c, by |-> by]
          /\ UNCHANGED <<editJob, startupRetry>>
  /\ UNCHANGED <<recordState, savedSecret, cleanupQueue, cleanupResult, keychain, minted,
                 createJob, entrusted>>

CleanupRemoves ==
  /\ cleanupTx.step = "owned"
  /\ keychain' = keychain \ {cleanupQueue[cleanupTx.record]}
  /\ cleanupTx' = [cleanupTx EXCEPT !.step = "removed"]
  /\ UNCHANGED <<recordState, savedSecret, cleanupQueue, cleanupResult, minted, createJob,
                 editJob, startupRetry, entrusted>>

\* Mutant: a refusal is taken for an item that is already gone.
CleanupRefusedForgetting ==
  /\ cleanupTx.step = "owned"
  /\ cleanupQueue' = [cleanupQueue EXCEPT ![cleanupTx.record] = NoSecret]
  /\ cleanupResult' = [cleanupResult EXCEPT ![cleanupTx.record] = "cleaned"]
  /\ cleanupTx' = NoTx
  /\ VisitEnds(cleanupTx.by, cleanupTx.record)
  /\ UNCHANGED <<recordState, savedSecret, keychain, minted, createJob, entrusted>>

\* The Keychain refuses: the entry stays queued with the error.
CleanupRefused ==
  /\ cleanupTx.step = "owned"
  /\ cleanupResult' = [cleanupResult EXCEPT ![cleanupTx.record] = "pending"]
  /\ cleanupTx' = NoTx
  /\ VisitEnds(cleanupTx.by, cleanupTx.record)
  /\ UNCHANGED <<recordState, savedSecret, cleanupQueue, keychain, minted, createJob, entrusted>>

CleanupCommits ==
  /\ cleanupTx.step \in {"shared", "removed"}
  /\ cleanupQueue' = [cleanupQueue EXCEPT ![cleanupTx.record] = NoSecret]
  /\ cleanupResult' = [cleanupResult EXCEPT ![cleanupTx.record] =
       IF cleanupTx.step = "shared" THEN "retainedShared" ELSE "cleaned"]
  /\ cleanupTx' = NoTx
  /\ VisitEnds(cleanupTx.by, cleanupTx.record)
  /\ UNCHANGED <<recordState, savedSecret, keychain, minted, createJob, entrusted>>

\* Any statement of the transaction, or its commit, fails and it rolls back.
CleanupRollsBack ==
  /\ cleanupTx # NoTx
  /\ cleanupTx' = NoTx
  /\ VisitEnds(cleanupTx.by, cleanupTx.record)
  /\ UNCHANGED <<recordState, savedSecret, cleanupQueue, cleanupResult, keychain, minted,
                 createJob, entrusted>>

-----------------------------------------------------------------------------
\* The process dies and starts again: its transaction rolls back, its jobs
\* are forgotten, and the new launch reads the queue.
Restart ==
  /\ createJob' = Idle /\ editJob' = Idle /\ cleanupTx' = NoTx
  /\ startupRetry' = {c \in Record : cleanupQueue[c] # NoSecret}
  /\ UNCHANGED <<recordState, savedSecret, cleanupQueue, cleanupResult, keychain, minted, entrusted>>

StoreNext ==
  \/ \E c \in Record, s \in Secret \cup {NoSecret} : CreateStores(c, s) \/ UpdateStores(c, s)
  \/ CreateInserts \/ CreateFails
  \/ UpdateWrites \/ UpdateRemovesOld \/ UpdateFails
  \/ \E c \in Record : DeleteCommits(c)
  \/ \E c \in Record, by \in {"delete", "startup", "user"} : CleanupBegins(by, c)
  \/ CleanupRemoves \/ CleanupRefused \/ CleanupCommits \/ CleanupRollsBack
  \/ Restart

StoreSpec == StoreInit /\ [][StoreNext]_storeVars

-----------------------------------------------------------------------------
MaybeSecret == Secret \cup {NoSecret}

\* Every variable has its type.
StoreTypeOK ==
  /\ recordState \in [Record -> {"unborn", "present", "deleted"}]
  /\ savedSecret \in [Record -> MaybeSecret]
  /\ cleanupQueue \in [Record -> MaybeSecret]
  /\ cleanupResult \in [Record -> {"none", "pending", "cleaned", "retainedShared"}]
  /\ keychain \subseteq minted /\ minted \subseteq Secret
  /\ createJob \in {Idle} \cup [step : {"stored"}, record : Record, new : MaybeSecret]
  /\ editJob \in {Idle} \cup [step : {"stored", "written"}, record : Record,
                              old : MaybeSecret, new : MaybeSecret]
                 \cup [step : {"deleted"}, record : Record]
  /\ startupRetry \subseteq Record
  /\ cleanupTx \in {NoTx} \cup [step : {"shared", "owned", "removed"}, record : Record,
                                by : {"delete", "startup", "user"}]
  /\ entrusted \in [Record -> MaybeSecret]

\* The password of a saved connection can be read: no crash, failure or
\* concurrent cleanup removes the item a row still references
\* (update_connection removes the old item only after the row is rewritten).
SavedPasswordsReadable ==
  \A c \in Present : savedSecret[c] \in keychain \cup {NoSecret}

\* The password of a deleted connection is gone or still queued, whatever
\* failed and wherever the process died, and the diagnostics never call one
\* cleaned that the Keychain still holds (cleanup_deleted_connection_credential).
DeletedPasswordsAreTracked ==
  \A c \in Record : entrusted[c] \in keychain =>
    /\ cleanupQueue[c] = entrusted[c]
    /\ cleanupResult[c] # "cleaned"

\* No password is lost while it is needed, nor left behind when it is not.
CredentialSafety == SavedPasswordsReadable /\ DeletedPasswordsAreTracked
=============================================================================
