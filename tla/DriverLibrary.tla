--------------------------- MODULE DriverLibrary ---------------------------
(***************************************************************************)
(* JDBC installations: sets of jars that are downloaded or imported into a  *)
(* staging directory, published under a new identity by one rename and one  *)
(* transaction, pinned by connections and deleted                          *)
(* (services/driver_download.rs, services/driver_registry.rs,              *)
(* commands/driver.rs).                                                     *)
(*                                                                         *)
(* Imports and deletions are synchronous commands: they run on the main     *)
(* thread, one at a time.  Downloads are tasks, connections are saved by    *)
(* asynchronous commands: both interleave with the main thread.             *)
(***************************************************************************)
EXTENDS Integers, FiniteSets

CONSTANTS
  Installation,    \* identities; every download and every import has a new one
  Client,          \* saved connections
  NoInstallation,
  JarCount         \* jars in a set

ASSUME JarAssumption == JarCount \in Nat \ {0}

VARIABLES
  jarTaskStatus, jarTaskCancel,   \* the download's entry in the task table
  setStage,        \* how far each set has come
  setJars,         \* jars copied and verified
  setPlace,        \* where its directory is: "none", "staging", "published"
  registeredSets,      \* rows of driver_installations
  defaultSet,      \* default_installation_id of the definition
  pinned,          \* connections.driver_installation_id
  saveJob,         \* create_connection or update_connection before its write
  mainThread       \* the synchronous command that is running

jarTaskVars == <<jarTaskStatus, jarTaskCancel>>
diskVars == <<setJars, setPlace>>
tableVars == <<registeredSets, defaultSet>>
libraryVars == <<jarTaskVars, setStage, diskVars, tableVars, pinned, saveJob, mainThread>>

JarTasks == INSTANCE TaskManager
              WITH Task <- Installation, status <- jarTaskStatus, cancelRequested <- jarTaskCancel

MaybeInstallation == Installation \cup {NoInstallation}
NoCommand == [command |-> "none", set |-> NoInstallation]
NoSave == [client |-> "none", set |-> NoInstallation]

LibraryInit ==
  /\ JarTasks!TaskInit
  /\ setStage = [i \in Installation |-> "absent"]
  /\ setJars = [i \in Installation |-> 0]
  /\ setPlace = [i \in Installation |-> "none"]
  /\ registeredSets = {} /\ defaultSet = NoInstallation
  /\ pinned = [c \in Client |-> NoInstallation]
  /\ saveJob = NoSave
  /\ mainThread = NoCommand

SetMoves(i, stage) == setStage' = [setStage EXCEPT ![i] = stage]
IsImport(i) == mainThread = [command |-> "import", set |-> i]

\* The job fails: its staging directory goes with the guard that owns it, and a
\* published directory is removed as far as that works.
SetFails(i, stage) ==
  /\ SetMoves(i, stage)
  /\ setPlace' = [setPlace EXCEPT ![i] = IF @ = "staging" THEN "none" ELSE @]

-----------------------------------------------------------------------------
(* Filling the staging directory.                                          *)

\* download_jdbc_driver creates the task, download starts it.
BeginDownload(i) ==
  /\ setStage[i] = "absent"
  /\ JarTasks!CreateTask(i)
  /\ SetMoves(i, "created")
  /\ UNCHANGED <<diskVars, tableVars, pinned, saveJob, mainThread>>

StartDownload(i) ==
  /\ setStage[i] = "created"
  /\ JarTasks!StartTask(i)
  /\ SetMoves(i, "filling")
  /\ setPlace' = [setPlace EXCEPT ![i] = "staging"]
  /\ UNCHANGED <<setJars, tableVars, pinned, saveJob, mainThread>>

BeginJarImport(i) ==
  /\ setStage[i] = "absent" /\ mainThread = NoCommand
  /\ mainThread' = [command |-> "import", set |-> i]
  /\ SetMoves(i, "filling")
  /\ setPlace' = [setPlace EXCEPT ![i] = "staging"]
  /\ UNCHANGED <<jarTaskVars, setJars, tableVars, pinned, saveJob>>

\* Mutant: a jar whose digest is wrong counts as verified (see VerifySet).
VerifySetEarly(i) ==
  /\ setStage[i] = "filling"
  /\ IsImport(i) \/ i \notin jarTaskCancel
  /\ SetMoves(i, "verified")
  /\ UNCHANGED <<jarTaskVars, diskVars, tableVars, pinned, saveJob, mainThread>>

FetchJar(i) ==
  /\ setStage[i] = "filling" /\ setJars[i] < JarCount
  /\ IsImport(i) \/ i \notin jarTaskCancel
  /\ setJars' = [setJars EXCEPT ![i] = @ + 1]
  /\ UNCHANGED <<jarTaskVars, setStage, setPlace, tableVars, pinned, saveJob, mainThread>>

\* All jars have their digest, and the cancellation is looked at once more.
VerifySet(i) ==
  /\ setStage[i] = "filling" /\ setJars[i] = JarCount
  /\ IsImport(i) \/ i \notin jarTaskCancel
  /\ SetMoves(i, "verified")
  /\ UNCHANGED <<jarTaskVars, diskVars, tableVars, pinned, saveJob, mainThread>>

\* Mutant: a download that waits for the network does not hear of a cancellation.
FillingFailsDeaf(i) ==
  /\ setStage[i] = "filling" /\ i \notin jarTaskCancel
  /\ SetFails(i, "failed")
  /\ UNCHANGED <<jarTaskVars, setJars, tableVars, pinned, saveJob, mainThread>>

\* Network, size, digest or disk errors, and a cancellation of the download.
FillingFails(i) ==
  /\ setStage[i] = "filling"
  /\ SetFails(i, "failed")
  /\ UNCHANGED <<jarTaskVars, setJars, tableVars, pinned, saveJob, mainThread>>

-----------------------------------------------------------------------------
(* Publishing: the directory, then the row and the default in one           *)
(* transaction.  The download no longer looks at its cancellation.          *)

PublishDirectory(i) ==
  /\ setStage[i] = "verified"
  /\ \/ SetMoves(i, "moved") /\ setPlace' = [setPlace EXCEPT ![i] = "published"]
     \/ SetFails(i, "failed")
  /\ UNCHANGED <<jarTaskVars, setJars, tableVars, pinned, saveJob, mainThread>>

PublishRows(i) ==
  /\ setStage[i] = "moved"
  /\ registeredSets' = registeredSets \cup {i}
  /\ defaultSet' = i
  /\ SetMoves(i, "published")
  /\ UNCHANGED <<jarTaskVars, diskVars, pinned, saveJob, mainThread>>

\* The definition is gone or the store refuses: the directory is removed again.
PublishRefused(i) ==
  /\ setStage[i] = "moved"
  /\ SetMoves(i, "failed")
  /\ setPlace' \in {setPlace, [setPlace EXCEPT ![i] = "none"]}
  /\ UNCHANGED <<jarTaskVars, setJars, tableVars, pinned, saveJob, mainThread>>

\* Mutant: the flag alone decides how the task ends.
FinishSetByFlag(i) ==
  /\ setStage[i] \in {"published", "failed"}
  /\ IF IsImport(i)
       THEN mainThread' = NoCommand /\ UNCHANGED jarTaskVars
       ELSE /\ JarTasks!Finish(i, IF i \in jarTaskCancel THEN "cancelled" ELSE "succeeded")
            /\ UNCHANGED mainThread
  /\ SetMoves(i, "ended")
  /\ UNCHANGED <<diskVars, tableVars, pinned, saveJob>>

\* The task ends as the error and the flag say; an import only returns.
FinishSet(i) ==
  /\ setStage[i] \in {"published", "failed"}
  /\ IF IsImport(i)
       THEN mainThread' = NoCommand /\ UNCHANGED jarTaskVars
       ELSE /\ JarTasks!Finish(i, IF setStage[i] = "published" THEN "succeeded"
                                  ELSE IF i \in jarTaskCancel THEN "cancelled" ELSE "failed")
            /\ UNCHANGED mainThread
  /\ SetMoves(i, "ended")
  /\ UNCHANGED <<diskVars, tableVars, pinned, saveJob>>

CancelDownload(i) ==
  /\ setStage[i] # "ended"
  /\ JarTasks!RequestCancel(i)
  /\ UNCHANGED <<setStage, diskVars, tableVars, pinned, saveJob, mainThread>>

-----------------------------------------------------------------------------
(* Connections that pin an installation, and deleting one.                 *)

\* The form names an installation of the list; the references are normalised.
BeginSave(c, i) ==
  /\ saveJob = NoSave /\ i \in registeredSets
  /\ saveJob' = [client |-> c, set |-> i]
  /\ UNCHANGED <<jarTaskVars, setStage, diskVars, tableVars, pinned, mainThread>>

WriteSave ==
  /\ saveJob # NoSave
  /\ pinned' = [pinned EXCEPT ![saveJob.client] = saveJob.set]
  /\ saveJob' = NoSave
  /\ UNCHANGED <<jarTaskVars, setStage, diskVars, tableVars, mainThread>>

DropClient(c) ==
  /\ pinned' = [pinned EXCEPT ![c] = NoInstallation]
  /\ UNCHANGED <<jarTaskVars, setStage, diskVars, tableVars, saveJob, mainThread>>

\* delete_driver_installation: the references are read first, ...
BeginDelete(i) ==
  /\ mainThread = NoCommand /\ i \in registeredSets
  /\ \A c \in Client : pinned[c] # i
  /\ mainThread' = [command |-> "delete", set |-> i]
  /\ UNCHANGED <<jarTaskVars, setStage, diskVars, tableVars, pinned, saveJob>>

\* ... the rows go in a transaction of their own, ...
DeleteRows ==
  /\ mainThread.command = "delete"
  /\ registeredSets' = registeredSets \ {mainThread.set}
  /\ defaultSet' = IF defaultSet = mainThread.set THEN NoInstallation ELSE defaultSet
  /\ mainThread' = [mainThread EXCEPT !.command = "clean"]
  /\ UNCHANGED <<jarTaskVars, setStage, diskVars, pinned, saveJob>>

DeleteRefused ==
  /\ mainThread.command = "delete"
  /\ mainThread' = NoCommand
  /\ UNCHANGED <<jarTaskVars, setStage, diskVars, tableVars, pinned, saveJob>>

\* ... and the files, if that works, after the rows.
DeleteFiles ==
  /\ mainThread.command = "clean"
  /\ setPlace' \in {setPlace, [setPlace EXCEPT ![mainThread.set] = "none"]}
  /\ mainThread' = NoCommand
  /\ UNCHANGED <<jarTaskVars, setStage, setJars, tableVars, pinned, saveJob>>

-----------------------------------------------------------------------------
\* The process dies: jobs and the task table are gone, directories stay.
LibraryCrash ==
  /\ \E i \in Installation : setStage[i] \notin {"absent", "ended", "lost"}
  /\ setStage' = [i \in Installation |->
       IF setStage[i] = "absent" THEN "absent" ELSE IF setStage[i] = "ended" THEN "ended" ELSE "lost"]
  /\ jarTaskStatus' = [i \in Installation |-> "none"]
  /\ jarTaskCancel' = {}
  /\ saveJob' = NoSave /\ mainThread' = NoCommand
  /\ UNCHANGED <<diskVars, tableVars, pinned>>

DownloadStep(i) ==
  \/ StartDownload(i) \/ FetchJar(i) \/ VerifySet(i) \/ FillingFails(i)
  \/ PublishDirectory(i) \/ PublishRows(i) \/ PublishRefused(i) \/ FinishSet(i)

LibraryNext ==
  \/ \E i \in Installation :
       BeginDownload(i) \/ BeginJarImport(i) \/ DownloadStep(i) \/ CancelDownload(i) \/ BeginDelete(i)
  \/ \E c \in Client, i \in Installation : BeginSave(c, i)
  \/ \E c \in Client : DropClient(c)
  \/ WriteSave \/ DeleteRows \/ DeleteRefused \/ DeleteFiles
  \/ LibraryCrash

LibraryFairness == \A i \in Installation : WF_libraryVars(DownloadStep(i))
LibrarySpec == LibraryInit /\ [][LibraryNext]_libraryVars /\ LibraryFairness

-----------------------------------------------------------------------------
\* Every variable has its type.
LibraryTypeOK ==
  /\ jarTaskStatus \in [Installation -> JarTasks!TaskStatus]
  /\ jarTaskCancel \subseteq Installation
  /\ setStage \in [Installation -> {"absent", "created", "filling", "verified", "moved",
                                    "published", "failed", "ended", "lost"}]
  /\ setJars \in [Installation -> 0..JarCount]
  /\ setPlace \in [Installation -> {"none", "staging", "published"}]
  /\ registeredSets \subseteq Installation /\ defaultSet \in MaybeInstallation
  /\ pinned \in [Client -> MaybeInstallation]
  /\ saveJob \in {NoSave} \cup [client : Client, set : Installation]
  /\ mainThread \in {NoCommand} \cup [command : {"import", "delete", "clean"}, set : Installation]

\* An installation in the table has all its verified jars in their final place,
\* wherever a publication or a deletion failed or the process died; and the
\* definition's default is an installation of the table.
RegisteredSetsAreWhole ==
  /\ \A i \in registeredSets : setPlace[i] = "published" /\ setJars[i] = JarCount
  /\ defaultSet \in registeredSets \cup {NoInstallation}

\* A download that reports cancelled or failed has published nothing, however
\* late the cancellation came ("Download cancelled; no installation published").
EndedDownloadsAreTrue ==
  \A i \in Installation : jarTaskStatus[i] \in {"cancelled", "failed"} => i \notin registeredSets

\* The table and the reports agree with the files.
LibrarySafety == RegisteredSetsAreWhole /\ EndedDownloadsAreTrue

\* A download that is asked to stop ends, unless the process does.
EveryDownloadEnds ==
  \A i \in Installation :
    jarTaskStatus[i] = "cancelling" ~> jarTaskStatus[i] \in {"cancelled", "succeeded", "failed", "none"}

=============================================================================
