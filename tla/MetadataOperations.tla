------------------------ MODULE MetadataOperations ------------------------
(***************************************************************************)
(* What the metadata cache and the metadata index share: the operations    *)
(* that commands/metadata.rs begins on the session table, the sessions     *)
(* coming and going meanwhile, and the database schemas they read.         *)
(***************************************************************************)
EXTENDS ConnectionManager

CONSTANT MaxSchema   \* bound: versions of the databases' schemas

ASSUME SchemaAssumption == MaxSchema \in Nat \ {0}

SchemaVersion == 1..MaxSchema

VARIABLES
  schema,    \* version of the databases' schemas, all counted together
  emptied,   \* pending sources whose attempt has cleared the caches
  waiting    \* metadata operations that have not returned from wait()

metadataVars == <<schema, emptied, waiting>>

MetadataOperationsInit ==
  /\ Init /\ ~idleReclaim   \* no step here reads the policy's second half
  /\ schema = 1
  /\ emptied = {}
  /\ waiting = {}

-----------------------------------------------------------------------------
(* A metadata operation takes a lease and waits for it without the table's *)
(* lock.  The id it gives its query is its own.                            *)

BeginMetadataOperation(s, q) ==
  /\ \A l \in registered : l.query # q
  /\ BeginQuery(s, q)
  /\ waiting' = waiting \cup {[source |-> s, generation |-> live[s], query |-> q]}
  /\ UNCHANGED <<schema, emptied>>

\* A lease that did not have to queue is checked like one that did: its
\* connection may be gone by the time the operation starts.
Activate(l) ==
  \/ ActivateQueued(l)
  \/ /\ l \notin queued
     /\ RegistryOpen(l)
     /\ older' = Touched(l.source)
     /\ UNCHANGED <<sessionVars, policyVars, queryVars, consoleVars>>

WaitFails(l) == FailQueued(l) \/ (l \notin queued /\ ~RegistryOpen(l) /\ FinishQuery(l))

Wait(l) ==
  /\ l \in waiting
  /\ \/ AcquirePermit(l) /\ UNCHANGED waiting
     \/ Activate(l) /\ waiting' = waiting \ {l}
     \/ WaitFails(l) /\ waiting' = waiting \ {l}
  /\ UNCHANGED <<schema, emptied>>

Underway == registered \ waiting

\* An operation gives up waiting: its lease is dropped where it stands.
AbandonWait(l) ==
  /\ l \in waiting
  /\ Unregister(l)
  /\ TouchIfOpen(l)
  /\ waiting' = waiting \ {l}
  /\ UNCHANGED <<sessionVars, policyVars, consoleVars, schema, emptied>>

EndMetadataOperation(l) == FinishQuery(l) /\ UNCHANGED metadataVars

-----------------------------------------------------------------------------
(* The sessions.  An attempt clears the caches once it is admitted, before *)
(* it opens its driver.                                                    *)

AdmitAttempt(s) == BeginConnect(s) /\ emptied' = emptied \ {s} /\ UNCHANGED <<schema, waiting>>

\* Mutant: the driver is opened without clearing the caches first.
FinishAttemptUncleared(s) ==
  /\ FinishConnectOk(s)
  /\ emptied' = emptied \ {s}
  /\ UNCHANGED <<schema, waiting>>

FinishAttempt(s) ==
  /\ s \in emptied
  /\ FinishConnectOk(s) \/ FinishConnectErr(s)
  /\ emptied' = emptied \ {s}
  /\ UNCHANGED <<schema, waiting>>

\* Eviction and idle reclaim retire the connection under the guards of a
\* disconnect or stricter ones.
EndSession(s) ==
  /\ Disconnect(s) \/ InvalidateGeneration(s, live[s])
  /\ emptied' = emptied \ {s}
  /\ UNCHANGED <<schema, waiting>>

ConnectionStep(s) == AdmitAttempt(s) \/ FinishAttempt(s) \/ EndSession(s)

\* A statement of any client of a database, this application included.
ChangeSchema ==
  /\ schema < MaxSchema
  /\ schema' = schema + 1
  /\ UNCHANGED <<vars, emptied, waiting>>

SurroundingStep == ChangeSchema \/ \E s \in Source : ConnectionStep(s)

-----------------------------------------------------------------------------
(* Every variable has its type: an id is used by one operation at a time,  *)
(* and only a pending attempt has caches emptied for it.                   *)
MetadataTypeOK ==
  /\ TypeOK
  /\ schema \in SchemaVersion
  /\ emptied \subseteq pending
  /\ waiting \subseteq registered
  /\ \A l, m \in registered : l.query = m.query => l = m
=============================================================================
