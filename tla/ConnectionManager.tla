------------------------- MODULE ConnectionManager -------------------------
(***************************************************************************)
(* The runtime session table of services/connection_manager.rs: which Data *)
(* Sources hold a live physical connection, which have a connection        *)
(* attempt in flight, the operations that occupy a connection and the SQL  *)
(* Console sessions it owns.                                               *)
(*                                                                         *)
(* The table is one object behind one asynchronous lock, so each method is *)
(* one action; its callers are left open.  Every physical connection is    *)
(* identified by its generation.  An operation keeps the registry of the   *)
(* connection it began on, never the Data Source's current one, so leases  *)
(* and console occupancy are records that carry a generation and outlive   *)
(* the connection.                                                         *)
(*                                                                         *)
(* A definition marked "Mutant" is a variant of the one that follows it    *)
(* with a plausible mistake.  Nothing uses it but the check that the       *)
(* properties would notice that mistake.                                   *)
(***************************************************************************)
EXTENDS Integers, FiniteSets

CONSTANTS
  Source,         \* saved Data Sources (connection ids)
  SerialSource,   \* those whose driver does not run concurrent queries
  QueryId,        \* ids a caller may give a query
  Console,        \* logical SQL Console (editor tab) ids
  Limits,         \* values the session policy may take
  MaxGeneration   \* bound: physical connections opened in one behaviour

ASSUME SourceAssumption == IsFiniteSet(Source) /\ SerialSource \subseteq Source
ASSUME LimitsAssumption == Limits \subseteq 1..20 /\ Limits # {}
ASSUME GenerationAssumption == MaxGeneration \in Nat

NoGeneration == 0
Generation == 1..MaxGeneration

Lease == [source : Source, generation : Generation, query : QueryId]
Occupancy == [source : Source, generation : Generation, console : Console]
Phase == {"idle", "active", "failed"}

\* A status and the kind of message it carries: "reclaimed" and "closed" are
\* Disconnected with the reason the session ended; "none" is an unknown source.
Status == {"none", "connecting", "connected", "failed", "disconnected", "reclaimed", "closed"}

VARIABLES
  live,           \* generation of the source's live connection, or NoGeneration
  pending,        \* sources with a connection attempt in flight
  nextGeneration, \* generation the next installed connection gets
  status,         \* what the interface is told about each source
  older,          \* <<s, t>>: s was last used before t
  limit,          \* max_live_sessions
  idleReclaim,    \* whether idle_reclaim_after is set
  registered,     \* leases present in the registry of their connection
  queued,         \* registered leases still waiting for the serial gate
  cancelled,      \* registered leases whose token is cancelled
  permits,        \* leases holding the serial gate of their connection
  consoles,       \* phase of each console session of the live connection
  consoleHeld     \* console gates held by an operation

sessionVars == <<live, pending, nextGeneration, status>>
policyVars == <<limit, idleReclaim>>
queryVars == <<registered, queued, cancelled, permits>>
consoleVars == <<consoles, consoleHeld>>
vars == <<sessionVars, older, policyVars, queryVars, consoleVars>>

-----------------------------------------------------------------------------
(* Reading the table.                                                      *)

LiveSources == {s \in Source : live[s] # NoGeneration}

\* A record (lease or occupancy) belongs to the connection s has now.
OnLive(r, s) == r.source = s /\ r.generation = live[s]

\* The registry is open exactly while its connection is in the table.
RegistryOpen(r) == r.generation = live[r.source]

SameConnection(r, m) == r.source = m.source /\ r.generation = m.generation

HasRunningOperations(s) ==
  \/ \E l \in registered : OnLive(l, s)
  \/ \E k \in consoleHeld : OnLive(k, s)

\* Mutant: a failed transaction does not count.
UncommittedOnlyWhenActive(s) == \E c \in Console : consoles[s][c] = "active"

HasUncommittedTransaction(s) ==
  \E c \in Console : consoles[s][c] \in {"active", "failed"}

\* Mutant: console transactions do not protect a session.
CanReclaimOverTransactions(s) == s \in LiveSources /\ ~HasRunningOperations(s)

CanReclaim(s) ==
  /\ s \in LiveSources
  /\ ~HasRunningOperations(s)
  /\ ~HasUncommittedTransaction(s)

Occupied == Cardinality(LiveSources) + Cardinality(pending)

LeastRecentlyUsed ==
  {s \in Source : /\ CanReclaim(s)
                  /\ \A t \in Source : CanReclaim(t) => <<t, s>> \notin older}

PreflightDisconnect(s) == ~HasRunningOperations(s) /\ ~HasUncommittedTransaction(s)
PreflightConfigurationChange(s) == s \notin pending /\ PreflightDisconnect(s)

-----------------------------------------------------------------------------
(* Effects shared by several methods.                                      *)

\* last_used := now, for the registry of the live connection of s.
Touched(s) ==
  {p \in older : s \notin {p[1], p[2]}} \cup {<<t, s>> : t \in Source \ {s}}

\* A lease or occupancy that ends stamps its own registry, which may be retired.
TouchIfOpen(r) == older' = IF RegistryOpen(r) THEN Touched(r.source) ELSE older

\* Mutant: the registry of a dropped connection tells its waiters nothing.
RetireSilently(S) ==
  /\ live' = [s \in Source |-> IF s \in S THEN NoGeneration ELSE live[s]]
  /\ consoles' = [s \in Source |->
                    IF s \in S THEN [c \in Console |-> "absent"] ELSE consoles[s]]
  /\ UNCHANGED cancelled

\* Dropping the runtime of every source in S: the entry and its consoles go,
\* and the registry's Drop cancels every token it still holds.
Retire(S) ==
  /\ live' = [s \in Source |-> IF s \in S THEN NoGeneration ELSE live[s]]
  /\ consoles' = [s \in Source |->
                    IF s \in S THEN [c \in Console |-> "absent"] ELSE consoles[s]]
  /\ cancelled' = cancelled \cup
                    {l \in registered : l.source \in S /\ RegistryOpen(l)}

\* Mutant: the gate is not given back.
UnregisterKeepingGate(l) ==
  /\ registered' = registered \ {l}
  /\ queued' = queued \ {l}
  /\ cancelled' = cancelled \ {l}
  /\ UNCHANGED permits

\* Removing a lease from its registry and releasing the gate it may hold.
Unregister(l) ==
  /\ registered' = registered \ {l}
  /\ queued' = queued \ {l}
  /\ cancelled' = cancelled \ {l}
  /\ permits' = permits \ {l}

-----------------------------------------------------------------------------
Init ==
  /\ live = [s \in Source |-> NoGeneration]
  /\ pending = {}
  /\ nextGeneration = 1
  /\ status = [s \in Source |-> "none"]
  /\ older = {}
  /\ limit \in Limits
  /\ idleReclaim \in BOOLEAN
  /\ registered = {} /\ queued = {} /\ cancelled = {} /\ permits = {}
  /\ consoles = [s \in Source |-> [c \in Console |-> "absent"]]
  /\ consoleHeld = {}

(* Connecting.                                                             *)

\* Mutant: the status of the evicted session is left as it was.
StartConnectingSilently(s, evicted) ==
  /\ Retire(evicted)
  /\ pending' = pending \cup {s}
  /\ status' = [status EXCEPT ![s] = "connecting"]

StartConnecting(s, evicted) ==
  /\ Retire(evicted)
  /\ pending' = pending \cup {s}
  /\ status' = [t \in Source |-> IF t = s THEN "connecting"
                                 ELSE IF t \in evicted THEN "reclaimed"
                                 ELSE status[t]]

\* Mutant: attempts in flight do not count towards the limit.
BeginConnectIgnoringPending(s) ==
  /\ s \notin LiveSources \cup pending
  /\ Cardinality(LiveSources) < limit
  /\ StartConnecting(s, {})
  /\ UNCHANGED <<nextGeneration, older, policyVars, registered, queued, permits, consoleHeld>>

\* An attempt is admitted below the limit, or after evicting the least
\* recently used session that nothing occupies; otherwise it is refused.
BeginConnect(s) ==
  /\ s \notin LiveSources \cup pending
  /\ \/ Occupied < limit /\ StartConnecting(s, {})
     \/ Occupied >= limit /\ \E t \in LeastRecentlyUsed : StartConnecting(s, {t})
  /\ UNCHANGED <<nextGeneration, older, policyVars, registered, queued, permits, consoleHeld>>

\* Mutant: the generation is not advanced.
FinishConnectReusingGeneration(s) ==
  /\ s \in pending
  /\ nextGeneration <= MaxGeneration
  /\ pending' = pending \ {s}
  /\ live' = [live EXCEPT ![s] = nextGeneration]
  /\ status' = [status EXCEPT ![s] = "connected"]
  /\ older' = Touched(s)
  /\ UNCHANGED <<nextGeneration, policyVars, queryVars, consoleVars>>

FinishConnectOk(s) ==
  /\ s \in pending
  /\ nextGeneration <= MaxGeneration
  /\ pending' = pending \ {s}
  /\ live' = [live EXCEPT ![s] = nextGeneration]
  /\ nextGeneration' = nextGeneration + 1
  /\ status' = [status EXCEPT ![s] = "connected"]
  /\ older' = Touched(s)
  /\ UNCHANGED <<policyVars, queryVars, consoleVars>>

FinishConnectErr(s) ==
  /\ s \in pending
  /\ pending' = pending \ {s}
  /\ status' = [status EXCEPT ![s] = "failed"]
  /\ UNCHANGED <<live, nextGeneration, older, policyVars, queryVars, consoleVars>>

(* Ending sessions.                                                        *)

RetireSource(s, newStatus) ==
  /\ Retire({s})
  /\ pending' = pending \ {s}
  /\ status' = [status EXCEPT ![s] = newStatus]
  /\ UNCHANGED <<nextGeneration, older, policyVars, registered, queued, permits, consoleHeld>>

Disconnect(s) == PreflightDisconnect(s) /\ RetireSource(s, "disconnected")

\* delete_connection holds the table across preflight, deletion and forgetting.
DisconnectAndForget(s) == PreflightConfigurationChange(s) /\ RetireSource(s, "none")

\* A generation check is the only guard: occupancy does not protect a session
\* whose runtime is known to be unusable.
InvalidateGeneration(s, g) ==
  g # NoGeneration /\ live[s] = g /\ RetireSource(s, "closed")

\* The idle sessions are those last used before some instant.
ReclaimIdle(S) ==
  /\ idleReclaim
  /\ S # {}
  /\ \A s \in S : s \notin pending /\ CanReclaim(s)
  /\ \A s \in S, t \in Source :
       (<<t, s>> \in older /\ t \notin pending /\ CanReclaim(t)) => t \in S
  /\ Retire(S)
  /\ status' = [s \in Source |-> IF s \in S THEN "reclaimed" ELSE status[s]]
  /\ UNCHANGED <<pending, nextGeneration, older, policyVars, registered, queued, permits, consoleHeld>>

\* Attempts in flight stay pending.
ShutdownAll ==
  /\ Retire(LiveSources)
  /\ status' = [s \in Source |-> IF status[s] = "none" THEN "none" ELSE "disconnected"]
  /\ UNCHANGED <<pending, nextGeneration, older, policyVars, registered, queued, permits, consoleHeld>>

SetSessionPolicy(n, reclaim) ==
  /\ limit' = n
  /\ idleReclaim' = reclaim
  /\ UNCHANGED <<sessionVars, older, queryVars, consoleVars>>

(* Queries on the primary session.                                         *)

\* Mutant: a gate granted to a waiter that has not resumed counts as free.
GateFreeUntilActive(l) == \A m \in permits \ queued : ~SameConnection(l, m)

GateFree(l) == \A m \in permits : ~SameConnection(l, m)

BeginQuery(s, q) ==
  LET l == [source |-> s, generation |-> live[s], query |-> q] IN
  /\ s \in LiveSources
  /\ l \notin registered
  /\ registered' = registered \cup {l}
  /\ older' = Touched(s)
  /\ \/ s \notin SerialSource /\ UNCHANGED <<queued, permits>>
     \/ s \in SerialSource /\ GateFree(l) /\ permits' = permits \cup {l} /\ UNCHANGED queued
     \/ s \in SerialSource /\ ~GateFree(l) /\ queued' = queued \cup {l} /\ UNCHANGED permits
  /\ UNCHANGED <<sessionVars, policyVars, cancelled, consoleVars>>

\* The biased select takes the gate only when the token is not cancelled.
AcquirePermit(l) ==
  /\ l \in queued
  /\ l \notin cancelled
  /\ GateFree(l)
  /\ permits' = permits \cup {l}
  /\ UNCHANGED <<sessionVars, older, policyVars, registered, queued, cancelled, consoleVars>>

\* Mutant: the lease is not checked again after the wait.
ActivateUnchecked(l) ==
  /\ l \in queued
  /\ l \in permits
  /\ queued' = queued \ {l}
  /\ older' = Touched(l.source)
  /\ UNCHANGED <<sessionVars, policyVars, registered, cancelled, permits, consoleVars>>

\* With the gate in hand the lease is checked once more before the query runs.
ActivateQueued(l) ==
  /\ l \in queued
  /\ l \in permits
  /\ RegistryOpen(l)
  /\ l \notin cancelled
  /\ queued' = queued \ {l}
  /\ older' = Touched(l.source)
  /\ UNCHANGED <<sessionVars, policyVars, registered, cancelled, permits, consoleVars>>

\* A waiter whose token is cancelled, or whose connection is gone, gives up.
FailQueued(l) ==
  /\ l \in queued
  /\ l \in cancelled \/ (l \in permits /\ ~RegistryOpen(l))
  /\ Unregister(l)
  /\ TouchIfOpen(l)
  /\ UNCHANGED <<sessionVars, policyVars, consoleVars>>

\* A query that is not queued ends and drops its operation.
FinishQuery(l) ==
  /\ l \in registered \ queued
  /\ Unregister(l)
  /\ TouchIfOpen(l)
  /\ UNCHANGED <<sessionVars, policyVars, consoleVars>>

CancelQueuedQuery(s, q) ==
  LET l == [source |-> s, generation |-> live[s], query |-> q] IN
  /\ l \in queued
  /\ cancelled' = cancelled \cup {l}
  /\ UNCHANGED <<sessionVars, older, policyVars, registered, queued, permits, consoleVars>>

(* SQL Console sessions.                                                   *)

InstallConsoleSession(s, c) ==
  /\ s \in LiveSources
  /\ consoles[s][c] = "absent"
  /\ consoles' = [consoles EXCEPT ![s][c] = "idle"]
  /\ UNCHANGED <<sessionVars, older, policyVars, queryVars, consoleHeld>>

RemoveConsoleSession(s, c) ==
  /\ s \in LiveSources
  /\ consoles[s][c] = "idle"
  /\ \A k \in consoleHeld : ~(OnLive(k, s) /\ k.console = c)
  /\ consoles' = [consoles EXCEPT ![s][c] = "absent"]
  /\ UNCHANGED <<sessionVars, older, policyVars, queryVars, consoleHeld>>

BeginConsoleOperation(s, c) ==
  LET k == [source |-> s, generation |-> live[s], console |-> c] IN
  /\ s \in LiveSources
  /\ consoles[s][c] # "absent"
  /\ k \notin consoleHeld
  /\ consoleHeld' = consoleHeld \cup {k}
  /\ older' = Touched(s)
  /\ UNCHANGED <<sessionVars, policyVars, queryVars, consoles>>

EndConsoleOperation(k) ==
  /\ k \in consoleHeld
  /\ consoleHeld' = consoleHeld \ {k}
  /\ TouchIfOpen(k)
  /\ UNCHANGED <<sessionVars, policyVars, queryVars, consoles>>

\* The session is found by id in whatever connection the source has now.
SetConsolePhase(s, c, phase) ==
  /\ s \in LiveSources
  /\ consoles[s][c] # "absent"
  /\ consoles' = [consoles EXCEPT ![s][c] = phase]
  /\ UNCHANGED <<sessionVars, older, policyVars, queryVars, consoleHeld>>

-----------------------------------------------------------------------------
SessionNext ==
  \/ \E s \in Source :
       \/ BeginConnect(s)
       \/ FinishConnectOk(s)
       \/ FinishConnectErr(s)
       \/ Disconnect(s)
       \/ DisconnectAndForget(s)
       \/ InvalidateGeneration(s, live[s])
  \/ \E S \in SUBSET Source : ReclaimIdle(S)
  \/ \E n \in Limits, reclaim \in BOOLEAN : SetSessionPolicy(n, reclaim)
  \/ ShutdownAll

QueryNext ==
  \/ \E s \in LiveSources, q \in QueryId : BeginQuery(s, q) \/ CancelQueuedQuery(s, q)
  \/ \E l \in registered :
       AcquirePermit(l) \/ ActivateQueued(l) \/ FailQueued(l) \/ FinishQuery(l)

ConsoleNext ==
  \/ \E s \in Source, c \in Console :
       \/ InstallConsoleSession(s, c)
       \/ RemoveConsoleSession(s, c)
       \/ BeginConsoleOperation(s, c)
       \/ \E phase \in Phase : SetConsolePhase(s, c, phase)
  \/ \E k \in consoleHeld : EndConsoleOperation(k)

Next == SessionNext \/ QueryNext \/ ConsoleNext

Spec == Init /\ [][Next]_vars

-----------------------------------------------------------------------------
(* Properties.                                                             *)

Running(l) == l \in registered \ queued

(* Every variable has the shape the code's types give it.                  *)
TypeOK ==
  /\ live \in [Source -> Generation \cup {NoGeneration}]
  /\ pending \subseteq Source
  /\ nextGeneration \in 1..(MaxGeneration + 1)
  /\ status \in [Source -> Status]
  /\ older \subseteq Source \X Source
  /\ limit \in Limits
  /\ idleReclaim \in BOOLEAN
  /\ registered \subseteq Lease
  /\ queued \subseteq registered
  /\ cancelled \subseteq registered
  /\ permits \subseteq registered
  /\ consoles \in [Source -> [Console -> Phase \cup {"absent"}]]
  /\ consoleHeld \subseteq Occupancy

(* A source never has both a live connection and an attempt in flight, and  *)
(* the status the interface is given says which it has: it reads connected  *)
(* exactly while the runtime entry exists, through eviction, idle reclaim,  *)
(* invalidation, shutdown and the answers of late attempts.                 *)
StatusMatchesRuntime ==
  /\ LiveSources \cap pending = {}
  /\ \A s \in Source : /\ status[s] = "connected" <=> s \in LiveSources
                       /\ status[s] = "connecting" => s \in pending

(* A generation names one physical connection for ever: no two sources      *)
(* share one, none is from the future, and whatever a retired connection    *)
(* left behind cannot be taken for work of the source's present one.        *)
GenerationsIdentifyConnections ==
  /\ \A s \in Source : live[s] < nextGeneration
  /\ \A s, t \in LiveSources : live[s] = live[t] => s = t
  /\ \A r \in registered \cup consoleHeld :
       /\ r.generation < nextGeneration
       /\ \A s \in LiveSources : live[s] = r.generation => s = r.source

(* The serial gate: on a driver without concurrent queries at most one      *)
(* query of a connection runs, whatever waits, is cancelled or is retired   *)
(* meanwhile, and the one that runs holds the gate.                         *)
OneQueryAtATime ==
  \A l \in Lease : (l.source \in SerialSource /\ Running(l)) =>
    /\ l \in permits
    /\ \A m \in Lease : (Running(m) /\ SameConnection(l, m)) => m = l

(* Retiring a connection reaches every operation that outlives it, and a    *)
(* cancelled waiter of a live connection has not started.                   *)
CancellationReachesWaiters ==
  /\ \A l \in registered : ~RegistryOpen(l) => l \in cancelled
  /\ \A l \in cancelled : RegistryOpen(l) => l \in queued

(* The session limit: once the policy is lowered the sessions above it stay *)
(* until they are evicted, but no step ever grows the number of live and    *)
(* pending sessions beyond the limit in force.                              *)
GrowsWithinLimit == [][Occupied' > Occupied => Occupied' <= limit]_vars

(* Neither eviction for a new session, nor idle reclaim, nor a disconnect   *)
(* drops a session with a running or queued operation or an uncommitted     *)
(* console transaction: only a runtime known to be dead or the end of the   *)
(* application does.                                                        *)
OccupiedSessionsSurvive ==
  [][\A s \in LiveSources :
       (HasRunningOperations(s) \/ HasUncommittedTransaction(s)) =>
          \/ live'[s] = live[s]
          \/ InvalidateGeneration(s, live[s])
          \/ ShutdownAll]_vars

(* No query starts running on a retired connection or after the waiter was  *)
(* cancelled, even when the gate had already been granted to it.            *)
NothingStartsAfterRetirement ==
  [][\A l \in registered' \ queued' :
       ~Running(l) => live'[l.source] = l.generation /\ l \notin cancelled]_vars

=============================================================================
