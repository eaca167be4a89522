--------------------------- MODULE MetadataCache ---------------------------
(***************************************************************************)
(* The metadata cache of services/metadata_service.rs under the commands   *)
(* of commands/metadata.rs.                                                *)
(*                                                                         *)
(* A load looks into the cache under its lock, reads the database without  *)
(* it and takes the lock again to store what it read.  Loads of one key    *)
(* that miss together share a token; whoever invalidates the key removes   *)
(* the token, and a load whose token is no longer the key's may not store  *)
(* its result.  The token is represented by the set of loads that hold it, *)
(* so that one nobody holds any more (a dead Weak) is the empty set.       *)
(***************************************************************************)
EXTENDS MetadataOperations, Sequences

CONSTANTS
  Object,      \* what is looked up in a source: its tables, a DDL text ...
  NoKey,       \* what an id asks for that no load uses
  MaxEntries   \* MAX_METADATA_CACHE_ENTRIES

ASSUME EntriesAssumption == MaxEntries \in Nat \ {0}

Key == [source : Source, object : Object]
ASSUME KeyAssumption == NoKey \notin Key
NoRequest == [key |-> NoKey, force |-> FALSE]

\* A value is what was read: which schema, over which physical connection.
Value == [version : SchemaVersion, generation : Generation]
NoValue == [version |-> 0, generation |-> NoGeneration]

VARIABLES
  cached,    \* the ten maps: the value of each key, or NoValue
  order,     \* insertion_order, least recently used first
  fresh,     \* keys with a loaded_at within METADATA_CACHE_TTL
  sharing,   \* loads that hold the token pending for each key
  pc,        \* where each load is, once its operation has begun
  request,   \* what it was asked for
  got,       \* what it has read
  floor,     \* history: schema version at the last invalidation of each key
  late       \* history: generations that were retired before a load of theirs looked

cacheVars == <<cached, order, fresh, sharing>>
loadVars == <<pc, request, got>>
historyVars == <<floor, late>>
mvars == <<vars, metadataVars, cacheVars, loadVars, historyVars>>

CacheInit ==
  /\ MetadataOperationsInit
  /\ cached = [k \in Key |-> NoValue]
  /\ order = <<>>
  /\ fresh = {}
  /\ sharing = [k \in Key |-> {}]
  /\ pc = [q \in QueryId |-> "idle"]
  /\ request = [q \in QueryId |-> NoRequest]
  /\ got = [q \in QueryId |-> NoValue]
  /\ floor = [k \in Key |-> 0]
  /\ late = {}

-----------------------------------------------------------------------------
(* The cache.                                                              *)

\* The order with some keys taken out, put together from its beginnings.
Without(keys) ==
  LET kept[n \in 0..Len(order)] ==
        IF n = 0 THEN <<>>
        ELSE IF order[n] \in keys THEN kept[n - 1] ELSE Append(kept[n - 1], order[n])
  IN  kept[Len(order)]
Touch(k) == Append(Without({k}), k)
InOrder == {order[i] : i \in DOMAIN order}

\* Mutant: the key keeps its place in the order.
RemoveKeyFromMaps(k) ==
  /\ cached' = [cached EXCEPT ![k] = NoValue]
  /\ fresh' = fresh \ {k}
  /\ UNCHANGED order

RemoveKey(k) ==
  /\ cached' = [cached EXCEPT ![k] = NoValue]
  /\ fresh' = fresh \ {k}
  /\ order' = Without({k})

\* A new key beyond the capacity displaces the least recently used one.
Insert(k, v) ==
  LET full == k \notin InOrder /\ Len(order) >= MaxEntries
      evicted == IF full THEN {Head(order)} ELSE {} IN
  /\ cached' = [j \in Key |-> IF j = k THEN v ELSE IF j \in evicted THEN NoValue ELSE cached[j]]
  /\ fresh' = (fresh \ evicted) \cup {k}
  /\ order' = Append(Without(evicted \cup {k}), k)

\* Mutant: loads in flight keep their token.
ClearConnectionKeepingTokens(s) ==
  LET keys == {k \in Key : k.source = s} IN
  /\ cached' = [k \in Key |-> IF k \in keys THEN NoValue ELSE cached[k]]
  /\ order' = Without(keys)
  /\ fresh' = fresh \ keys
  /\ floor' = [k \in Key |-> IF k \in keys THEN schema ELSE floor[k]]
  /\ UNCHANGED <<sharing, late>>

ClearConnection(s) ==
  LET keys == {k \in Key : k.source = s} IN
  /\ cached' = [k \in Key |-> IF k \in keys THEN NoValue ELSE cached[k]]
  /\ order' = Without(keys)
  /\ fresh' = fresh \ keys
  /\ sharing' = [k \in Key |-> IF k \in keys THEN {} ELSE sharing[k]]
  /\ floor' = [k \in Key |-> IF k \in keys THEN schema ELSE floor[k]]
  /\ UNCHANGED late

-----------------------------------------------------------------------------
(* A load.                                                                 *)

Goto(q, label) == pc' = [pc EXCEPT ![q] = label]

\* The load returns and drops its operation.
EndLoad(l) ==
  /\ EndMetadataOperation(l)
  /\ Goto(l.query, "idle")
  /\ request' = [request EXCEPT ![l.query] = NoRequest]
  /\ got' = [got EXCEPT ![l.query] = NoValue]

BeginLoad(q, k, force) ==
  /\ BeginMetadataOperation(k.source, q)
  /\ Goto(q, "looking")
  /\ request' = [request EXCEPT ![q] = [key |-> k, force |-> force]]
  /\ UNCHANGED <<cacheVars, got, historyVars>>

\* A lease that is refused ends the load.
LoadWaits(l) ==
  /\ Wait(l)
  /\ IF l \in registered' THEN UNCHANGED <<pc, request>>
     ELSE Goto(l.query, "idle") /\ request' = [request EXCEPT ![l.query] = NoRequest]
  /\ UNCHANGED <<cacheVars, got, historyVars>>

\* A fresh entry answers without reading the database.
Hit(l) ==
  LET k == request[l.query].key IN
  /\ pc[l.query] = "looking"
  /\ ~request[l.query].force
  /\ k \in fresh
  /\ order' = Touch(k)
  /\ EndLoad(l)
  /\ UNCHANGED <<cached, fresh, sharing, historyVars>>

\* An expired entry is dropped; a forced refresh drops entry and token, so
\* that it shares with no load that looked before it.
Miss(l) ==
  LET q == l.query
      k == request[q].key
      force == request[q].force IN
  /\ pc[q] = "looking"
  /\ force \/ k \notin fresh
  /\ RemoveKey(k)
  /\ sharing' = [sharing EXCEPT ![k] = IF force THEN {q} ELSE @ \cup {q}]
  /\ Goto(q, "fetching")
  /\ floor' = IF force THEN [floor EXCEPT ![k] = schema] ELSE floor
  /\ late' = IF RegistryOpen(l) THEN late ELSE late \cup {l.generation}
  /\ UNCHANGED <<vars, metadataVars, request, got>>

\* The driver the lease was taken with is asked, retired or not; it may fail.
Fetch(l) ==
  /\ pc[l.query] = "fetching"
  /\ got' \in {[got EXCEPT ![l.query] = [version |-> schema, generation |-> l.generation]],
               got}
  /\ Goto(l.query, "storing")
  /\ UNCHANGED <<vars, metadataVars, cacheVars, request, historyVars>>

\* Mutant: the token stays pending when its last holder is done.
StoreKeepingToken(l) ==
  LET q == l.query
      k == request[q].key IN
  /\ pc[q] = "storing"
  /\ IF q \in sharing[k] /\ got[q] # NoValue
       THEN Insert(k, got[q])
       ELSE UNCHANGED <<cached, order, fresh>>
  /\ EndLoad(l)
  /\ UNCHANGED <<sharing, historyVars>>

Store(l) ==
  LET q == l.query
      k == request[q].key IN
  /\ pc[q] = "storing"
  /\ IF q \in sharing[k] /\ got[q] # NoValue
       THEN Insert(k, got[q])
       ELSE UNCHANGED <<cached, order, fresh>>
  /\ sharing' = [sharing EXCEPT ![k] = @ \ {q}]
  /\ EndLoad(l)
  /\ UNCHANGED historyVars

-----------------------------------------------------------------------------
(* What happens around the loads.                                          *)

\* Commands clear a source after a disconnect, an idle reclaim, an edit, a deletion or DDL
\* statement, at some later moment; a clear may therefore come at any time.
Invalidate(s) ==
  /\ ClearConnection(s)
  /\ UNCHANGED <<vars, metadataVars, loadVars>>

ClearForAttempt(s) ==
  /\ s \in pending \ emptied
  /\ ClearConnection(s)
  /\ emptied' = emptied \cup {s}
  /\ UNCHANGED <<vars, schema, waiting, loadVars>>

Expire(k) ==
  /\ k \in fresh
  /\ fresh' = fresh \ {k}
  /\ UNCHANGED <<vars, metadataVars, cached, order, sharing, loadVars, historyVars>>

CacheNext ==
  \/ \E q \in QueryId, k \in Key, force \in BOOLEAN : BeginLoad(q, k, force)
  \/ \E l \in waiting : LoadWaits(l)
  \/ \E l \in Underway : Hit(l) \/ Miss(l) \/ Fetch(l) \/ Store(l)
  \/ \E s \in Source : Invalidate(s) \/ ClearForAttempt(s)
  \/ \E k \in Key : Expire(k)
  \/ SurroundingStep /\ UNCHANGED <<cacheVars, loadVars, historyVars>>

CacheSpec == CacheInit /\ [][CacheNext]_mvars

-----------------------------------------------------------------------------
(* Properties.                                                             *)

(* Every variable has its type, and a load in flight is exactly one that    *)
(* has an operation on the source of its key: only loads that have looked   *)
(* and not returned hold a token, and only the token of their key.          *)
CacheTypeOK ==
  /\ MetadataTypeOK
  /\ cached \in [Key -> Value \cup {NoValue}]
  /\ fresh \subseteq Key
  /\ sharing \in [Key -> SUBSET QueryId]
  /\ pc \in [QueryId -> {"idle", "looking", "fetching", "storing"}]
  /\ request \in [QueryId -> [key : Key, force : BOOLEAN] \cup {NoRequest}]
  /\ got \in [QueryId -> Value \cup {NoValue}]
  /\ floor \in [Key -> {0} \cup SchemaVersion]
  /\ late \subseteq Generation
  /\ \A q \in QueryId : pc[q] # "idle" => \E l \in registered : l.query = q
  /\ \A l \in registered : /\ request[l.query].key \in Key
                           /\ request[l.query].key.source = l.source
  /\ \A l \in waiting : pc[l.query] = "looking"
  /\ \A k \in Key : \A q \in sharing[k] : /\ pc[q] \in {"fetching", "storing"}
                                         /\ request[q].key = k

(* The order, the timestamps and the maps stay in step within the capacity: *)
(* whatever is cached can be evicted, and nothing occupies a place twice or *)
(* without a value.                                                         *)
CacheInStep ==
  /\ Len(order) <= MaxEntries
  /\ \A i, j \in DOMAIN order : order[i] = order[j] => i = j
  /\ InOrder = {k \in Key : cached[k] # NoValue}
  /\ fresh \subseteq InOrder

(* An invalidation is a barrier: once a key was cleared or forced, neither  *)
(* what is cached for it nor what a load may still store was read before,   *)
(* so a refresh after a DDL statement shows its effect.                     *)
InvalidationIsBarrier ==
  \A k \in Key :
    /\ cached[k] # NoValue => cached[k].version >= floor[k]
    /\ \A q \in sharing[k] : got[q] # NoValue => got[q].version >= floor[k]

(* What a live source is shown was read over its present connection, never  *)
(* left over from an earlier one, unless an operation whose connection had  *)
(* been retired under it looked into the cache afterwards.                  *)
ServesPresentConnection ==
  \A k \in Key :
    (cached[k] # NoValue /\ k.source \in LiveSources)
      => cached[k].generation = live[k.source] \/ cached[k].generation \in late
=============================================================================
