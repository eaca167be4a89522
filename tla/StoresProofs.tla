---------------------------- MODULE StoresProofs ----------------------------
(***************************************************************************)
(* What is kept between the steps of long operations, for every number of    *)
(* connections, loads, saves, keys, launches, groups, documents and drafts:  *)
(* the metadata cache serves what was read after the last invalidation and   *)
(* over the present connection, passwords and secrets stay readable, a store *)
(* that was migrated is whole, groups agree with connections, files and      *)
(* drafts are saved as they were seen; each alone and side by side.          *)
(***************************************************************************)
EXTENDS MCStores, ConnectionManagerProofs

-----------------------------------------------------------------------------
(* The metadata cache.                                                     *)

USE KeyAssumption

\* The steps of the cache are steps of metadata operations.
LEMMA CacheStepIsMetadataStep == CacheTypeOK /\ [CacheNext]_mvars => MetadataStep
<1> SUFFICES ASSUME CacheTypeOK, [CacheNext]_mvars PROVE MetadataStep
  OBVIOUS
<1> USE DEF MetadataStep
<1>1. ASSUME NEW q \in QueryId, NEW k \in Key, NEW force \in BOOLEAN, BeginLoad(q, k, force)
      PROVE  MetadataStep
  <2>1. k.source \in Source
    BY DEF Key
  <2> QED
    BY <1>1, <2>1 DEF BeginLoad
<1>2. ASSUME NEW l \in waiting, LoadWaits(l) PROVE MetadataStep
  BY <1>2 DEF LoadWaits
<1>3. ASSUME NEW l \in Underway, Hit(l) \/ Miss(l) \/ Fetch(l) \/ Store(l) PROVE MetadataStep
  BY <1>3 DEF Hit, Miss, Fetch, Store, EndLoad
<1>4. ASSUME NEW s \in Source, Invalidate(s) \/ ClearForAttempt(s) PROVE MetadataStep
  BY <1>4 DEF Invalidate, ClearForAttempt
<1>5. ASSUME NEW k \in Key, Expire(k) PROVE MetadataStep
  BY <1>5 DEF Expire
<1> QED
  BY <1>1, <1>2, <1>3, <1>4, <1>5 DEF CacheNext, mvars

-----------------------------------------------------------------------------
(* Types, and who holds a token.                                           *)

LEMMA CacheTypeInit == CacheInit => CacheTypeOK
BY MetadataTypeInit
   DEF CacheInit, CacheTypeOK, MetadataOperationsInit, Init

\* Taking a key out, or putting one in, keeps the shape of the maps.
LEMMA EntriesType ==
  ASSUME CacheTypeOK, NEW k \in Key, NEW v \in Value, RemoveKey(k) \/ Insert(k, v)
  PROVE  cached' \in [Key -> Value \cup {NoValue}] /\ fresh' \subseteq Key
BY DEF CacheTypeOK, RemoveKey, Insert

LEMMA CacheTypeNext == CacheTypeOK /\ [CacheNext]_mvars => CacheTypeOK'
<1> SUFFICES ASSUME CacheTypeOK, [CacheNext]_mvars PROVE CacheTypeOK'
  OBVIOUS
<1> MetadataTypeOK /\ MetadataTypeOK'
  BY CacheStepIsMetadataStep, MetadataTypeNext DEF CacheTypeOK
<1>0. \A l \in registered : l \in Lease /\ l.source \in Source /\ l.query \in QueryId
                            /\ l.generation \in Generation
  BY DEF MetadataTypeOK, TypeOK, Lease
<1>a. waiting \subseteq registered /\ \A l, m \in registered : l.query = m.query => l = m
  BY DEF MetadataTypeOK
<1> USE DEF CacheTypeOK
<1>1. ASSUME NEW q \in QueryId, NEW k \in Key, NEW force \in BOOLEAN, BeginLoad(q, k, force)
      PROVE  CacheTypeOK'
  <2> DEFINE l == [source |-> k.source, generation |-> live[k.source], query |-> q]
  <2>1. registered' = registered \cup {l} /\ waiting' = waiting \cup {l}
    BY <1>1 DEF BeginLoad, BeginMetadataOperation, BeginQuery
  <2>2. \A m \in registered : m.query # q
    BY <1>1 DEF BeginLoad, BeginMetadataOperation
  <2>3. pc[q] = "idle"
    BY <2>2
  <2>4. l.query = q /\ l.source = k.source
    OBVIOUS
  <2> HIDE DEF l
  <2>5. /\ pc' = [pc EXCEPT ![q] = "looking"]
        /\ request' = [request EXCEPT ![q] = [key |-> k, force |-> force]]
        /\ UNCHANGED <<cached, order, fresh, sharing, got, floor, late>>
    BY <1>1 DEF BeginLoad, Goto, cacheVars, historyVars
  <2>6. /\ request' \in [QueryId -> [key : Key, force : BOOLEAN] \cup {NoRequest}]
        /\ pc' \in [QueryId -> {"idle", "looking", "fetching", "storing"}]
    BY <2>5
  <2>7. \A r \in QueryId : pc'[r] # "idle" => \E m \in registered' : m.query = r
    BY <2>1, <2>4, <2>5
  <2>8. \A m \in registered' : request'[m.query].key \in Key /\ request'[m.query].key.source = m.source
    BY <1>0, <2>1, <2>2, <2>4, <2>5
  <2>9. \A m \in waiting' : pc'[m.query] = "looking"
    BY <1>0, <1>a, <2>1, <2>2, <2>4, <2>5
  <2>10. \A j \in Key : \A r \in sharing'[j] : /\ pc'[r] \in {"fetching", "storing"}
                                               /\ request'[r].key = j
    BY <2>3, <2>5
  <2> QED
    BY <2>5, <2>6, <2>7, <2>8, <2>9, <2>10
<1>2. ASSUME NEW l \in waiting, LoadWaits(l) PROVE CacheTypeOK'
  <2>1. /\ \/ registered' = registered /\ waiting' \in {waiting, waiting \ {l}}
           \/ registered' = registered \ {l} /\ waiting' = waiting \ {l}
        /\ UNCHANGED <<cached, order, fresh, sharing, got, floor, late>>
    BY <1>2, WaitSteps DEF LoadWaits, cacheVars, historyVars
  <2>2. l \in registered /\ pc[l.query] = "looking"
    BY <1>a
  <2>3. CASE l \in registered' /\ UNCHANGED <<pc, request>>
    BY <2>1, <2>2, <2>3
  <2>4. CASE /\ l \notin registered'
             /\ pc' = [pc EXCEPT ![l.query] = "idle"]
             /\ request' = [request EXCEPT ![l.query] = NoRequest]
    <3>1. registered' = registered \ {l} /\ waiting' = waiting \ {l}
      BY <2>1, <2>2, <2>4
    <3>2. \A m \in registered' : m.query # l.query
      BY <1>a, <2>2, <3>1
    <3> QED
      BY <1>0, <1>a, <2>1, <2>2, <2>4, <3>1, <3>2
  <2> QED
    BY <1>2, <2>3, <2>4 DEF LoadWaits, Goto
\* A load that returns holds no token any more.
<1>3. ASSUME NEW l \in Underway, EndLoad(l), UNCHANGED <<floor, late>>,
             cached' \in [Key -> Value \cup {NoValue}], fresh' \subseteq Key,
             sharing' \in [Key -> SUBSET QueryId],
             \A k \in Key : sharing'[k] \subseteq sharing[k] /\ l.query \notin sharing'[k]
      PROVE  CacheTypeOK'
  <2>1. registered' = registered \ {l} /\ UNCHANGED waiting
    BY <1>3, LeaseEnds DEF EndLoad, EndMetadataOperation, Underway, MetadataTypeOK, metadataVars
  <2>2. /\ pc' = [pc EXCEPT ![l.query] = "idle"]
        /\ request' = [request EXCEPT ![l.query] = NoRequest]
        /\ got' = [got EXCEPT ![l.query] = NoValue]
    BY <1>3 DEF EndLoad, Goto
  <2>3. l \in registered /\ l \notin waiting /\ l.query \in QueryId
    BY <1>0 DEF Underway
  <2>4. \A m \in registered' : m.query # l.query
    BY <1>a, <2>1, <2>3
  <2>5. \A q \in QueryId : pc'[q] # "idle" => \E m \in registered' : m.query = q
    BY <2>1, <2>2
  <2>6. \A m \in registered' : request'[m.query].key \in Key /\ request'[m.query].key.source = m.source
    BY <1>0, <2>1, <2>2, <2>4
  <2>7. \A m \in waiting' : pc'[m.query] = "looking"
    BY <1>0, <1>a, <2>1, <2>2, <2>3
  <2>8. \A k \in Key : \A q \in sharing'[k] : /\ pc'[q] \in {"fetching", "storing"}
                                              /\ request'[q].key = k
    BY <1>3, <2>2
  <2> QED
    BY <1>3, <2>2, <2>3, <2>5, <2>6, <2>7, <2>8
<1>4. ASSUME NEW l \in Underway, Hit(l) PROVE CacheTypeOK'
  <2>1. \A k \in Key : l.query \notin sharing[k]
    BY <1>4 DEF Hit
  <2> QED
    BY <1>3, <1>4, <2>1 DEF Hit, historyVars
<1>5. ASSUME NEW l \in Underway, Miss(l) PROVE CacheTypeOK'
  <2> DEFINE q == l.query
             k == request[q].key
  <2>1. l \in registered /\ l \notin waiting /\ q \in QueryId /\ k \in Key /\ k.source \in Source
    BY <1>0 DEF Underway, Key
  <2>2. RemoveKey(k) /\ pc' = [pc EXCEPT ![q] = "fetching"]
        /\ UNCHANGED <<registered, waiting, request, got>>
    BY <1>5 DEF Miss, Goto, vars, queryVars, metadataVars
  <2>3. sharing' = [sharing EXCEPT ![k] = IF request[q].force THEN {q} ELSE @ \cup {q}]
    BY <1>5 DEF Miss
  <2>4. floor' \in [Key -> {0} \cup SchemaVersion]
    BY <1>5, <2>1 DEF Miss, MetadataTypeOK
  <2>5. late' \subseteq Generation
    BY <1>0, <1>5, <2>1 DEF Miss
  <2>6. cached' \in [Key -> Value \cup {NoValue}] /\ fresh' \subseteq Key
    BY <2>1, <2>2 DEF RemoveKey
  <2>7. sharing' \in [Key -> SUBSET QueryId]
    BY <2>1, <2>3
  <2>8. \A j \in Key : \A r \in sharing'[j] : /\ pc'[r] \in {"fetching", "storing"}
                                              /\ request'[r].key = j
    BY <2>1, <2>2, <2>3
  <2>9. \A m \in waiting : m.query # q
    BY <1>a, <2>1
  <2> HIDE DEF q, k
  <2>10. /\ pc' \in [QueryId -> {"idle", "looking", "fetching", "storing"}]
         /\ \A r \in QueryId : pc'[r] # "idle" => \E m \in registered' : m.query = r
         /\ \A m \in waiting' : pc'[m.query] = "looking"
    <3>1. l.query = q
      BY DEF q
    <3> QED
      BY <1>0, <1>a, <2>1, <2>2, <2>9, <3>1
  <2> QED
    BY <2>2, <2>4, <2>5, <2>6, <2>7, <2>8, <2>10
<1>6. ASSUME NEW l \in Underway, Fetch(l) PROVE CacheTypeOK'
  <2>1. l \in registered /\ l \notin waiting /\ l.query \in QueryId
    BY <1>0 DEF Underway
  <2>2. [version |-> schema, generation |-> l.generation] \in Value
    BY <1>0, <2>1 DEF Value, MetadataTypeOK
  <2>3. got' \in [QueryId -> Value \cup {NoValue}]
    BY <1>6, <2>1, <2>2 DEF Fetch
  <2>4. pc' = [pc EXCEPT ![l.query] = "storing"] /\ pc[l.query] = "fetching"
    BY <1>6 DEF Fetch, Goto
  <2>5. UNCHANGED <<registered, waiting, cached, order, fresh, sharing, request, floor, late>>
    BY <1>6 DEF Fetch, vars, queryVars, metadataVars, cacheVars, historyVars
  <2> QED
    BY <1>0, <1>a, <2>1, <2>3, <2>4, <2>5
<1>7. ASSUME NEW l \in Underway, Store(l) PROVE CacheTypeOK'
  <2> DEFINE q == l.query
             k == request[q].key
  <2>1. l \in registered /\ q \in QueryId /\ k \in Key
    BY <1>0 DEF Underway
  <2>2. cached' \in [Key -> Value \cup {NoValue}] /\ fresh' \subseteq Key
    BY <1>7, <2>1, EntriesType DEF Store
  <2>3. sharing' = [sharing EXCEPT ![k] = @ \ {q}]
    BY <1>7 DEF Store
  <2>4. sharing' \in [Key -> SUBSET QueryId]
    BY <2>1, <2>3
  <2>5. \A j \in Key : sharing'[j] \subseteq sharing[j] /\ q \notin sharing'[j]
    BY <2>1, <2>3
  <2> QED
    BY <1>3, <1>7, <2>2, <2>4, <2>5 DEF Store, historyVars
<1>8. ASSUME NEW s \in Source, ClearConnection(s), UNCHANGED <<vars, waiting, loadVars>>
      PROVE  CacheTypeOK'
  <2>1. /\ cached' \in [Key -> Value \cup {NoValue}]
        /\ fresh' \subseteq Key
        /\ sharing' \in [Key -> SUBSET QueryId]
        /\ floor' \in [Key -> {0} \cup SchemaVersion]
        /\ UNCHANGED late
        /\ \A k \in Key : sharing'[k] \subseteq sharing[k]
    BY <1>8 DEF ClearConnection, MetadataTypeOK
  <2> QED
    BY <1>8, <2>1 DEF vars, queryVars, loadVars
<1>9. ASSUME NEW s \in Source, Invalidate(s) \/ ClearForAttempt(s) PROVE CacheTypeOK'
  BY <1>8, <1>9 DEF Invalidate, ClearForAttempt, metadataVars
<1>10. ASSUME NEW k \in Key, Expire(k) PROVE CacheTypeOK'
  BY <1>10 DEF Expire, vars, queryVars, metadataVars, loadVars, historyVars
<1>11. CASE SurroundingStep /\ UNCHANGED <<cacheVars, loadVars, historyVars>>
  <2>1. UNCHANGED <<registered, waiting>>
    BY <1>11, SurroundingSteps
  <2> QED
    BY <1>11, <2>1 DEF cacheVars, loadVars, historyVars
<1>12. CASE UNCHANGED mvars
  BY <1>12 DEF mvars, vars, queryVars, metadataVars, cacheVars, loadVars, historyVars
<1> QED
  BY <1>1, <1>2, <1>4, <1>5, <1>6, <1>7, <1>9, <1>10, <1>11, <1>12 DEF CacheNext

(* Every reachable state is well typed, and a token is held only by loads   *)
(* of its key that have looked and not returned.                           *)
THEOREM CacheTypeCorrect == CacheSpec => []CacheTypeOK
BY CacheTypeInit, CacheTypeNext, PTL DEF CacheSpec

-----------------------------------------------------------------------------
(* Invalidation.                                                           *)

\* A load has read nothing before it has read, and no invalidation lies in
\* the future.
BarrierInvariant ==
  /\ \A k \in Key : floor[k] <= schema
  /\ \A q \in QueryId : got[q] # NoValue => pc[q] = "storing"
  /\ InvalidationIsBarrier

LEMMA BarrierNext ==
  CacheTypeOK /\ BarrierInvariant /\ [CacheNext]_mvars => BarrierInvariant'
<1> SUFFICES ASSUME CacheTypeOK, BarrierInvariant, [CacheNext]_mvars PROVE BarrierInvariant'
  OBVIOUS
<1>0. \A l \in registered : l.source \in Source /\ l.query \in QueryId
  BY DEF CacheTypeOK, MetadataTypeOK, TypeOK, Lease
<1>b. \A k \in Key : k.source \in Source
  BY DEF Key
<1>c. \A k \in Key : floor[k] \in 0..MaxSchema
  <2>1. {0} \cup SchemaVersion \subseteq 0..MaxSchema
    BY SchemaAssumption DEF SchemaVersion
  <2> QED
    BY <2>1 DEF CacheTypeOK
<1>a. /\ waiting \subseteq registered
      /\ schema \in 1..MaxSchema
      /\ \A k \in Key : k.source \in Source /\ floor[k] \in 0..MaxSchema
      /\ got \in [QueryId -> Value \cup {NoValue}]
      /\ pc \in [QueryId -> {"idle", "looking", "fetching", "storing"}]
      /\ \A k \in Key : \A q \in sharing[k] : q \in QueryId /\ request[q].key = k
      /\ cached \in [Key -> Value \cup {NoValue}]
  BY <1>b, <1>c DEF CacheTypeOK, MetadataTypeOK, SchemaVersion
<1> USE DEF BarrierInvariant, InvalidationIsBarrier
<1>1. ASSUME NEW q \in QueryId, NEW k \in Key, NEW force \in BOOLEAN, BeginLoad(q, k, force)
      PROVE  BarrierInvariant'
  <2>1. pc[q] = "idle"
    BY <1>1 DEF BeginLoad, BeginMetadataOperation, CacheTypeOK
  <2> QED
    BY <1>1, <1>a, <2>1 DEF BeginLoad, BeginMetadataOperation, Goto, cacheVars, historyVars
<1>2. ASSUME NEW l \in waiting, LoadWaits(l) PROVE BarrierInvariant'
  <2>1. pc[l.query] = "looking"
    BY DEF CacheTypeOK
  <2> QED
    BY <1>2, <1>a, <2>1, WaitSteps DEF LoadWaits, Goto, cacheVars, historyVars, CacheTypeOK
<1>3. ASSUME NEW l \in Underway, Hit(l) PROVE BarrierInvariant'
  BY <1>0, <1>3, <1>a
     DEF Underway, Hit, EndLoad, EndMetadataOperation, Goto, metadataVars, historyVars
<1>4. ASSUME NEW l \in Underway, Miss(l) PROVE BarrierInvariant'
  <2> DEFINE q == l.query
             k == request[q].key
  <2>1. l \in registered /\ q \in QueryId /\ k \in Key /\ pc[q] = "looking" /\ got[q] = NoValue
    BY <1>0, <1>4 DEF Underway, Miss, CacheTypeOK
  <2>2. /\ cached' = [cached EXCEPT ![k] = NoValue]
        /\ pc' = [pc EXCEPT ![q] = "fetching"]
        /\ sharing' = [sharing EXCEPT ![k] = IF request[q].force THEN {q} ELSE @ \cup {q}]
        /\ floor' = IF request[q].force THEN [floor EXCEPT ![k] = schema] ELSE floor
        /\ UNCHANGED <<schema, got>>
    BY <1>4 DEF Miss, RemoveKey, Goto, metadataVars
  <2> HIDE DEF q, k
  <2>3. \A j \in Key : floor'[j] <= schema'
    BY <1>a, <2>1, <2>2
  <2>4. \A j \in Key : cached'[j] # NoValue => cached'[j].version >= floor'[j]
    BY <1>a, <2>1, <2>2 DEF CacheTypeOK
  <2>5. \A j \in Key : \A r \in sharing'[j] : got'[r] # NoValue => got'[r].version >= floor'[j]
    BY <1>a, <2>1, <2>2 DEF CacheTypeOK
  <2>6. \A r \in QueryId : got'[r] # NoValue => pc'[r] = "storing"
    BY <1>a, <2>1, <2>2
  <2> QED
    BY <2>3, <2>4, <2>5, <2>6
<1>5. ASSUME NEW l \in Underway, Fetch(l) PROVE BarrierInvariant'
  <2> DEFINE v == [version |-> schema, generation |-> l.generation]
  <2>1. l.query \in QueryId /\ request[l.query].key.source = l.source
    BY <1>0 DEF Underway, CacheTypeOK
  <2>2. /\ got' \in {[got EXCEPT ![l.query] = v], got}
        /\ pc' = [pc EXCEPT ![l.query] = "storing"]
        /\ UNCHANGED <<schema, cached, sharing, floor>>
    BY <1>5 DEF Fetch, Goto, metadataVars, cacheVars, historyVars
  <2>3. v.version = schema
    OBVIOUS
  <2> HIDE DEF v
  <2>4. \A k \in Key : \A q \in sharing[k] : got'[q] # NoValue => got'[q].version >= floor[k]
    BY <1>0, <1>a, <2>1, <2>2, <2>3
  <2>5. \A q \in QueryId : got'[q] # NoValue => pc'[q] = "storing"
    BY <1>a, <2>1, <2>2
  <2> QED
    BY <2>2, <2>4, <2>5
<1>6. ASSUME NEW l \in Underway, Store(l) PROVE BarrierInvariant'
  <2> DEFINE q == l.query
             k == request[q].key
  <2>1. l \in registered /\ q \in QueryId /\ k \in Key
    BY <1>0 DEF Underway, CacheTypeOK
  <2>2. /\ \/ q \in sharing[k] /\ got[q] # NoValue /\ Insert(k, got[q])
           \/ UNCHANGED cached
        /\ sharing' = [sharing EXCEPT ![k] = @ \ {q}]
        /\ got' = [got EXCEPT ![q] = NoValue]
        /\ pc' = [pc EXCEPT ![q] = "idle"]
        /\ UNCHANGED <<schema, floor>>
    BY <1>6 DEF Store, EndLoad, EndMetadataOperation, Goto, metadataVars, historyVars
  <2> HIDE DEF q, k
  <2>3. \A j \in Key : cached'[j] # NoValue => cached'[j].version >= floor'[j]
    <3>1. CASE q \in sharing[k] /\ got[q] # NoValue /\ Insert(k, got[q])
      <4>1. \A j \in Key : cached'[j] \in {cached[j], NoValue} \/ (j = k /\ cached'[j] = got[q])
        BY <3>1, <1>a DEF Insert
      <4> QED
        BY <2>1, <2>2, <3>1, <4>1
    <3>2. CASE UNCHANGED cached
      BY <2>2, <3>2
    <3> QED
      BY <2>2, <3>1, <3>2
  <2>4. \A j \in Key : \A r \in sharing'[j] : r \in sharing[j] /\ (got'[r] # NoValue => got'[r] = got[r])
    BY <1>a, <2>1, <2>2 DEF CacheTypeOK
  <2>5. \A r \in QueryId : got'[r] # NoValue => pc'[r] = "storing"
    BY <1>a, <2>1, <2>2
  <2> QED
    BY <2>2, <2>3, <2>4, <2>5
<1>7. ASSUME NEW s \in Source, Invalidate(s) \/ ClearForAttempt(s) PROVE BarrierInvariant'
  <2>1. ClearConnection(s) /\ UNCHANGED <<schema, got, pc>>
    BY <1>7 DEF Invalidate, ClearForAttempt, metadataVars, loadVars
  <2>2. \A k \in Key :
          IF k.source = s
            THEN cached'[k] = NoValue /\ sharing'[k] = {} /\ floor'[k] = schema
            ELSE cached'[k] = cached[k] /\ sharing'[k] = sharing[k] /\ floor'[k] = floor[k]
    BY <2>1 DEF ClearConnection
  <2> QED
    BY <1>a, <2>1, <2>2
<1>8. ASSUME NEW k \in Key, Expire(k) PROVE BarrierInvariant'
  BY <1>8 DEF Expire, metadataVars, loadVars, historyVars
<1>9. CASE SurroundingStep /\ UNCHANGED <<cacheVars, loadVars, historyVars>>
  <2>1. schema' >= schema
    BY <1>9, <1>a
       DEF SurroundingStep, ConnectionStep, AdmitAttempt, FinishAttempt, EndSession, ChangeSchema
  <2>2. schema' \in 1..MaxSchema
    BY <1>9, EmptiedPending DEF CacheTypeOK, SchemaVersion
  <2> QED
    BY <1>9, <1>a, <2>1, <2>2 DEF cacheVars, loadVars, historyVars
<1>10. CASE UNCHANGED mvars
  BY <1>10 DEF mvars, metadataVars, cacheVars, loadVars, historyVars
<1> QED
  BY <1>1, <1>2, <1>3, <1>4, <1>5, <1>6, <1>7, <1>8, <1>9, <1>10 DEF CacheNext

(* Once a key was cleared or forced, nothing read before is served for it,  *)
(* however many loads were on their way and whichever of them shared.      *)
THEOREM BarrierCorrect == CacheSpec => []InvalidationIsBarrier
<1>1. CacheInit => BarrierInvariant
  BY DEF CacheInit, MetadataOperationsInit, BarrierInvariant, InvalidationIsBarrier, Key
<1>2. BarrierInvariant => InvalidationIsBarrier
  BY DEF BarrierInvariant
<1> QED
  BY <1>1, <1>2, CacheTypeCorrect, BarrierNext, PTL DEF CacheSpec

-----------------------------------------------------------------------------
(* Which connection a cached value was read over.                          *)

\* A value read over connection g may be stored for s if it describes s; the
\* excuse is that the load looked late.
Storable(s, g) == g \in late \/ Describes(s, g)

\* The same after a step, of values that are named before it.
StorableAfter(s, g) ==
  /\ s \in Source /\ live'[s] # NoGeneration => g = live'[s] \/ g \in late'
  /\ s \in emptied' => g \in late'

PresentInvariant ==
  /\ \A k \in Key : cached[k] # NoValue => Storable(k.source, cached[k].generation)
  /\ \A l \in registered, k \in Key : l.query \in sharing[k] => Storable(k.source, l.generation)
  /\ \A l \in registered : got[l.query] # NoValue => got[l.query].generation = l.generation

LEMMA PresentAfter ==
  ASSUME \A k \in Key : cached'[k] # NoValue => StorableAfter(k.source, cached'[k].generation),
         \A l \in registered', k \in Key :
           l.query \in sharing'[k] => StorableAfter(k.source, l.generation),
         \A l \in registered' : got'[l.query] # NoValue => got'[l.query].generation = l.generation
  PROVE  PresentInvariant'
BY DEF PresentInvariant, Storable, StorableAfter, Describes, LiveSources

LEMMA SessionsKeepStorable ==
  ASSUME MetadataTypeOK, SurroundingStep, UNCHANGED late,
         NEW s \in Source, NEW g, Storable(s, g)
  PROVE  StorableAfter(s, g)
BY SessionsKeepDescribing DEF Storable, StorableAfter, Describes, LiveSources

\* Nothing else changes which sources are live.
LEMMA FrameStorable ==
  ASSUME UNCHANGED <<live, emptied>>, late \subseteq late', NEW s, NEW g, Storable(s, g)
  PROVE  StorableAfter(s, g)
BY DEF Storable, StorableAfter, Describes, LiveSources

LEMMA PresentNext ==
  CacheTypeOK /\ StatusMatchesRuntime /\ BarrierInvariant /\ PresentInvariant /\ [CacheNext]_mvars
    => PresentInvariant'
<1> SUFFICES ASSUME CacheTypeOK, StatusMatchesRuntime, BarrierInvariant, PresentInvariant,
                    [CacheNext]_mvars
             PROVE  PresentInvariant'
  OBVIOUS
<1>0. \A l \in registered : /\ l.source \in Source /\ l.query \in QueryId
                            /\ l.generation \in Generation
                            /\ request[l.query].key \in Key
                            /\ request[l.query].key.source = l.source
  BY DEF CacheTypeOK, MetadataTypeOK, TypeOK, Lease
<1>a. /\ waiting \subseteq registered
      /\ \A l, m \in registered : l.query = m.query => l = m
      /\ got \in [QueryId -> Value \cup {NoValue}]
      /\ \A k \in Key : \A q \in sharing[k] :
           q \in QueryId /\ request[q].key = k /\ pc[q] \in {"fetching", "storing"}
      /\ sharing \in [Key -> SUBSET QueryId]
      /\ cached \in [Key -> Value \cup {NoValue}]
  BY DEF CacheTypeOK, MetadataTypeOK
<1>b. \A k \in Key : k.source \in Source
  BY DEF Key
<1>c. /\ \A k \in Key : cached[k] # NoValue => Storable(k.source, cached[k].generation)
      /\ \A l \in registered, k \in Key : l.query \in sharing[k] => Storable(k.source, l.generation)
      /\ \A l \in registered : got[l.query] # NoValue => got[l.query].generation = l.generation
  BY DEF PresentInvariant
\* Most steps only take values, tokens and leases away.
<1>1. ASSUME UNCHANGED <<live, emptied>>, late \subseteq late',
             \A k \in Key : cached'[k] \in {cached[k], NoValue} /\ sharing'[k] \subseteq sharing[k],
             registered' \subseteq registered,
             \A l \in registered' : got'[l.query] \in {got[l.query], NoValue}
      PROVE  PresentInvariant'
  <2>1. \A k \in Key : cached'[k] # NoValue => StorableAfter(k.source, cached'[k].generation)
    BY <1>1, <1>c, FrameStorable
  <2>2. \A l \in registered', k \in Key : l.query \in sharing'[k] => StorableAfter(k.source, l.generation)
    BY <1>1, <1>c, FrameStorable
  <2>3. \A l \in registered' : got'[l.query] # NoValue => got'[l.query].generation = l.generation
    BY <1>1, <1>c
  <2> QED
    BY <2>1, <2>2, <2>3, PresentAfter
<1>2. ASSUME NEW q \in QueryId, NEW k \in Key, NEW force \in BOOLEAN, BeginLoad(q, k, force)
      PROVE  PresentInvariant'
  <2> DEFINE l == [source |-> k.source, generation |-> live[k.source], query |-> q]
  <2>1. registered' = registered \cup {l} /\ UNCHANGED <<live, emptied, cached, sharing, got, late>>
    BY <1>2 DEF BeginLoad, BeginMetadataOperation, BeginQuery, cacheVars, historyVars, sessionVars
  <2>2. pc[q] = "idle"
    BY <1>2 DEF BeginLoad, BeginMetadataOperation, CacheTypeOK
  <2>3. got[q] = NoValue
    BY <2>2 DEF BarrierInvariant
  <2>4. l.query = q
    OBVIOUS
  <2> HIDE DEF l
  <2>5. \A j \in Key : q \notin sharing[j]
    BY <1>a, <2>2
  <2>6. \A j \in Key : cached'[j] # NoValue => StorableAfter(j.source, cached'[j].generation)
    BY <1>c, <2>1, FrameStorable
  <2>7. \A m \in registered', j \in Key : m.query \in sharing'[j] => StorableAfter(j.source, m.generation)
    BY <1>c, <2>1, <2>4, <2>5, FrameStorable
  <2>8. \A m \in registered' : got'[m.query] # NoValue => got'[m.query].generation = m.generation
    BY <1>c, <2>1, <2>3, <2>4
  <2> QED
    BY <2>6, <2>7, <2>8, PresentAfter
<1>3. ASSUME NEW l \in waiting, LoadWaits(l) PROVE PresentInvariant'
  BY <1>1, <1>3, WaitSteps DEF LoadWaits, cacheVars, historyVars, CacheTypeOK, sessionVars
<1>4. ASSUME NEW l \in Underway, EndLoad(l), UNCHANGED late
      PROVE  /\ UNCHANGED <<live, emptied>> /\ registered' \subseteq registered
             /\ \A m \in registered' : got'[m.query] \in {got[m.query], NoValue}
  BY <1>0, <1>4, <1>a
     DEF EndLoad, EndMetadataOperation, FinishQuery, Unregister, Underway, metadataVars, sessionVars
<1>5. ASSUME NEW l \in Underway, Hit(l) PROVE PresentInvariant'
  BY <1>1, <1>4, <1>5 DEF Hit, historyVars
<1>6. ASSUME NEW l \in Underway, Miss(l) PROVE PresentInvariant'
  <2> DEFINE q == l.query
             k == request[q].key
  <2>1. l \in registered /\ q \in QueryId /\ k \in Key /\ k.source = l.source
    BY <1>0 DEF Underway
  <2>2. /\ cached' = [cached EXCEPT ![k] = NoValue]
        /\ sharing' = [sharing EXCEPT ![k] = IF request[q].force THEN {q} ELSE @ \cup {q}]
        /\ late' = IF RegistryOpen(l) THEN late ELSE late \cup {l.generation}
        /\ UNCHANGED <<registered, got, live, emptied>>
    BY <1>6 DEF Miss, RemoveKey, metadataVars, vars, queryVars, sessionVars
  \* What the load itself reads may be stored: its connection is the present
  \* one, or it looked late.
  <2>3. StorableAfter(l.source, l.generation)
    <3>1. CASE RegistryOpen(l)
      BY <1>0, <2>1, <2>2, <3>1, OpenDescribes
         DEF StorableAfter, Describes, LiveSources, CacheTypeOK
    <3>2. CASE ~RegistryOpen(l)
      BY <2>2, <3>2 DEF StorableAfter
    <3> QED
      BY <3>1, <3>2
  <2>4. late \subseteq late'
    BY <2>2
  <2> HIDE DEF q, k
  <2>5. \A j \in Key : cached'[j] # NoValue => StorableAfter(j.source, cached'[j].generation)
    BY <1>a, <1>c, <2>1, <2>2, <2>4, FrameStorable
  <2>6. \A m \in registered', j \in Key : m.query \in sharing'[j] => StorableAfter(j.source, m.generation)
    <3>1. \A m \in registered, j \in Key :
            m.query \in sharing'[j] => m.query \in sharing[j] \/ (m.query = q /\ j = k)
      BY <1>a, <2>1, <2>2
    <3>2. \A m \in registered : m.query = q => m = l
      BY <1>a, <2>1 DEF q
    <3> QED
      BY <1>c, <2>1, <2>2, <2>3, <2>4, <3>1, <3>2, FrameStorable
  <2> QED
    BY <1>c, <2>2, <2>5, <2>6, PresentAfter
<1>7. ASSUME NEW l \in Underway, Fetch(l) PROVE PresentInvariant'
  <2> DEFINE v == [version |-> schema, generation |-> l.generation]
  <2>1. l \in registered /\ l.query \in QueryId
    BY <1>0 DEF Underway
  <2>2. /\ got' \in {[got EXCEPT ![l.query] = v], got}
        /\ UNCHANGED <<registered, live, emptied, cached, sharing, late>>
    BY <1>7 DEF Fetch, metadataVars, cacheVars, historyVars, vars, queryVars, sessionVars
  <2>3. v.generation = l.generation
    OBVIOUS
  <2> HIDE DEF v
  <2>4. \A m \in registered' : got'[m.query] # NoValue => got'[m.query].generation = m.generation
    BY <1>0, <1>a, <1>c, <2>1, <2>2, <2>3
  <2>5. \A j \in Key : cached'[j] # NoValue => StorableAfter(j.source, cached'[j].generation)
    BY <1>c, <2>2, FrameStorable
  <2>6. \A m \in registered', j \in Key : m.query \in sharing'[j] => StorableAfter(j.source, m.generation)
    BY <1>c, <2>2, FrameStorable
  <2> QED
    BY <2>4, <2>5, <2>6, PresentAfter
<1>8. ASSUME NEW l \in Underway, Store(l) PROVE PresentInvariant'
  <2> DEFINE q == l.query
             k == request[q].key
  <2>1. l \in registered /\ q \in QueryId /\ k \in Key
    BY <1>0 DEF Underway
  <2>2. /\ \/ q \in sharing[k] /\ got[q] # NoValue /\ Insert(k, got[q])
           \/ UNCHANGED cached
        /\ sharing' = [sharing EXCEPT ![k] = @ \ {q}]
        /\ EndLoad(l)
        /\ UNCHANGED late
    BY <1>8 DEF Store, historyVars
  <2>3. /\ UNCHANGED <<live, emptied>> /\ registered' \subseteq registered
        /\ \A m \in registered' : got'[m.query] \in {got[m.query], NoValue}
    BY <1>4, <2>2
  <2>4. \A j \in Key : sharing'[j] \subseteq sharing[j]
    BY <1>a, <2>2
  <2>5. got[q] # NoValue => got[q].generation = l.generation
    BY <1>c, <2>1
  <2>6. q \in sharing[k] => Storable(k.source, l.generation)
    BY <1>c, <2>1
  <2> HIDE DEF q, k
  <2>7. \A j \in Key : \/ cached'[j] \in {cached[j], NoValue}
                       \/ /\ j = k /\ cached'[j] = got[q]
                          /\ q \in sharing[k] /\ got[q] # NoValue
    BY <1>a, <2>2 DEF Insert
  <2>8. \A j \in Key : cached'[j] # NoValue => StorableAfter(j.source, cached'[j].generation)
    BY <1>c, <2>2, <2>3, <2>5, <2>6, <2>7, FrameStorable
  <2>9. \A m \in registered', j \in Key : m.query \in sharing'[j] => StorableAfter(j.source, m.generation)
    BY <1>c, <2>2, <2>3, <2>4, FrameStorable
  <2>10. \A m \in registered' : got'[m.query] # NoValue => got'[m.query].generation = m.generation
    BY <1>c, <2>3
  <2> QED
    BY <2>8, <2>9, <2>10, PresentAfter
<1>9. ASSUME NEW s \in Source, Invalidate(s) \/ ClearForAttempt(s) PROVE PresentInvariant'
  <2>1. /\ ClearConnection(s)
        /\ emptied' \in {emptied, emptied \cup {s}}
        /\ UNCHANGED <<registered, live, got, late>>
    BY <1>9 DEF Invalidate, ClearForAttempt, ClearConnection, metadataVars, loadVars, vars,
                sessionVars, queryVars
  <2>2. \A k \in Key :
          IF k.source = s
            THEN cached'[k] = NoValue /\ sharing'[k] = {}
            ELSE cached'[k] = cached[k] /\ sharing'[k] = sharing[k]
    BY <2>1 DEF ClearConnection
  <2>3. \A t \in Source : \A g : t # s /\ Storable(t, g) => StorableAfter(t, g)
    BY <2>1 DEF Storable, StorableAfter, Describes, LiveSources
  <2>4. \A k \in Key : cached'[k] # NoValue => StorableAfter(k.source, cached'[k].generation)
    BY <1>b, <1>c, <2>2, <2>3
  <2>5. \A l \in registered', k \in Key : l.query \in sharing'[k] => StorableAfter(k.source, l.generation)
    BY <1>b, <1>c, <2>1, <2>2, <2>3
  <2> QED
    BY <1>c, <2>1, <2>4, <2>5, PresentAfter
<1>10. ASSUME NEW k \in Key, Expire(k) PROVE PresentInvariant'
  BY <1>1, <1>10 DEF Expire, vars, queryVars, sessionVars, metadataVars, loadVars, historyVars
<1>11. CASE SurroundingStep /\ UNCHANGED <<cacheVars, loadVars, historyVars>>
  <2>1. UNCHANGED <<registered, cached, sharing, got, late>>
    BY <1>11, SurroundingSteps DEF CacheTypeOK, cacheVars, loadVars, historyVars
  <2>2. \A s \in Source : \A g : Storable(s, g) => StorableAfter(s, g)
    BY <1>11, <2>1, SessionsKeepStorable DEF CacheTypeOK
  <2>3. \A k \in Key : cached'[k] # NoValue => StorableAfter(k.source, cached'[k].generation)
    BY <1>b, <1>c, <2>1, <2>2
  <2>4. \A l \in registered', k \in Key : l.query \in sharing'[k] => StorableAfter(k.source, l.generation)
    BY <1>b, <1>c, <2>1, <2>2
  <2> QED
    BY <1>c, <2>1, <2>3, <2>4, PresentAfter
<1>12. CASE UNCHANGED mvars
  BY <1>1, <1>12
     DEF mvars, vars, queryVars, sessionVars, metadataVars, cacheVars, loadVars, historyVars
<1> QED
  BY <1>2, <1>3, <1>5, <1>6, <1>7, <1>8, <1>9, <1>10, <1>11, <1>12 DEF CacheNext

(* What a live source is shown was read over its present connection, for   *)
(* every interleaving of loads, clears and reconnects, unless a load whose  *)
(* connection had been retired looked into the cache afterwards.           *)
THEOREM PresentCorrect == CacheSpec => []ServesPresentConnection
<1>1. CacheInit => StatusMatchesRuntime /\ BarrierInvariant /\ PresentInvariant
  BY DEF CacheInit, MetadataOperationsInit, Init, StatusMatchesRuntime, LiveSources,
         BarrierInvariant, InvalidationIsBarrier, PresentInvariant, Key
<1>2. CacheTypeOK /\ StatusMatchesRuntime /\ [CacheNext]_mvars => StatusMatchesRuntime'
  BY CacheStepIsMetadataStep, MetadataStatusNext DEF CacheTypeOK
<1>3. PresentInvariant => ServesPresentConnection
  BY DEF PresentInvariant, Storable, Describes, ServesPresentConnection
<1> QED
  BY <1>1, <1>2, <1>3, CacheTypeCorrect, BarrierNext, PresentNext, PTL DEF CacheSpec
-----------------------------------------------------------------------------
(* The order.  What is left of it when keys are taken out is defined by      *)
(* recursion on its length; a least length at which a fact failed would be   *)
(* that of one it holds for, and one key more.                              *)

\* f gives what is left of each beginning of s, up to length m.
Filters(f, s, keys, m) ==
  f = [n \in 0..m |-> IF n = 0 THEN <<>>
                      ELSE IF s[n] \in keys THEN f[n - 1] ELSE Append(f[n - 1], s[n])]

LEMMA FilteringExists ==
  ASSUME NEW s, NEW keys, NEW len \in Nat
  PROVE  \E f : Filters(f, s, keys, len)
<1> DEFINE Fails == {m \in Nat : ~ \E f : Filters(f, s, keys, m)}
<1> SUFFICES ASSUME Fails # {} PROVE FALSE
  OBVIOUS
<1>1. PICK m \in Fails : \A n \in Fails : m <= n
  BY LeastExists
<1>2. Filters([n \in 0..0 |-> <<>>], s, keys, 0)
  BY DEF Filters
<1>3. m # 0 /\ m - 1 \in Nat /\ m - 1 \notin Fails
  BY <1>1, <1>2
<1>4. PICK g : Filters(g, s, keys, m - 1)
  BY <1>3
<1> DEFINE f == [n \in 0..m |->
                   IF n < m THEN g[n]
                   ELSE IF s[n] \in keys THEN g[n - 1] ELSE Append(g[n - 1], s[n])]
<1>5. Filters(f, s, keys, m)
  <2>1. ASSUME NEW n \in 0..m, n < m
        PROVE  f[n] = IF n = 0 THEN <<>>
                      ELSE IF s[n] \in keys THEN f[n - 1] ELSE Append(f[n - 1], s[n])
    <3>1. n \in 0..(m - 1) /\ f[n] = g[n] /\ (n # 0 => f[n - 1] = g[n - 1])
      BY <1>3, <2>1
    <3>2. g[n] = IF n = 0 THEN <<>>
                 ELSE IF s[n] \in keys THEN g[n - 1] ELSE Append(g[n - 1], s[n])
      BY <1>4, <3>1 DEF Filters
    <3> QED
      BY <3>1, <3>2
  <2>2. f[m] = IF s[m] \in keys THEN f[m - 1] ELSE Append(f[m - 1], s[m])
    <3>1. f[m - 1] = g[m - 1]
      BY <1>3
    <3> QED
      BY <3>1
  <2>3. f = [n \in 0..m |-> f[n]]
    OBVIOUS
  <2> HIDE DEF f
  <2>4. \A n \in 0..m : f[n] = IF n = 0 THEN <<>>
                               ELSE IF s[n] \in keys THEN f[n - 1] ELSE Append(f[n - 1], s[n])
    BY <1>3, <2>1, <2>2
  <2> QED
    BY <2>3, <2>4 DEF Filters
<1> QED
  BY <1>1, <1>5

Places(s) == {s[i] : i \in 1..Len(s)}
Distinct(s) == \A i, j \in 1..Len(s) : s[i] = s[j] => i = j

\* Adding a key at the end.
LEMMA Appended ==
  ASSUME NEW S, NEW s \in Seq(S), NEW k \in S
  PROVE  /\ Append(s, k) \in Seq(S) /\ Len(Append(s, k)) = Len(s) + 1
         /\ Places(Append(s, k)) = Places(s) \cup {k}
         /\ Distinct(s) /\ k \notin Places(s) => Distinct(Append(s, k))
BY DEF Places, Distinct

LEMMA FilteringIs ==
  ASSUME NEW S, NEW s \in Seq(S), Distinct(s), NEW keys, NEW f, Filters(f, s, keys, Len(s))
  PROVE  LET t == f[Len(s)] IN
         t \in Seq(S) /\ Distinct(t) /\ Places(t) = Places(s) \ keys
<1> DEFINE Until(n) == {s[i] : i \in 1..n}
           Good(n) == f[n] \in Seq(S) /\ Distinct(f[n]) /\ Places(f[n]) = Until(n) \ keys
           Fails == {n \in 0..Len(s) : ~ Good(n)}
<1>0. \A n \in 0..Len(s) : n # 0 =>
        f[n] = IF s[n] \in keys THEN f[n - 1] ELSE Append(f[n - 1], s[n])
  BY DEF Filters
<1>1. Good(0)
  <2>1. f[0] = <<>>
    BY DEF Filters
  <2> QED
    BY <2>1 DEF Places, Distinct
<1>2. ASSUME NEW m \in 1..Len(s), Good(m - 1) PROVE Good(m)
  <2>1. f[m] = IF s[m] \in keys THEN f[m - 1] ELSE Append(f[m - 1], s[m])
    BY <1>0
  <2>2. Until(m) = Until(m - 1) \cup {s[m]} /\ s[m] \notin Until(m - 1) /\ s[m] \in S
    BY DEF Distinct
  <2> HIDE DEF Until
  <2>3. CASE s[m] \in keys
    BY <1>2, <2>1, <2>2, <2>3
  <2>4. CASE s[m] \notin keys
    <3>1. s[m] \notin Places(f[m - 1])
      BY <1>2, <2>2
    <3> QED
      BY <1>2, <2>1, <2>2, <2>4, <3>1, Appended
  <2> QED
    BY <2>3, <2>4
<1> HIDE DEF Good
<1>3. Fails = {}
  <2> SUFFICES ASSUME Fails # {} PROVE FALSE
    OBVIOUS
  <2>0. Fails \in SUBSET Nat
    OBVIOUS
  <2>1. PICK m \in Fails : \A n \in Fails : m <= n
    <3> HIDE DEF Fails
    <3> QED
      BY <2>0, LeastExists
  <2>2. m \in 1..Len(s)
    BY <1>1
  <2>3. m - 1 \in 0..Len(s) /\ ~(m <= m - 1)
    BY <2>2
  <2>4. Good(m - 1)
    BY <2>1, <2>3
  <2> QED
    BY <1>2, <2>2, <2>4
<1>4. Good(Len(s))
  BY <1>3
<1> QED
  BY <1>4 DEF Good, Places

LEMMA WithoutIs ==
  ASSUME order \in Seq(Key), Distinct(order), NEW keys
  PROVE  /\ Without(keys) \in Seq(Key) /\ Distinct(Without(keys))
         /\ Places(Without(keys)) = Places(order) \ keys
<1> DEFINE kept == CHOOSE f : Filters(f, order, keys, Len(order))
<1>1. \E f : Filters(f, order, keys, Len(order))
  <2>1. Len(order) \in Nat
    OBVIOUS
  <2> QED
    BY <2>1, FilteringExists
<1>2. Filters(kept, order, keys, Len(order))
  BY <1>1
<1>3. Without(keys) = kept[Len(order)]
  BY DEF Without, Filters
<1> HIDE DEF kept
<1> QED
  BY <1>2, <1>3, FilteringIs

\* Two orders without repetition: that of fewer keys is the shorter.
LEMMA FewerPlaces ==
  ASSUME NEW S, NEW s \in Seq(S), NEW t \in Seq(S), Distinct(s), Distinct(t), Places(t) \subseteq Places(s)
  PROVE  Len(t) <= Len(s) /\ (Places(t) # Places(s) => Len(t) < Len(s))
<1>1. ASSUME NEW u \in Seq(S), Distinct(u)
      PROVE  IsFiniteSet(Places(u)) /\ Cardinality(Places(u)) = Len(u) /\ Len(u) \in Nat
  <2>1. u \in Bijection(1..Len(u), Places(u))
    <3>1. u \in [1..Len(u) -> Places(u)] /\ \A p \in Places(u) : \E i \in 1..Len(u) : u[i] = p
      BY DEF Places
    <3> QED
      BY <1>1, <3>1 DEF Bijection, Injection, IsInjective, Surjection, Distinct
  <2>2. ExistsBijection(1..Len(u), Places(u)) /\ Len(u) \in Nat
    BY <2>1 DEF ExistsBijection
  <2>3. IsFiniteSet(1..Len(u)) /\ Cardinality(1..Len(u)) = Len(u)
    <3>1. \A n \in Nat : IsFiniteSet(1..n) /\ Cardinality(1..n) = n
      BY FS_Interval
    <3> QED
      BY <2>2, <3>1
  <2> QED
    BY <2>2, <2>3, FS_Bijection
<1>2. /\ IsFiniteSet(Places(s)) /\ Cardinality(Places(s)) = Len(s) /\ Len(s) \in Nat
      /\ Cardinality(Places(t)) = Len(t) /\ Len(t) \in Nat
  BY <1>1
<1>3. /\ Cardinality(Places(t)) <= Cardinality(Places(s))
      /\ Cardinality(Places(s)) = Cardinality(Places(t)) => Places(s) = Places(t)
  BY <1>2, FS_Subset
<1> QED
  BY <1>2, <1>3

OrderInv == CacheTypeOK /\ order \in Seq(Key) /\ CacheInStep

LEMMA InStepMeans ==
  ASSUME order \in Seq(Key)
  PROVE  /\ InOrder = Places(order)
         /\ CacheInStep <=> /\ Len(order) <= MaxEntries /\ Distinct(order)
                            /\ Places(order) = {k \in Key : cached[k] # NoValue}
                            /\ fresh \subseteq Places(order)
BY DEF CacheInStep, InOrder, Places, Distinct

\* Taking keys out of the order and the maps.
LEMMA TakingOutKeeps ==
  ASSUME OrderInv, NEW keys, order' = Without(keys), fresh' \subseteq fresh \ keys,
         cached' = [k \in Key |-> IF k \in keys THEN NoValue ELSE cached[k]]
  PROVE  order' \in Seq(Key) /\ CacheInStep'
<1>1. /\ order \in Seq(Key) /\ Len(order) <= MaxEntries /\ Distinct(order)
      /\ Places(order) = {k \in Key : cached[k] # NoValue}
      /\ fresh \subseteq Places(order)
  BY InStepMeans DEF OrderInv
<1>2. order' \in Seq(Key) /\ Distinct(order') /\ Places(order') = Places(order) \ keys
  BY <1>1, WithoutIs
<1>3. Len(order') <= Len(order)
  BY <1>1, <1>2, FewerPlaces
<1>4. Len(order') <= MaxEntries
  BY <1>1, <1>2, <1>3, EntriesAssumption
<1>5. Places(order') = {k \in Key : cached'[k] # NoValue} /\ fresh' \subseteq Places(order')
  BY <1>1, <1>2
<1>7. DOMAIN order' = 1..Len(order') /\ InOrder' = Places(order')
  BY <1>2 DEF InOrder, Places
<1> QED
  BY <1>2, <1>4, <1>5, <1>7 DEF CacheInStep, Distinct

\* Putting a key at the end, others taken out to make room.
LEMMA PuttingLastKeeps ==
  ASSUME OrderInv, NEW k \in Key, NEW v, v # NoValue, NEW evicted,
         evicted \subseteq Places(order),
         k \in Places(order) \/ evicted # {} \/ Len(order) < MaxEntries,
         order' = Append(Without(evicted \cup {k}), k),
         fresh' \subseteq (fresh \ evicted) \cup {k},
         cached' = [j \in Key |-> IF j = k THEN v ELSE IF j \in evicted THEN NoValue ELSE cached[j]]
  PROVE  order' \in Seq(Key) /\ CacheInStep'
<1> DEFINE t == Without(evicted \cup {k})
<1>1. /\ order \in Seq(Key) /\ Len(order) <= MaxEntries /\ Distinct(order)
      /\ Places(order) = {j \in Key : cached[j] # NoValue}
      /\ fresh \subseteq Places(order)
  BY InStepMeans DEF OrderInv
<1>2. t \in Seq(Key) /\ Distinct(t) /\ Places(t) = Places(order) \ (evicted \cup {k})
  BY <1>1, WithoutIs
<1>3. Len(t) <= Len(order) /\ (k \in Places(order) \/ evicted # {} => Len(t) < Len(order))
  BY <1>1, <1>2, FewerPlaces
<1> HIDE DEF t
<1>4. /\ order' \in Seq(Key) /\ Len(order') = Len(t) + 1
      /\ Places(order') = Places(t) \cup {k} /\ Distinct(order')
  <2>1. order' = Append(t, k)
    BY DEF t
  <2>2. k \in Key /\ t \in Seq(Key) /\ Distinct(t) /\ k \notin Places(t)
    BY <1>2
  <2>3. /\ Append(t, k) \in Seq(Key) /\ Len(Append(t, k)) = Len(t) + 1
        /\ Places(Append(t, k)) = Places(t) \cup {k} /\ Distinct(Append(t, k))
    BY <2>2, Appended
  <2> QED
    BY <2>1, <2>3
<1>5. Len(order') <= MaxEntries
  BY <1>1, <1>2, <1>3, <1>4, EntriesAssumption
<1>6. Places(order') = {j \in Key : cached'[j] # NoValue} /\ fresh' \subseteq Places(order')
  BY <1>1, <1>2, <1>4
<1>7. DOMAIN order' = 1..Len(order') /\ InOrder' = Places(order')
  <2>1. order' \in Seq(Key)
    BY <1>4
  <2> HIDE DEF t
  <2>2. DOMAIN order' = 1..Len(order')
    BY <2>1
  <2> QED
    BY <2>2 DEF InOrder, Places
<1> QED
  BY <1>4, <1>5, <1>6, <1>7 DEF CacheInStep, Distinct

LEMMA OrderInvInit == CacheInit => OrderInv
<1> SUFFICES ASSUME CacheInit PROVE OrderInv
  OBVIOUS
<1>1. order = <<>> /\ fresh = {} /\ \A k \in Key : cached[k] = NoValue
  BY DEF CacheInit
<1>2. order \in Seq(Key) /\ CacheInStep
  BY <1>1, EntriesAssumption DEF CacheInStep, InOrder
<1> QED
  BY <1>2, CacheTypeInit DEF OrderInv

LEMMA OrderInvNext == OrderInv /\ [CacheNext]_mvars => OrderInv'
<1> SUFFICES ASSUME OrderInv, [CacheNext]_mvars PROVE OrderInv'
  OBVIOUS
<1>0. CacheTypeOK /\ CacheTypeOK' /\ cached \in [Key -> Value \cup {NoValue}] /\ fresh \subseteq Key
  BY CacheTypeNext DEF OrderInv, CacheTypeOK
<1> SUFFICES order' \in Seq(Key) /\ CacheInStep'
  BY <1>0 DEF OrderInv
<1>r. \A l \in registered : request[l.query].key \in Key
  BY <1>0 DEF CacheTypeOK
<1>s. InOrder = Places(order) /\ fresh \subseteq Places(order) /\ Len(order) <= MaxEntries
  BY InStepMeans DEF OrderInv
<1>u. ASSUME UNCHANGED <<cached, order>>, fresh' \subseteq fresh PROVE order' \in Seq(Key) /\ CacheInStep'
  BY <1>u DEF OrderInv, CacheInStep, InOrder
<1>1. ASSUME NEW q \in QueryId, NEW k \in Key, NEW force \in BOOLEAN, BeginLoad(q, k, force)
      PROVE  order' \in Seq(Key) /\ CacheInStep'
  BY <1>1, <1>u DEF BeginLoad, cacheVars
<1>2. ASSUME NEW l \in waiting, LoadWaits(l) PROVE order' \in Seq(Key) /\ CacheInStep'
  BY <1>2, <1>u DEF LoadWaits, cacheVars
<1>3. ASSUME NEW l \in Underway, Hit(l) PROVE order' \in Seq(Key) /\ CacheInStep'
  <2> DEFINE k == request[l.query].key
  <2>1. k \in Key /\ k \in Places(order) /\ cached[k] # NoValue
    BY <1>3, <1>r, <1>s DEF Hit, Underway, OrderInv, CacheInStep
  <2>2. order' = Append(Without({} \cup {k}), k) /\ UNCHANGED <<cached, fresh>>
    BY <1>3 DEF Hit, Touch
  <2>3. cached' = [j \in Key |-> IF j = k THEN cached[k] ELSE IF j \in {} THEN NoValue ELSE cached[j]]
    BY <1>0, <2>1, <2>2
  <2> DEFINE none == {}
  <2>5. order' = Append(Without(none \cup {k}), k)
    BY <2>2
  <2>6. cached' = [j \in Key |-> IF j = k THEN cached[k] ELSE IF j \in none THEN NoValue ELSE cached[j]]
    BY <2>3
  <2> HIDE DEF k
  <2>4. none \subseteq Places(order) /\ fresh' \subseteq (fresh \ none) \cup {k}
    BY <2>2
  <2> HIDE DEF none
  <2> QED
    BY <2>1, <2>4, <2>5, <2>6, PuttingLastKeeps
<1>4. ASSUME NEW l \in Underway, Miss(l) PROVE order' \in Seq(Key) /\ CacheInStep'
  <2> DEFINE k == request[l.query].key
  <2>1. k \in Key /\ RemoveKey(k)
    BY <1>4, <1>r DEF Miss, Underway
  <2> HIDE DEF k
  <2>2. cached' = [j \in Key |-> IF j \in {k} THEN NoValue ELSE cached[j]]
    BY <1>0, <2>1 DEF RemoveKey
  <2> QED
    BY <2>1, <2>2, TakingOutKeeps DEF RemoveKey
<1>5. ASSUME NEW l \in Underway, Fetch(l) PROVE order' \in Seq(Key) /\ CacheInStep'
  BY <1>5, <1>u DEF Fetch, cacheVars
<1>6. ASSUME NEW l \in Underway, Store(l) PROVE order' \in Seq(Key) /\ CacheInStep'
  <2> DEFINE k == request[l.query].key
             v == got[l.query]
  <2>1. CASE UNCHANGED <<cached, order, fresh>>
    BY <1>u, <2>1
  <2>2. CASE Insert(k, v) /\ v # NoValue
    <3>1. k \in Key
      BY <1>r DEF Underway
    <3> HIDE DEF k, v
    <3> DEFINE full == k \notin InOrder /\ Len(order) >= MaxEntries
               evicted == IF full THEN {Head(order)} ELSE {}
    <3>2. /\ cached' = [j \in Key |-> IF j = k THEN v ELSE IF j \in evicted THEN NoValue ELSE cached[j]]
          /\ fresh' = (fresh \ evicted) \cup {k}
          /\ order' = Append(Without(evicted \cup {k}), k)
      BY <2>2 DEF Insert
    <3>3. full => Head(order) \in Places(order)
      BY EntriesAssumption DEF OrderInv, Places
    <3>4. evicted \subseteq Places(order)
          /\ (k \in Places(order) \/ evicted # {} \/ Len(order) < MaxEntries)
      BY <1>s, <3>3, EntriesAssumption DEF OrderInv
    <3> HIDE DEF evicted
    <3> QED
      BY <2>2, <3>1, <3>2, <3>4, PuttingLastKeeps
  <2> QED
    BY <1>6, <2>1, <2>2 DEF Store
<1>7. ASSUME NEW s \in Source, ClearConnection(s) PROVE order' \in Seq(Key) /\ CacheInStep'
  <2> DEFINE keys == {k \in Key : k.source = s}
  <2>1. /\ order' = Without(keys) /\ fresh' = fresh \ keys
        /\ cached' = [k \in Key |-> IF k \in keys THEN NoValue ELSE cached[k]]
    BY <1>7 DEF ClearConnection
  <2> HIDE DEF keys
  <2> QED
    BY <2>1, TakingOutKeeps
<1>8. ASSUME NEW k \in Key, Expire(k) PROVE order' \in Seq(Key) /\ CacheInStep'
  BY <1>8, <1>u DEF Expire
<1>9. CASE UNCHANGED cacheVars
  BY <1>9, <1>u DEF cacheVars
<1> QED
  BY <1>1, <1>2, <1>3, <1>4, <1>5, <1>6, <1>7, <1>8, <1>9
     DEF CacheNext, mvars, Invalidate, ClearForAttempt

(* RemoveKey, Insert and ClearConnection: the order, the timestamps and the   *)
(* maps stay in step within the capacity, for any capacity.                  *)
THEOREM InStepCorrect == CacheSpec => []CacheInStep
<1>1. OrderInv => CacheInStep
  BY DEF OrderInv
<1> QED
  BY <1>1, OrderInvInit, OrderInvNext, PTL DEF CacheSpec

HIDE KeyAssumption


-----------------------------------------------------------------------------
(* Passwords.  Nothing but the order of the writes protects an item of the   *)
(* Keychain, so the invariant says who may still refer to one: a row, the    *)
(* queue, or the job that has just stored it.                              *)

USE NoSecretAssumption

\* Nobody but the job that stored s knows of it.
Fresh(s) ==
  /\ s \in keychain
  /\ \A c \in Record : savedSecret[c] # s /\ cleanupQueue[c] # s

\* Everything that is referred to has been minted; a password belongs to one
\* row, and is not queued as long as it does.
RowsAreApart ==
  /\ \A c \in Record : {savedSecret[c], cleanupQueue[c], entrusted[c]} \subseteq minted \cup {NoSecret}
  /\ \A c \in Record : recordState[c] # "present" => savedSecret[c] = NoSecret
  /\ \A c, d \in Record : savedSecret[c] = savedSecret[d] /\ savedSecret[c] # NoSecret => c = d
  /\ \A c, d \in Record : cleanupQueue[d] = savedSecret[c] => cleanupQueue[d] = NoSecret

\* The queue and its results are about deleted connections, and a cleanup
\* under way about one that is queued.
QueueIsOfDeleted ==
  /\ \A c \in Record : recordState[c] # "deleted" =>
       cleanupQueue[c] = NoSecret /\ cleanupResult[c] = "none"
  /\ cleanupTx # NoTx => cleanupQueue[cleanupTx.record] # NoSecret
  /\ cleanupTx.step # "shared"
  /\ cleanupTx.step = "removed" => cleanupQueue[cleanupTx.record] \notin keychain

CreateJobOwns == createJob # Idle =>
  /\ recordState[createJob.record] = "unborn"
  /\ createJob.new # NoSecret => Fresh(createJob.new)

EditJobOwns ==
  /\ editJob.step = "stored" =>
       /\ recordState[editJob.record] = "present"
       /\ editJob.old = savedSecret[editJob.record]
       /\ editJob.new \notin {NoSecret, editJob.old} =>
            /\ Fresh(editJob.new)
            /\ createJob # Idle => createJob.new # editJob.new
  /\ editJob.step = "written" =>
       /\ editJob.old # NoSecret
       /\ \A c \in Record : savedSecret[c] # editJob.old
       /\ createJob # Idle => createJob.new # editJob.old
       /\ editJob.old \in minted

StoreInv ==
  /\ StoreTypeOK
  /\ RowsAreApart /\ QueueIsOfDeleted
  /\ CreateJobOwns /\ EditJobOwns
  /\ SavedPasswordsReadable /\ DeletedPasswordsAreTracked

CreateJobs == [step : {"stored"}, record : Record, new : MaybeSecret]
EditJobs == [step : {"stored", "written"}, record : Record, old : MaybeSecret, new : MaybeSecret]
DeleteJobs == [step : {"deleted"}, record : Record]
CleanupTxs == [step : {"shared", "owned", "removed"}, record : Record,
               by : {"delete", "startup", "user"}]

\* What the step of a job says of its other fields.
LEMMA JobTypes ==
  ASSUME StoreTypeOK
  PROVE  /\ createJob # Idle => createJob \in CreateJobs
         /\ editJob.step \in {"stored", "written"} => editJob \in EditJobs
         /\ editJob.step = "deleted" => editJob \in DeleteJobs
         /\ cleanupTx # NoTx => cleanupTx \in CleanupTxs
         /\ cleanupTx.step \in {"shared", "owned", "removed"} => cleanupTx # NoTx
BY DEF StoreTypeOK, CreateJobs, EditJobs, DeleteJobs, CleanupTxs, Idle, NoTx

LEMMA StoreInvInit == StoreInit => StoreInv
<1> SUFFICES ASSUME StoreInit PROVE StoreInv
  OBVIOUS
<1> USE DEF StoreInit, Idle, NoTx
<1>1. StoreTypeOK
  BY DEF StoreTypeOK, MaybeSecret
<1>2. RowsAreApart /\ QueueIsOfDeleted
  BY DEF RowsAreApart, QueueIsOfDeleted
<1>3. CreateJobOwns /\ EditJobOwns
  BY DEF CreateJobOwns, EditJobOwns
<1>4. SavedPasswordsReadable /\ DeletedPasswordsAreTracked
  BY DEF SavedPasswordsReadable, DeletedPasswordsAreTracked, Present
<1> QED
  BY <1>1, <1>2, <1>3, <1>4 DEF StoreInv

-----------------------------------------------------------------------------
(* Types.                                                                  *)

LEMMA StoreTypeNext == StoreTypeOK /\ [StoreNext]_storeVars => StoreTypeOK'
<1> SUFFICES ASSUME StoreTypeOK, [StoreNext]_storeVars PROVE StoreTypeOK'
  OBVIOUS
<1>0. NoSecret \in MaybeSecret /\ Secret \subseteq MaybeSecret
  BY DEF MaybeSecret
<1>j. /\ createJob # Idle => createJob \in CreateJobs
      /\ editJob.step \in {"stored", "written"} => editJob \in EditJobs
      /\ cleanupTx # NoTx => cleanupTx \in CleanupTxs
      /\ cleanupTx.step \in {"shared", "owned", "removed"} => cleanupTx # NoTx
  BY JobTypes
<1>1. ASSUME NEW c \in Record, NEW s \in Secret \cup {NoSecret}, CreateStores(c, s)
      PROVE  StoreTypeOK'
  <2>1. createJob' \in CreateJobs
    BY <1>1 DEF CreateStores, CreateJobs, MaybeSecret
  <2>2. keychain' \subseteq minted' /\ minted' \subseteq Secret
    BY <1>1 DEF CreateStores, Mint, StoreTypeOK
  <2> QED
    BY <1>1, <2>1, <2>2 DEF CreateStores, CreateJobs, StoreTypeOK
<1>2. ASSUME NEW c \in Record, NEW s \in Secret \cup {NoSecret}, UpdateStores(c, s)
      PROVE  StoreTypeOK'
  <2>1. editJob' \in EditJobs
    BY <1>2 DEF UpdateStores, EditJobs, MaybeSecret, StoreTypeOK
  <2>2. keychain' \subseteq minted' /\ minted' \subseteq Secret
    BY <1>2 DEF UpdateStores, Mint, StoreTypeOK
  <2> QED
    BY <1>2, <2>1, <2>2 DEF UpdateStores, EditJobs, StoreTypeOK
<1>3. CASE CreateInserts
  BY <1>3, <1>j DEF CreateInserts, CreateJobs, StoreTypeOK
<1>4. CASE CreateFails \/ UpdateFails
  BY <1>4 DEF CreateFails, UpdateFails, StoreTypeOK
<1>5. CASE UpdateWrites
  <2>1. editJob \in EditJobs
    BY <1>5, <1>j DEF UpdateWrites
  <2>2. editJob' \in {Idle} \cup EditJobs
    BY <1>5, <2>1 DEF UpdateWrites, EditJobs
  <2> QED
    BY <1>5, <2>1, <2>2 DEF UpdateWrites, EditJobs, StoreTypeOK
<1>6. CASE UpdateRemovesOld
  BY <1>6 DEF UpdateRemovesOld, StoreTypeOK
<1>7. ASSUME NEW c \in Record, DeleteCommits(c) PROVE StoreTypeOK'
  <2>1. editJob' \in DeleteJobs
    BY <1>7 DEF DeleteCommits, DeleteJobs
  <2>2. cleanupQueue' \in [Record -> MaybeSecret] /\ entrusted' \in [Record -> MaybeSecret]
    BY <1>7 DEF DeleteCommits, StoreTypeOK
  <2> QED
    BY <1>7, <1>0, <2>1, <2>2 DEF DeleteCommits, DeleteJobs, StoreTypeOK
<1>8. ASSUME NEW c \in Record, NEW by \in {"delete", "startup", "user"}, CleanupBegins(by, c)
      PROVE  StoreTypeOK'
  <2>1. cleanupTx' \in {NoTx} \cup CleanupTxs
    BY <1>8 DEF CleanupBegins, CleanupTxs
  <2>2. editJob' \in {Idle, editJob} /\ startupRetry' \subseteq startupRetry
    BY <1>8 DEF CleanupBegins, VisitEnds
  <2> QED
    BY <1>8, <2>1, <2>2 DEF CleanupBegins, CleanupTxs, StoreTypeOK
<1>9. CASE CleanupRemoves
  <2>1. cleanupTx' \in CleanupTxs
    BY <1>9, <1>j DEF CleanupRemoves, CleanupTxs
  <2> QED
    BY <1>9, <2>1 DEF CleanupRemoves, CleanupTxs, StoreTypeOK
<1>10. CASE CleanupRefused \/ CleanupCommits \/ CleanupRollsBack
  <2>1. cleanupTx \in CleanupTxs
    BY <1>10, <1>j DEF CleanupRefused, CleanupCommits, CleanupRollsBack
  <2>2. editJob' \in {Idle, editJob} /\ startupRetry' \subseteq startupRetry
    BY <1>10 DEF CleanupRefused, CleanupCommits, CleanupRollsBack, VisitEnds
  <2>3. /\ cleanupQueue' \in [Record -> MaybeSecret]
        /\ cleanupResult' \in [Record -> {"none", "pending", "cleaned", "retainedShared"}]
    BY <1>10, <1>0, <2>1 DEF CleanupRefused, CleanupCommits, CleanupRollsBack, CleanupTxs, StoreTypeOK
  <2> QED
    BY <1>10, <2>2, <2>3 DEF CleanupRefused, CleanupCommits, CleanupRollsBack, StoreTypeOK
<1>11. CASE Restart
  BY <1>11 DEF Restart, StoreTypeOK
<1>12. CASE UNCHANGED storeVars
  BY <1>12 DEF storeVars, StoreTypeOK
<1> QED
  BY <1>1, <1>2, <1>3, <1>4, <1>5, <1>6, <1>7, <1>8, <1>9, <1>10, <1>11, <1>12 DEF StoreNext
-----------------------------------------------------------------------------
(* One lemma per group of steps; each assumes the types of the next state.  *)

Parts ==
  RowsAreApart /\ QueueIsOfDeleted /\ CreateJobOwns /\ EditJobOwns
  /\ SavedPasswordsReadable /\ DeletedPasswordsAreTracked

\* A new item is referred to by nobody.
LEMMA MintedIsFresh ==
  ASSUME StoreInv, NEW s, Mint(s), s # NoSecret, UNCHANGED <<savedSecret, cleanupQueue>>
  PROVE  /\ Fresh(s)'
         /\ s \notin minted
         /\ \A r : Fresh(r) => Fresh(r)' /\ r # s
BY DEF StoreInv, StoreTypeOK, RowsAreApart, Mint, Fresh

LEMMA CreateStoresKeeps ==
  ASSUME StoreInv, NEW c \in Record, NEW s \in Secret \cup {NoSecret}, CreateStores(c, s)
  PROVE  Parts'
<1> USE DEF StoreInv
<1>1. /\ UNCHANGED <<recordState, savedSecret, cleanupQueue, cleanupResult>>
      /\ UNCHANGED <<editJob, cleanupTx, entrusted>>
      /\ createJob' = [step |-> "stored", record |-> c, new |-> s]
      /\ Mint(s) /\ recordState[c] = "unborn" /\ createJob' # Idle
  BY DEF CreateStores, Idle
<1>2. keychain \subseteq keychain' /\ minted \subseteq minted'
  BY <1>1 DEF Mint
<1>3. \A r : Fresh(r) => Fresh(r)'
  BY <1>1, <1>2 DEF Fresh
<1>4. s # NoSecret => Fresh(s)' /\ s \notin minted
  BY <1>1, MintedIsFresh
<1>5. keychain' = keychain \/ (keychain' = keychain \cup {s} /\ s # NoSecret)
  BY <1>1 DEF Mint
<1>6. RowsAreApart'
  BY <1>1, <1>2 DEF RowsAreApart
<1>7. QueueIsOfDeleted'
  <2>1. cleanupTx.step = "removed" => cleanupQueue[cleanupTx.record] \notin keychain'
    <3>1. ASSUME cleanupTx.step = "removed" PROVE cleanupTx.record \in Record
      BY <3>1, JobTypes DEF CleanupTxs
    <3> QED
      BY <1>4, <1>5, <3>1 DEF QueueIsOfDeleted, RowsAreApart
  <2> QED
    BY <1>1, <2>1 DEF QueueIsOfDeleted
<1>8. CreateJobOwns'
  BY <1>1, <1>4 DEF CreateJobOwns
<1>9. EditJobOwns'
  <2>1. ASSUME editJob.step = "stored", editJob.new \notin {NoSecret, editJob.old}
        PROVE  Fresh(editJob.new)' /\ createJob'.new # editJob.new
    <3>1. Fresh(editJob.new) /\ editJob.new \in minted
      BY <2>1 DEF EditJobOwns, Fresh, StoreTypeOK
    <3> QED
      BY <1>1, <1>3, <1>4, <2>1, <3>1
  <2>2. ASSUME editJob.step = "written" PROVE createJob'.new # editJob.old
    BY <1>1, <1>4, <2>2 DEF EditJobOwns
  <2> QED
    BY <1>1, <1>2, <2>1, <2>2 DEF EditJobOwns
<1>10. SavedPasswordsReadable'
  BY <1>1, <1>2 DEF SavedPasswordsReadable, Present
<1>11. DeletedPasswordsAreTracked'
  BY <1>1, <1>4, <1>5 DEF DeletedPasswordsAreTracked, RowsAreApart
<1> QED
  BY <1>6, <1>7, <1>8, <1>9, <1>10, <1>11 DEF Parts

LEMMA UpdateStoresKeeps ==
  ASSUME StoreInv, NEW c \in Record, NEW s \in Secret \cup {NoSecret}, UpdateStores(c, s)
  PROVE  Parts'
<1> USE DEF StoreInv
<1>1. /\ UNCHANGED <<recordState, savedSecret, cleanupQueue, cleanupResult>>
      /\ UNCHANGED <<createJob, cleanupTx, entrusted>>
      /\ editJob' = [step |-> "stored", record |-> c, old |-> savedSecret[c], new |-> s]
      /\ recordState[c] = "present"
      /\ (s = savedSecret[c] /\ UNCHANGED <<keychain, minted>>) \/ Mint(s)
  BY DEF UpdateStores, Present
<1>2. keychain \subseteq keychain' /\ minted \subseteq minted'
  BY <1>1 DEF Mint
<1>3. \A r : Fresh(r) => Fresh(r)'
  BY <1>1, <1>2 DEF Fresh
<1>4. s \notin {NoSecret, savedSecret[c]} => Fresh(s)' /\ s \notin minted
  BY <1>1, MintedIsFresh
<1>5. keychain' = keychain \/ (keychain' = keychain \cup {s} /\ s \in Secret \ minted)
  BY <1>1 DEF Mint
<1>6. RowsAreApart'
  BY <1>1, <1>2 DEF RowsAreApart
<1>7. QueueIsOfDeleted'
  <2>1. cleanupTx.step = "removed" => cleanupQueue[cleanupTx.record] \notin keychain'
    <3>1. ASSUME cleanupTx.step = "removed" PROVE cleanupTx.record \in Record
      BY <3>1, JobTypes DEF CleanupTxs
    <3> QED
      BY <1>1, <1>5, <3>1 DEF QueueIsOfDeleted, RowsAreApart, Mint, StoreTypeOK
  <2> QED
    BY <1>1, <2>1 DEF QueueIsOfDeleted
<1>8. CreateJobOwns'
  BY <1>1, <1>3 DEF CreateJobOwns
<1>9. EditJobOwns'
  <2>1. createJob # Idle => createJob.new = NoSecret \/ createJob.new \in minted
    BY DEF CreateJobOwns, Fresh, StoreTypeOK
  <2> QED
    BY <1>1, <1>4, <2>1 DEF EditJobOwns
<1>10. SavedPasswordsReadable'
  BY <1>1, <1>2 DEF SavedPasswordsReadable, Present
<1>11. DeletedPasswordsAreTracked'
  <2>1. \A d \in Record : entrusted[d] \in keychain' => entrusted[d] \in keychain
    BY <1>1, <1>5 DEF RowsAreApart, Mint, StoreTypeOK
  <2> QED
    BY <1>1, <2>1 DEF DeletedPasswordsAreTracked
<1> QED
  BY <1>6, <1>7, <1>8, <1>9, <1>10, <1>11 DEF Parts

LEMMA CreateEndsKeeps ==
  ASSUME StoreInv, CreateInserts \/ CreateFails
  PROVE  Parts'
<1> USE DEF StoreInv
<1>0. createJob \in CreateJobs /\ createJob # Idle /\ createJob' = Idle
  BY JobTypes DEF CreateInserts, CreateFails
<1>1. CASE CreateFails
  BY <1>0, <1>1 DEF CreateFails, Parts, RowsAreApart, QueueIsOfDeleted, CreateJobOwns, EditJobOwns,
        SavedPasswordsReadable, DeletedPasswordsAreTracked, Present, Fresh
<1>2. CASE CreateInserts
  <2> DEFINE r == createJob.record
             s == createJob.new
  <2>1. /\ r \in Record /\ s \in MaybeSecret
        /\ recordState' = [recordState EXCEPT ![r] = "present"]
        /\ savedSecret' = [savedSecret EXCEPT ![r] = s]
        /\ UNCHANGED <<cleanupQueue, cleanupResult, keychain, minted, editJob, cleanupTx, entrusted>>
        /\ cleanupTx = NoTx
    BY <1>0, <1>2 DEF CreateInserts, CreateJobs
  <2>2. recordState[r] = "unborn" /\ (s # NoSecret => Fresh(s))
    BY <1>0 DEF CreateJobOwns
  <2>3. /\ recordState'[r] = "present" /\ savedSecret'[r] = s
        /\ \A c \in Record \ {r} : recordState'[c] = recordState[c] /\ savedSecret'[c] = savedSecret[c]
    BY <2>1 DEF StoreTypeOK
  <2> HIDE DEF r, s
  <2>4. s # NoSecret => s \in minted
    BY <2>2 DEF Fresh, StoreTypeOK
  <2>5. RowsAreApart'
    BY <2>1, <2>2, <2>3, <2>4 DEF RowsAreApart, Fresh
  <2>6. QueueIsOfDeleted'
    BY <2>1, <2>2, <2>3 DEF QueueIsOfDeleted, NoTx
  <2>7. EditJobOwns'
    <3>1. ASSUME editJob.step = "stored"
          PROVE  /\ editJob.record \in Record /\ editJob.record # r
                 /\ editJob.new \notin {NoSecret, editJob.old} => editJob.new # s
      BY <1>0, <2>2, <3>1, JobTypes DEF EditJobOwns, EditJobs, s
    <3>2. ASSUME editJob.step = "stored", editJob.new \notin {NoSecret, editJob.old}
          PROVE  Fresh(editJob.new)'
      BY <2>1, <2>3, <3>1, <3>2 DEF EditJobOwns, Fresh
    <3>3. ASSUME editJob.step = "written" PROVE \A c \in Record : savedSecret'[c] # editJob.old
      BY <1>0, <2>3, <3>3 DEF EditJobOwns, s
    <3> QED
      BY <1>0, <2>1, <2>3, <3>1, <3>2, <3>3 DEF EditJobOwns
  <2>8. SavedPasswordsReadable'
    BY <2>1, <2>2, <2>3 DEF SavedPasswordsReadable, Present, Fresh
  <2>9. DeletedPasswordsAreTracked'
    BY <2>1 DEF DeletedPasswordsAreTracked
  <2> QED
    BY <1>0, <2>5, <2>6, <2>7, <2>8, <2>9 DEF Parts, CreateJobOwns
<1> QED
  BY <1>1, <1>2

\* The process dies, or an update fails: rows, queue and Keychain are as they were.
LEMMA ForgettingKeeps ==
  ASSUME StoreInv, UpdateFails \/ Restart
  PROVE  Parts'
BY DEF StoreInv, UpdateFails, Restart, Idle, NoTx, Parts, RowsAreApart, QueueIsOfDeleted,
       CreateJobOwns, EditJobOwns, SavedPasswordsReadable, DeletedPasswordsAreTracked, Present, Fresh

LEMMA UpdateWritesKeeps ==
  ASSUME StoreInv, UpdateWrites
  PROVE  Parts'
<1> USE DEF StoreInv
<1> DEFINE r == editJob.record
           s == editJob.new
           o == editJob.old
<1>0. editJob \in EditJobs /\ editJob.step = "stored"
  BY JobTypes DEF UpdateWrites
<1>1. /\ r \in Record /\ s \in MaybeSecret /\ o \in MaybeSecret
      /\ UNCHANGED <<recordState, cleanupQueue, cleanupResult, keychain, minted, createJob, cleanupTx,
                     entrusted>>
      /\ cleanupTx = NoTx
  BY <1>0 DEF UpdateWrites, EditJobs
<1>2. /\ recordState[r] = "present" /\ o = savedSecret[r]
      /\ s \notin {NoSecret, o} => Fresh(s) /\ (createJob # Idle => createJob.new # s)
  BY <1>0 DEF EditJobOwns
<1>3. /\ savedSecret'[r] = s
      /\ \A c \in Record \ {r} : savedSecret'[c] = savedSecret[c]
  BY <1>1 DEF UpdateWrites, StoreTypeOK
<1>4. \/ o \in {s, NoSecret} /\ editJob' = Idle
      \/ o \notin {s, NoSecret} /\ editJob'.step = "written" /\ editJob'.old = o
  BY <1>0 DEF UpdateWrites, EditJobs
<1> HIDE DEF r, s, o
<1>5. s \notin {NoSecret, o} => s \in minted /\ s \in keychain
  BY <1>2 DEF Fresh, StoreTypeOK
<1>6. RowsAreApart'
  BY <1>1, <1>2, <1>3, <1>5 DEF RowsAreApart, Fresh
<1>7. QueueIsOfDeleted'
  BY <1>1 DEF QueueIsOfDeleted
<1>8. CreateJobOwns'
  <2>1. ASSUME createJob # Idle, createJob.new # NoSecret PROVE Fresh(createJob.new)'
    <3>1. Fresh(createJob.new)
      BY <2>1 DEF CreateJobOwns
    <3>2. createJob.new # s
      BY <1>1, <1>2, <2>1, <3>1 DEF Fresh
    <3> QED
      BY <1>1, <1>3, <3>1, <3>2 DEF Fresh
  <2> QED
    BY <1>1, <2>1 DEF CreateJobOwns
<1>9. EditJobOwns'
  <2>1. CASE editJob' = Idle
    BY <2>1 DEF EditJobOwns, Idle
  <2>2. CASE o \notin {s, NoSecret} /\ editJob'.step = "written" /\ editJob'.old = o
    <3>1. \A c \in Record : savedSecret'[c] # o
      BY <1>1, <1>2, <1>3, <2>2 DEF RowsAreApart
    <3>2. createJob # Idle => createJob.new # o
      BY <1>1, <1>2, <2>2 DEF CreateJobOwns, Fresh
    <3>3. o \in minted
      BY <1>1, <1>2, <2>2 DEF RowsAreApart
    <3> QED
      BY <1>1, <2>2, <3>1, <3>2, <3>3 DEF EditJobOwns
  <2> QED
    BY <1>4, <2>1, <2>2
<1>10. SavedPasswordsReadable'
  BY <1>1, <1>2, <1>3, <1>5 DEF SavedPasswordsReadable, Present
<1>11. DeletedPasswordsAreTracked'
  BY <1>1 DEF DeletedPasswordsAreTracked
<1> QED
  BY <1>6, <1>7, <1>8, <1>9, <1>10, <1>11 DEF Parts

\* An item that nobody refers to may be removed.
LEMMA UpdateRemovesOldKeeps ==
  ASSUME StoreInv, UpdateRemovesOld
  PROVE  Parts'
<1> USE DEF StoreInv
<1> DEFINE o == editJob.old
<1>1. /\ UNCHANGED <<recordState, savedSecret, cleanupQueue, cleanupResult, minted, createJob, cleanupTx,
                     entrusted>>
      /\ keychain' \in {keychain, keychain \ {o}}
      /\ editJob' = Idle
  BY DEF UpdateRemovesOld
<1>2. /\ \A c \in Record : savedSecret[c] # o
      /\ createJob # Idle => createJob.new # o
  BY DEF UpdateRemovesOld, EditJobOwns
<1> HIDE DEF o
<1>3. RowsAreApart' /\ QueueIsOfDeleted'
  BY <1>1 DEF RowsAreApart, QueueIsOfDeleted
<1>4. CreateJobOwns'
  BY <1>1, <1>2 DEF CreateJobOwns, Fresh
<1>5. EditJobOwns'
  BY <1>1 DEF EditJobOwns, Idle
<1>6. SavedPasswordsReadable' /\ DeletedPasswordsAreTracked'
  BY <1>1, <1>2 DEF SavedPasswordsReadable, DeletedPasswordsAreTracked, Present
<1> QED
  BY <1>3, <1>4, <1>5, <1>6 DEF Parts

\* The row's reference moves to the queue.
LEMMA DeleteCommitsKeeps ==
  ASSUME StoreInv, NEW c \in Record, DeleteCommits(c)
  PROVE  Parts'
<1> USE DEF StoreInv
<1>1. /\ UNCHANGED <<cleanupResult, keychain, minted, createJob, cleanupTx>>
      /\ recordState[c] # "unborn" /\ cleanupTx = NoTx
      /\ editJob'.step = "deleted"
  BY DEF DeleteCommits
<1>2. /\ recordState'[c] = "deleted" /\ savedSecret'[c] = NoSecret
      /\ \A d \in Record \ {c} :
           /\ recordState'[d] = recordState[d] /\ savedSecret'[d] = savedSecret[d]
           /\ cleanupQueue'[d] = cleanupQueue[d] /\ entrusted'[d] = entrusted[d]
  BY DEF DeleteCommits, StoreTypeOK
<1>3. CASE recordState[c] = "present"
  <2>1. cleanupQueue'[c] = savedSecret[c] /\ entrusted'[c] = savedSecret[c]
    BY <1>3 DEF DeleteCommits, StoreTypeOK, QueueIsOfDeleted, Present
  <2>2. cleanupResult[c] = "none"
    BY <1>3 DEF QueueIsOfDeleted
  <2>3. RowsAreApart'
    BY <1>1, <1>2, <2>1 DEF RowsAreApart
  <2>4. QueueIsOfDeleted'
    BY <1>1, <1>2 DEF QueueIsOfDeleted, NoTx
  <2>5. CreateJobOwns'
    <3>1. ASSUME createJob # Idle, createJob.new # NoSecret PROVE Fresh(createJob.new)'
      BY <1>1, <1>2, <2>1, <3>1 DEF CreateJobOwns, Fresh
    <3>2. createJob # Idle => createJob.record \in Record /\ createJob.record # c
      BY <1>1, JobTypes DEF CreateJobOwns, CreateJobs
    <3> QED
      BY <1>1, <1>2, <3>1, <3>2 DEF CreateJobOwns
  <2>6. DeletedPasswordsAreTracked'
    BY <1>1, <1>2, <2>1, <2>2 DEF DeletedPasswordsAreTracked
  <2> QED
    BY <1>1, <1>2, <2>3, <2>4, <2>5, <2>6 DEF Parts, EditJobOwns, SavedPasswordsReadable, Present
<1>4. CASE recordState[c] = "deleted"
  <2>1. cleanupQueue'[c] = cleanupQueue[c] /\ entrusted'[c] = entrusted[c]
        /\ savedSecret[c] = NoSecret
    BY <1>4 DEF DeleteCommits, StoreTypeOK, RowsAreApart, Present
  <2>2. \A d \in Record :
          /\ recordState'[d] = recordState[d] /\ savedSecret'[d] = savedSecret[d]
          /\ cleanupQueue'[d] = cleanupQueue[d] /\ entrusted'[d] = entrusted[d]
    BY <1>2, <1>4, <2>1
  <2>3. RowsAreApart' /\ QueueIsOfDeleted'
    BY <1>1, <2>2 DEF RowsAreApart, QueueIsOfDeleted, NoTx
  <2>4. CreateJobOwns'
    <3>1. createJob # Idle => createJob.record \in Record
      BY JobTypes DEF CreateJobs
    <3> QED
      BY <1>1, <2>2, <3>1 DEF CreateJobOwns, Fresh
  <2>5. EditJobOwns'
    BY <1>1 DEF EditJobOwns
  <2>6. SavedPasswordsReadable' /\ DeletedPasswordsAreTracked'
    BY <1>1, <2>2 DEF SavedPasswordsReadable, DeletedPasswordsAreTracked, Present
  <2> QED
    BY <2>3, <2>4, <2>5, <2>6 DEF Parts
<1> QED
  BY <1>1, <1>3, <1>4 DEF StoreTypeOK

\* What a visit leaves of the edit that asked for it.
LEMMA VisitEndsKeepsEdit ==
  ASSUME EditJobOwns, editJob' \in {editJob, Idle},
         UNCHANGED <<recordState, savedSecret, createJob>>,
         \A s : Fresh(s) /\ editJob.step = "stored" => Fresh(s)', minted \subseteq minted'
  PROVE  EditJobOwns'
<1>1. CASE editJob' = Idle
  BY <1>1 DEF EditJobOwns, Idle
<1>2. CASE editJob' = editJob
  BY <1>2 DEF EditJobOwns
<1> QED
  BY <1>1, <1>2

LEMMA CleanupBeginsKeeps ==
  ASSUME StoreInv, NEW c \in Record, NEW by \in {"delete", "startup", "user"}, CleanupBegins(by, c)
  PROVE  Parts'
<1> USE DEF StoreInv
<1>1. /\ UNCHANGED <<recordState, savedSecret, cleanupQueue, cleanupResult, keychain, minted, createJob,
                     entrusted>>
      /\ editJob' \in {editJob, Idle}
      /\ \/ cleanupTx' = NoTx
         \/ /\ cleanupQueue[c] # NoSecret
            /\ cleanupTx'.record = c
            /\ cleanupTx'.step = IF \E d \in Present : savedSecret[d] = cleanupQueue[c]
                                 THEN "shared" ELSE "owned"
  BY DEF CleanupBegins, VisitEnds
<1>2. RowsAreApart' /\ SavedPasswordsReadable' /\ DeletedPasswordsAreTracked'
  BY <1>1 DEF RowsAreApart, SavedPasswordsReadable, DeletedPasswordsAreTracked, Present
<1>3. QueueIsOfDeleted'
  <2>1. cleanupQueue[c] # NoSecret => ~\E d \in Present : savedSecret[d] = cleanupQueue[c]
    BY DEF RowsAreApart, Present
  <2> QED
    BY <1>1, <2>1 DEF QueueIsOfDeleted, NoTx
<1>4. CreateJobOwns'
  BY <1>1 DEF CreateJobOwns, Fresh
<1>5. EditJobOwns'
  BY <1>1, VisitEndsKeepsEdit DEF Fresh
<1> QED
  BY <1>2, <1>3, <1>4, <1>5 DEF Parts

LEMMA CleanupRemovesKeeps ==
  ASSUME StoreInv, CleanupRemoves
  PROVE  Parts'
<1> USE DEF StoreInv
<1> DEFINE q == cleanupQueue[cleanupTx.record]
<1>0. cleanupTx \in CleanupTxs /\ cleanupTx # NoTx
  BY JobTypes DEF CleanupRemoves
<1>1. /\ UNCHANGED <<recordState, savedSecret, cleanupQueue, cleanupResult, minted, createJob, editJob,
                     entrusted>>
      /\ keychain' = keychain \ {q}
      /\ cleanupTx.record \in Record
      /\ cleanupTx'.step = "removed" /\ cleanupTx'.record = cleanupTx.record
  BY <1>0 DEF CleanupRemoves, CleanupTxs
<1>2. q # NoSecret /\ \A c \in Record : savedSecret[c] # q
  BY <1>0, <1>1 DEF QueueIsOfDeleted, RowsAreApart
<1>3. \A s : Fresh(s) => Fresh(s)'
  BY <1>1 DEF Fresh
<1>4. QueueIsOfDeleted'
  BY <1>1, <1>2 DEF QueueIsOfDeleted
<1> HIDE DEF q
<1>5. RowsAreApart'
  BY <1>1 DEF RowsAreApart
<1>6. CreateJobOwns' /\ EditJobOwns'
  BY <1>1, <1>3 DEF CreateJobOwns, EditJobOwns
<1>7. SavedPasswordsReadable' /\ DeletedPasswordsAreTracked'
  BY <1>1, <1>2 DEF SavedPasswordsReadable, DeletedPasswordsAreTracked, Present
<1> QED
  BY <1>4, <1>5, <1>6, <1>7 DEF Parts

LEMMA CleanupEndsKeeps ==
  ASSUME StoreInv, CleanupRefused \/ CleanupCommits \/ CleanupRollsBack
  PROVE  Parts'
<1> USE DEF StoreInv
<1> DEFINE r == cleanupTx.record
<1>0. cleanupTx \in CleanupTxs /\ cleanupTx # NoTx
  BY JobTypes DEF CleanupRefused, CleanupCommits, CleanupRollsBack
<1>1. /\ UNCHANGED <<recordState, savedSecret, keychain, minted, createJob, entrusted>>
      /\ editJob' \in {editJob, Idle}
      /\ cleanupTx' = NoTx
      /\ r \in Record
  BY <1>0 DEF CleanupRefused, CleanupCommits, CleanupRollsBack, VisitEnds, CleanupTxs
<1>2. /\ cleanupQueue'[r] \in {cleanupQueue[r], NoSecret}
      /\ \A c \in Record \ {r} :
           cleanupQueue'[c] = cleanupQueue[c] /\ cleanupResult'[c] = cleanupResult[c]
  BY <1>0, <1>1 DEF CleanupRefused, CleanupCommits, CleanupRollsBack, StoreTypeOK
<1>3. \/ cleanupQueue'[r] = cleanupQueue[r] /\ cleanupResult'[r] \in {cleanupResult[r], "pending"}
      \/ cleanupQueue[r] \notin keychain
  BY <1>0, <1>1 DEF CleanupRefused, CleanupCommits, CleanupRollsBack, StoreTypeOK, QueueIsOfDeleted
<1>4. recordState[r] = "deleted"
  BY <1>0, <1>1 DEF QueueIsOfDeleted
<1> HIDE DEF r
<1>5. \A s : Fresh(s) /\ s # NoSecret => Fresh(s)'
  BY <1>1, <1>2 DEF Fresh
<1>6. RowsAreApart'
  BY <1>1, <1>2 DEF RowsAreApart
<1>7. QueueIsOfDeleted'
  BY <1>1, <1>2, <1>4 DEF QueueIsOfDeleted, NoTx
<1>8. CreateJobOwns'
  BY <1>1, <1>5 DEF CreateJobOwns
<1>9. EditJobOwns'
  <2>1. \A s : Fresh(s) => s # NoSecret
    BY DEF Fresh, StoreTypeOK
  <2> QED
    BY <1>1, <1>5, <2>1, VisitEndsKeepsEdit
<1>10. SavedPasswordsReadable' /\ DeletedPasswordsAreTracked'
  BY <1>1, <1>2, <1>3 DEF SavedPasswordsReadable, DeletedPasswordsAreTracked, Present
<1> QED
  BY <1>6, <1>7, <1>8, <1>9, <1>10 DEF Parts

LEMMA StoreInvNext == StoreInv /\ [StoreNext]_storeVars => StoreInv'
<1> SUFFICES ASSUME StoreInv, [StoreNext]_storeVars PROVE StoreInv'
  OBVIOUS
<1>0. StoreTypeOK'
  BY StoreTypeNext DEF StoreInv
<1>1. CASE UNCHANGED storeVars
  BY <1>1 DEF storeVars, StoreInv, Parts, StoreTypeOK, RowsAreApart, QueueIsOfDeleted, CreateJobOwns,
              EditJobOwns, Fresh, SavedPasswordsReadable, DeletedPasswordsAreTracked, Present
<1>2. CASE StoreNext
  <2>1. Parts'
    BY <1>2, CreateStoresKeeps, UpdateStoresKeeps, CreateEndsKeeps, ForgettingKeeps, UpdateWritesKeeps,
       UpdateRemovesOldKeeps, DeleteCommitsKeeps, CleanupBeginsKeeps, CleanupRemovesKeeps,
       CleanupEndsKeeps DEF StoreNext
  <2> QED
    BY <1>0, <2>1 DEF StoreInv, Parts
<1> QED
  BY <1>1, <1>2

-----------------------------------------------------------------------------
(* Every reachable state of the configuration store is well typed, and the   *)
(* Keychain holds only items that some save has minted.                     *)
THEOREM StoreTypeCorrect == StoreSpec => []StoreTypeOK
<1>1. StoreInv => StoreTypeOK
  BY DEF StoreInv
<1> QED
  BY <1>1, StoreInvInit, StoreInvNext, PTL DEF StoreSpec

(* update_connection, delete_connection and the cleanup of credentials: no   *)
(* password is removed while a row needs it, and that of a deleted          *)
(* connection is gone or queued, through every crash and refusal.           *)
THEOREM CredentialsCorrect == StoreSpec => []CredentialSafety
<1>1. StoreInv => CredentialSafety
  BY DEF StoreInv, CredentialSafety
<1> QED
  BY <1>1, StoreInvInit, StoreInvNext, PTL DEF StoreSpec

-----------------------------------------------------------------------------
(* The master key.  SecretsStayReadable says nothing of the operations under *)
(* way; the invariant below adds what each of them may have in hand.        *)

USE MasterKeyAssumption

\* The operations that have chosen a key, and those that know it is stored.
Choosers == {o \in Operation : keyStage[o] \in {"write", "fill"}}
Owners == {o \in Operation : keyStage[o] \in {"cleanup", "ready"}}

(* Every key in use has been minted, and what is in the store has been       *)
(* stored by somebody.                                                      *)
KeysAreKnown ==
  /\ IsFiniteSet(stored)
  /\ legacyKey \in mintedKeys \cup {NoMasterKey}
  /\ keyStore \in stored \cup {NoMasterKey, Torn}
  /\ stored # {} => keyStore # NoMasterKey
  /\ \A o \in Choosers : keyOf[o] \in mintedKeys
  /\ \A o \in Owners : keyOf[o] \in stored

(* A store that only creates: one operation fills it, and from then on       *)
(* everybody has the same key.                                              *)
NeverReplaced == CreateOnly =>
  /\ saved \subseteq {keyStore}
  /\ \A o \in Owners : keyOf[o] = keyStore
  /\ \A o \in Operation : keyStage[o] = "fill" =>
       /\ keyStore = Torn
       /\ \A p \in Operation : keyStage[p] = "fill" => p = o

(* The others: until a key is stored everybody who chose one took over the  *)
(* old one, if there is any; afterwards secrets are saved under stored keys. *)
OldKeyIsTakenOver == TakesOver =>
  /\ stored = {} =>
       /\ saved \subseteq {legacyKey}
       /\ legacyKey # NoMasterKey => \A o \in Choosers : keyOf[o] = legacyKey
  /\ stored # {} => saved \subseteq stored

KeyInv == KeyTypeOK /\ KeysAreKnown /\ NeverReplaced /\ OldKeyIsTakenOver

-----------------------------------------------------------------------------
LEMMA KeyInvInit == KeyInit => KeyInv
<1> SUFFICES ASSUME KeyInit PROVE KeyInv
  OBVIOUS
<1> USE DEF Choosers, Owners
<1>1. legacyKey \in MasterKeys \cup {NoMasterKey} /\ \A o \in Operation : keyStage[o] = "idle"
  BY DEF KeyInit
<1>2. KeyTypeOK
  BY <1>1 DEF KeyInit, KeyTypeOK
<1>3. KeysAreKnown
  BY <1>1, FS_EmptySet DEF KeyInit, KeysAreKnown
<1>4. NeverReplaced
  BY <1>1 DEF KeyInit, NeverReplaced, CreateOnly, TakesOver
<1>5. OldKeyIsTakenOver
  BY <1>1 DEF KeyInit, OldKeyIsTakenOver
<1> QED
  BY <1>2, <1>3, <1>4, <1>5 DEF KeyInv

\* Steps that touch neither the keys nor what is stored: an operation begins,
\* looks the key up or dies.
LEMMA SearchKeepsInv ==
  ASSUME KeyInv, NEW o \in Operation, BeginSecret(o) \/ LookUp(o) \/ OperationDies(o)
  PROVE  KeyInv'
<1> USE DEF KeyInv, Proceeds, Choosers, Owners
<1>0. UNCHANGED <<backend, keyStore, legacyKey, mintedKeys, saved, stored>>
  BY DEF BeginSecret, LookUp, OperationDies
<1>1. /\ keyStage' \in [Operation -> {"idle", "lookup", "missing", "write", "fill", "cleanup", "ready"}]
      /\ keyOf' \in [Operation -> MasterKeys \cup {NoMasterKey}]
  BY DEF BeginSecret, LookUp, OperationDies, KeyTypeOK
<1>2. \/ keyStage'[o] \in {"idle", "lookup", "missing"}
      \/ keyStage'[o] = "ready" /\ keyOf'[o] = keyStore /\ keyStore \in MasterKeys
  <2>1. CASE BeginSecret(o)
    BY <2>1 DEF BeginSecret, KeyTypeOK
  <2>2. CASE LookUp(o)
    BY <2>2 DEF LookUp, KeyTypeOK
  <2>3. CASE OperationDies(o)
    BY <2>3 DEF OperationDies, KeyTypeOK
  <2> QED
    BY <2>1, <2>2, <2>3
<1>3. \A p \in Operation \ {o} : keyStage'[p] = keyStage[p] /\ keyOf'[p] = keyOf[p]
  BY DEF BeginSecret, LookUp, OperationDies, KeyTypeOK
<1>4. KeyTypeOK'
  BY <1>0, <1>1 DEF KeyTypeOK
<1>5. KeysAreKnown'
  BY <1>0, <1>2, <1>3 DEF KeysAreKnown
<1>6. NeverReplaced'
  BY <1>0, <1>2, <1>3 DEF NeverReplaced, CreateOnly
<1>7. OldKeyIsTakenOver'
  BY <1>0, <1>2, <1>3 DEF OldKeyIsTakenOver, TakesOver
<1> QED
  BY <1>4, <1>5, <1>6, <1>7

LEMMA ChoosingKeepsInv ==
  ASSUME KeyInv, NEW o \in Operation, ChooseKey(o)
  PROVE  KeyInv'
<1> USE DEF KeyInv, ChooseKey, Mints, Proceeds, Choosers, Owners
<1>1. KeyTypeOK'
  BY DEF KeyTypeOK
<1>2. keyStage'[o] = "write" /\ keyOf'[o] \in mintedKeys'
      /\ (legacyKey # NoMasterKey => keyOf'[o] = legacyKey)
  BY DEF KeyTypeOK, KeysAreKnown
<1>3. \A p \in Operation \ {o} : keyStage'[p] = keyStage[p] /\ keyOf'[p] = keyOf[p]
  BY DEF KeyTypeOK
<1>4. KeysAreKnown'
  BY <1>2, <1>3 DEF KeysAreKnown
<1>5. NeverReplaced'
  BY <1>2, <1>3 DEF NeverReplaced, CreateOnly
<1>6. OldKeyIsTakenOver'
  BY <1>2, <1>3 DEF OldKeyIsTakenOver, TakesOver
<1> QED
  BY <1>1, <1>4, <1>5, <1>6

\* Opening a file empties it; a store that only creates was empty before.
LEMMA OpeningKeepsInv ==
  ASSUME KeyInv, NEW o \in Operation, keyStage[o] = "write",
         CreateOnly => keyStore = NoMasterKey,
         keyStore' = Torn, Proceeds(o, "fill"),
         UNCHANGED <<backend, legacyKey, mintedKeys, saved, keyOf, stored>>
  PROVE  KeyInv'
<1> USE DEF KeyInv, Proceeds, Choosers, Owners
<1>1. KeyTypeOK'
  BY DEF KeyTypeOK
<1>2. keyStage'[o] = "fill"
      /\ \A p \in Operation \ {o} : keyStage'[p] = keyStage[p]
  BY DEF KeyTypeOK
<1>3. KeysAreKnown'
  BY <1>2 DEF KeysAreKnown, KeyTypeOK
<1>4. NeverReplaced'
  <2> SUFFICES ASSUME CreateOnly PROVE NeverReplaced'
    BY DEF NeverReplaced, CreateOnly
  <2>1. saved = {} /\ Owners = {} /\ \A p \in Operation : keyStage[p] # "fill"
    BY DEF NeverReplaced, KeyTypeOK, KeysAreKnown
  <2> QED
    BY <2>1, <1>2 DEF NeverReplaced
<1>5. OldKeyIsTakenOver'
  BY <1>2 DEF OldKeyIsTakenOver, TakesOver
<1> QED
  BY <1>1, <1>3, <1>4, <1>5

\* The key is in the store, written at once or into the file that was opened.
LEMMA StoringKeepsInv ==
  ASSUME KeyInv, NEW o \in Operation, keyStage[o] \in {"write", "fill"},
         CreateOnly => keyStage[o] = "fill" \/ keyStore = NoMasterKey,
         keyStore' = keyOf[o], stored' = stored \cup {keyOf[o]},
         Proceeds(o, IF TakesOver THEN "cleanup" ELSE "ready"),
         UNCHANGED <<backend, legacyKey, mintedKeys, saved, keyOf>>
  PROVE  KeyInv'
<1> USE DEF KeyInv, Proceeds, Choosers, Owners
<1>0. keyOf[o] \in mintedKeys /\ keyOf[o] \in MasterKeys
  BY DEF KeysAreKnown, KeyTypeOK
<1>1. KeyTypeOK'
  BY <1>0 DEF KeyTypeOK
<1>2. keyStage'[o] \in {"cleanup", "ready"}
      /\ \A p \in Operation \ {o} : keyStage'[p] = keyStage[p]
  BY DEF KeyTypeOK
<1>3. IsFiniteSet(stored')
  BY FS_AddElement DEF KeysAreKnown
<1>4. KeysAreKnown'
  BY <1>0, <1>2, <1>3 DEF KeysAreKnown
<1>5. NeverReplaced'
  <2> SUFFICES ASSUME CreateOnly PROVE NeverReplaced'
    BY DEF NeverReplaced, CreateOnly
  <2>1. keyStore \in {NoMasterKey, Torn}
    BY DEF NeverReplaced
  <2>2. saved = {} /\ Owners = {}
    BY <2>1 DEF NeverReplaced, KeyTypeOK, KeysAreKnown
  <2>3. \A p \in Operation \ {o} : keyStage[p] # "fill"
    BY DEF NeverReplaced
  <2> QED
    BY <2>2, <2>3, <1>2 DEF NeverReplaced
<1>6. OldKeyIsTakenOver'
  <2> SUFFICES ASSUME TakesOver PROVE OldKeyIsTakenOver'
    BY DEF OldKeyIsTakenOver, TakesOver
  <2>1. CASE stored # {}
    BY <2>1 DEF OldKeyIsTakenOver
  <2>2. CASE stored = {}
    <3>1. saved \subseteq {legacyKey} /\ (legacyKey # NoMasterKey => keyOf[o] = legacyKey)
      BY <2>2 DEF OldKeyIsTakenOver
    <3>2. saved \subseteq {keyOf[o]}
      BY <3>1 DEF KeyTypeOK
    <3> QED
      BY <3>2 DEF OldKeyIsTakenOver
  <2> QED
    BY <2>1, <2>2
<1> QED
  BY <1>1, <1>4, <1>5, <1>6

LEMMA WritingKeepsInv ==
  ASSUME KeyInv, NEW o \in Operation, WriteKey(o)
  PROVE  KeyInv'
<1>1. CASE ~IsFile /\ (CreateOnly => keyStore = NoMasterKey) /\ keyStore' = keyOf[o]
           /\ stored' = stored \cup {keyOf[o]}
           /\ Proceeds(o, IF TakesOver THEN "cleanup" ELSE "ready")
  BY <1>1, StoringKeepsInv DEF WriteKey
<1>2. CASE IsFile /\ (CreateOnly => keyStore = NoMasterKey) /\ keyStore' = Torn
           /\ Proceeds(o, "fill") /\ UNCHANGED stored
  BY <1>2, OpeningKeepsInv DEF WriteKey
<1>3. CASE Proceeds(o, "idle") /\ UNCHANGED <<keyStore, stored>>
  <2> keyStage[o] # "idle"
    BY DEF WriteKey
  <2> OperationDies(o)
    BY <1>3 DEF WriteKey, OperationDies
  <2> QED
    BY SearchKeepsInv
<1> QED
  BY <1>1, <1>2, <1>3 DEF WriteKey

LEMMA UsingKeepsInv ==
  ASSUME KeyInv, NEW o \in Operation, RemoveLegacyKey(o) \/ UseKey(o)
  PROVE  KeyInv'
<1> USE DEF KeyInv, Proceeds, Choosers, Owners
<1>0. keyOf[o] \in stored /\ (CreateOnly => keyOf[o] = keyStore)
  BY DEF RemoveLegacyKey, UseKey, KeysAreKnown, NeverReplaced
<1>1. /\ UNCHANGED <<backend, keyStore, mintedKeys, keyOf, stored>>
      /\ legacyKey' \in {legacyKey, NoMasterKey}
      /\ saved' \in {saved, saved \cup {keyOf[o]}}
  BY DEF RemoveLegacyKey, UseKey
<1>2. /\ keyStage' \in [Operation -> {"idle", "lookup", "missing", "write", "fill", "cleanup", "ready"}]
      /\ \A p \in Operation \ {o} : keyStage'[p] = keyStage[p]
      /\ keyStage[o] \in {"cleanup", "ready"} /\ keyStage'[o] \in {"idle", "ready"}
  BY DEF RemoveLegacyKey, UseKey, KeyTypeOK
<1>3. KeyTypeOK'
  BY <1>0, <1>1, <1>2 DEF KeyTypeOK
<1>4. KeysAreKnown'
  BY <1>1, <1>2 DEF KeysAreKnown
<1>5. NeverReplaced'
  BY <1>0, <1>1, <1>2 DEF NeverReplaced, CreateOnly
<1>6. OldKeyIsTakenOver'
  BY <1>0, <1>1 DEF OldKeyIsTakenOver, TakesOver
<1> QED
  BY <1>3, <1>4, <1>5, <1>6

LEMMA KeyInvNext == KeyInv /\ [KeyNext]_keyVars => KeyInv'
<1> SUFFICES ASSUME KeyInv, [KeyNext]_keyVars PROVE KeyInv'
  OBVIOUS
<1>1. CASE UNCHANGED keyVars
  BY <1>1 DEF keyVars, KeyInv, KeyTypeOK, KeysAreKnown, NeverReplaced, OldKeyIsTakenOver,
              Choosers, Owners, CreateOnly, TakesOver
<1>2. ASSUME NEW o \in Operation, BeginSecret(o) \/ LookUp(o) \/ OperationDies(o) PROVE KeyInv'
  BY <1>2, SearchKeepsInv
<1>3. ASSUME NEW o \in Operation, ChooseKey(o) PROVE KeyInv'
  BY <1>3, ChoosingKeepsInv
<1>4. ASSUME NEW o \in Operation, WriteKey(o) PROVE KeyInv'
  BY <1>4, WritingKeepsInv
<1>5. ASSUME NEW o \in Operation, FillFile(o) PROVE KeyInv'
  BY <1>5, StoringKeepsInv DEF FillFile
<1>6. ASSUME NEW o \in Operation, RemoveLegacyKey(o) \/ UseKey(o) PROVE KeyInv'
  BY <1>6, UsingKeepsInv
<1> QED
  BY <1>1, <1>2, <1>3, <1>4, <1>5, <1>6 DEF KeyNext

LEMMA KeyInvReadable == KeyInv => SecretsStayReadable
<1> SUFFICES ASSUME KeyInv PROVE SecretsStayReadable
  OBVIOUS
<1> USE DEF KeyInv
<1>1. CreateOnly => saved \subseteq {keyStore}
  BY DEF NeverReplaced
<1>2. ASSUME TakesOver, Cardinality(stored) <= 1, keyStore # Torn
      PROVE  saved \subseteq {IF keyStore = NoMasterKey THEN legacyKey ELSE keyStore}
  <2>1. Cardinality(stored) \in {0, 1}
    BY <1>2, FS_CardinalityType DEF KeysAreKnown
  <2>2. stored = {} \/ \E k : stored = {k}
    BY <2>1, FS_EmptySet, FS_Singleton DEF KeysAreKnown
  <2>3. CASE stored = {}
    BY <1>2, <2>3 DEF KeysAreKnown, OldKeyIsTakenOver
  <2>4. CASE \E k : stored = {k}
    BY <1>2, <2>4 DEF KeysAreKnown, OldKeyIsTakenOver
  <2> QED
    BY <2>2, <2>3, <2>4
<1> QED
  BY <1>1, <1>2 DEF SecretsStayReadable

-----------------------------------------------------------------------------
(* Every reachable state of the key store is well typed: in particular no    *)
(* secret is ever saved under a key nobody minted.                          *)
THEOREM KeyTypeCorrect == KeySpec => []KeyTypeOK
<1>1. KeyInv => KeyTypeOK
  BY DEF KeyInv
<1> QED
  BY <1>1, KeyInvInit, KeyInvNext, PTL DEF KeySpec

(* load_or_create_current_key: saved secrets stay readable whatever races    *)
(* and whatever dies, for a store that only creates; the others lose them    *)
(* only to two operations that both store a key, or to a torn file.          *)
THEOREM ReadableCorrect == KeySpec => []SecretsStayReadable
BY KeyInvInit, KeyInvNext, KeyInvReadable, PTL DEF KeySpec

-----------------------------------------------------------------------------
(* Migrations.  The file is at one version at any time, and a launch that     *)
(* still has to apply something is due at most the next one.                *)

USE MigrationAssumption

StoreFile == [recorded : SUBSET Version, effects : SUBSET Version, source : DataSource]
Level == Cardinality(disk.recorded)

AtVersion(db, v) ==
  db.recorded = 1..v /\ db.effects = 1..v /\ db.source \in LeftAt(v)

\* The open transaction belongs to the migrator and is as far as that is.
MigratorWorks ==
  \A l \in Launch :
    /\ step[l] \in {"begun", "done", "recorded"} <=> migrator = l
    /\ step[l] = "begun" => work = disk
    /\ step[l] = "done" => work = Changed(disk, next[l]) /\ Applies(disk, next[l])
    /\ step[l] = "recorded" =>
         Level < 15 /\ Applies(disk, Level + 1) /\ AtVersion(work, Level + 1)

NextIsDue ==
  \A l \in Launch : step[l] \in {"waiting", "begun", "done"} =>
    /\ next[l] <= Level + 1
    /\ alone[l] => next[l] = Level + 1

AloneIsAlone ==
  \A l, o \in Launch : alone[l] /\ step[l] \in Up /\ o # l => step[o] \notin Up

\* How a launch may end.
LaunchesEnd ==
  \A l \in Launch :
    /\ step[l] \in {"clearing", "seeding", "open"} => Level = 15
    /\ step[l] \in {"seeding", "open"} /\ disk.source.tunnel = "off" => ~disk.source.secret
    /\ step[l] = "failed" /\ alone[l] => Level = 8 /\ disk.source.reference = "missing"

MigrationInv ==
  /\ MigrationTypeOK /\ disk \in StoreFile /\ work \in StoreFile
  /\ Level \in 0..15 /\ AtVersion(disk, Level)
  /\ MigratorWorks /\ NextIsDue /\ AloneIsAlone /\ LaunchesEnd

LEMMA LevelOf == ASSUME NEW v \in Nat PROVE Cardinality(1..v) = v
BY FS_Interval

LEMMA MigrationInvInit == MigrationInit => MigrationInv
<1> SUFFICES ASSUME MigrationInit PROVE MigrationInv
  OBVIOUS
<1>1. PICK v \in Olds : \E d \in LeftAt(v) : disk = [recorded |-> 1..v, effects |-> 1..v, source |-> d]
  BY DEF MigrationInit
<1>2. PICK d \in LeftAt(v) : disk = [recorded |-> 1..v, effects |-> 1..v, source |-> d]
  BY <1>1
<1>3. v \in 0..15 /\ Level = v /\ d \in DataSource
  BY <1>2, LevelOf DEF Level, LeftAt
<1>4. disk \in StoreFile /\ work \in StoreFile /\ AtVersion(disk, Level)
  BY <1>2, <1>3 DEF MigrationInit, StoreFile, Version, AtVersion
<1>5. MigrationTypeOK
  <2>1. /\ step \in [Launch -> Up \cup {"off", "failed"}] /\ next \in [Launch -> Version]
        /\ alone \in [Launch -> BOOLEAN] /\ starts \in 0..MaxStarts
    BY DEF MigrationInit, Version
  <2> QED
    BY <1>4, <2>1 DEF MigrationInit, MigrationTypeOK, StoreFile
<1> QED
  BY <1>3, <1>4, <1>5
     DEF MigrationInit, MigrationInv, MigratorWorks, NextIsDue, AloneIsAlone, LaunchesEnd, Up, Runs

\* What a version says of a data source, its flags read as conditions.
LEMMA LeftAtMeans ==
  ASSUME NEW v \in Int, NEW d \in DataSource
  PROVE  d \in LeftAt(v) <=>
           /\ d.reference = "unset" <=> v < 6
           /\ d.tunnel # "none" => v >= 8
           /\ d.secret => d.tunnel = "off"
           /\ d.grouped <=> (v >= 11 /\ d.group = "plain")
           /\ d.product <=> v >= 13
           /\ v >= 9 => d.reference # "missing"
<1>1. d.grouped \in BOOLEAN /\ d.product \in BOOLEAN /\ (v >= 13) \in BOOLEAN
  BY DEF DataSource
<1>2. (d.grouped = (v >= 11 /\ d.group = "plain")) <=> (d.grouped <=> (v >= 11 /\ d.group = "plain"))
  BY <1>1, Zenon
<1>3. (d.product = (v >= 13)) <=> (d.product <=> (v >= 13))
  BY <1>1, Zenon
<1>4. d \in LeftAt(v) <=>
           /\ d.reference = "unset" <=> v < 6
           /\ d.tunnel # "none" => v >= 8
           /\ d.secret => d.tunnel = "off"
           /\ d.grouped = (v >= 11 /\ d.group = "plain")
           /\ d.product = (v >= 13)
           /\ v >= 9 => d.reference # "missing"
  BY Zenon DEF LeftAt
<1> QED
  BY <1>2, <1>3, <1>4, Zenon

\* What a migration does to each field of a data source.
LEMMA MigratedFields ==
  ASSUME NEW v \in Version, NEW d \in DataSource
  PROVE  LET m == MigratedStore(d, v) IN
         /\ m \in DataSource
         /\ m.tunnel = d.tunnel /\ m.secret = d.secret /\ m.group = d.group
         /\ m.reference = IF v = 6 /\ d.reference = "unset" THEN "builtin" ELSE d.reference
         /\ m.grouped <=> d.grouped \/ (v = 11 /\ d.group = "plain")
         /\ m.product <=> d.product \/ v = 13
<1> DEFINE m == MigratedStore(d, v)
<1>1. /\ v = 11 => m = [d EXCEPT !.grouped = d.grouped \/ d.group = "plain"]
      /\ v = 6 => m = [d EXCEPT !.reference = IF d.reference = "unset" THEN "builtin" ELSE d.reference]
      /\ v = 13 => m = [d EXCEPT !.product = TRUE]
      /\ v \notin {6, 11, 13} => m = d
  BY DEF MigratedStore
<1> HIDE DEF m
<1>2. m \in DataSource
  BY <1>1 DEF DataSource
<1>3. m.tunnel = d.tunnel /\ m.secret = d.secret /\ m.group = d.group
      /\ m.reference = IF v = 6 /\ d.reference = "unset" THEN "builtin" ELSE d.reference
  BY <1>1 DEF DataSource
<1>4. m.grouped <=> d.grouped \/ (v = 11 /\ d.group = "plain")
  <2>1. v = 11 => m.grouped = (d.grouped \/ d.group = "plain")
    BY <1>1 DEF DataSource
  <2>2. v # 11 => m.grouped = d.grouped
    BY <1>1 DEF DataSource
  <2> QED
    BY <2>1, <2>2, Zenon
<1>5. m.product <=> d.product \/ v = 13
  <2>1. v = 13 => m.product = TRUE
    BY <1>1 DEF DataSource
  <2>2. v # 13 => m.product = d.product
    BY <1>1 DEF DataSource
  <2> QED
    BY <2>1, <2>2, Zenon
<1> QED
  BY <1>2, <1>3, <1>4, <1>5 DEF m

\* A migration that applies to a file at the version before it takes it to its own.
LEMMA MigratingOneUp ==
  ASSUME NEW v \in 0..14, NEW d \in LeftAt(v), v + 1 = 9 => d.reference # "missing"
  PROVE  MigratedStore(d, v + 1) \in LeftAt(v + 1)
<1>0. d \in DataSource /\ v + 1 \in Version
  BY DEF LeftAt, Version
<1> DEFINE m == MigratedStore(d, v + 1)
<1>1. /\ m \in DataSource
      /\ m.tunnel = d.tunnel /\ m.secret = d.secret /\ m.group = d.group
      /\ m.reference = IF v + 1 = 6 /\ d.reference = "unset" THEN "builtin" ELSE d.reference
      /\ m.grouped <=> d.grouped \/ (v + 1 = 11 /\ d.group = "plain")
      /\ m.product <=> d.product \/ v + 1 = 13
  BY <1>0, MigratedFields
<1> HIDE DEF m
<1>2. /\ d.reference = "unset" <=> v < 6
      /\ d.tunnel # "none" => v >= 8
      /\ d.secret => d.tunnel = "off"
      /\ d.grouped <=> (v >= 11 /\ d.group = "plain")
      /\ d.product <=> v >= 13
      /\ v >= 9 => d.reference # "missing"
  BY <1>0, LeftAtMeans
<1>3. m \in LeftAt(v + 1)
  <2>1. m.reference = "unset" <=> v + 1 < 6
    BY <1>1, <1>2
  <2>2. m.grouped <=> (v + 1 >= 11 /\ m.group = "plain")
    BY <1>1, <1>2
  <2>3. m.product <=> v + 1 >= 13
    BY <1>1, <1>2
  <2>4. (m.tunnel # "none" => v + 1 >= 8) /\ (v + 1 >= 9 => m.reference # "missing")
    BY <1>1, <1>2
  <2> QED
    BY <1>1, <1>2, <2>1, <2>2, <2>3, <2>4, LeftAtMeans
<1> QED
  BY <1>3 DEF m

\* A step that leaves the file alone keeps everything that is said of it.
LEMMA MigrationInvNext == MigrationInv /\ [MigrationNext]_migrationVars => MigrationInv'
<1> SUFFICES ASSUME MigrationInv, [MigrationNext]_migrationVars PROVE MigrationInv'
  OBVIOUS
<1> USE DEF MigrationInv
<1>t. /\ migrator \in Launch \cup {Nobody} /\ step \in [Launch -> Up \cup {"off", "failed"}]
      /\ next \in [Launch -> Version] /\ alone \in [Launch -> BOOLEAN] /\ starts \in 0..MaxStarts
      /\ disk.recorded = 1..Level /\ disk.effects = 1..Level /\ disk.source \in LeftAt(Level)
  BY DEF MigrationTypeOK, AtVersion
<1>k. ASSUME disk' \in StoreFile, work' \in StoreFile, migrator' \in Launch \cup {Nobody},
             step' \in [Launch -> Up \cup {"off", "failed"}], next' \in [Launch -> Version],
             alone' \in [Launch -> BOOLEAN], starts' \in 0..MaxStarts
      PROVE  MigrationTypeOK'
  BY <1>k DEF MigrationTypeOK, StoreFile
<1>l. ASSUME UNCHANGED disk PROVE Level' = Level /\ AtVersion(disk, Level)'
  BY <1>l DEF Level, AtVersion
<1>1. ASSUME NEW l \in Launch, Start(l) PROVE MigrationInv'
  <2> USE <1>1 DEF Start, GoTo
  <2>1. /\ step' = [step EXCEPT ![l] = "checking"] /\ step[l] \in {"off", "failed"}
        /\ UNCHANGED <<disk, work, migrator, next>>
    OBVIOUS
  <2>2. alone' \in [Launch -> BOOLEAN]
    <3>1. ASSUME NEW o \in Launch PROVE alone'[o] \in BOOLEAN
      BY <1>t
    <3> QED
      BY <3>1
  <2>3. starts' \in 0..MaxStarts /\ step' \in [Launch -> Up \cup {"off", "failed"}]
    BY <1>t DEF MigrationAssumption, Up, Runs
  <2>4. MigrationTypeOK'
    BY <1>k, <1>t, <2>1, <2>2, <2>3
  <2>5. \A o \in Launch \ {l} : step'[o] = step[o] /\ (alone'[o] => alone[o] /\ step[o] \notin Up)
    BY <1>t DEF Up, Runs
  <2>6. alone'[l] => \A o \in Launch \ {l} : step[o] \notin Up
    BY <1>t
  <2>7. step'[l] = "checking" /\ Level' = Level
    BY <1>t, <1>l, <2>1
  <2>8. MigratorWorks' /\ NextIsDue'
    BY ZenonT(40), <1>l, <2>1, <2>5, <2>7 DEF MigratorWorks, NextIsDue, Changed, Applies
  <2>9. AloneIsAlone'
    BY <2>5, <2>6, <2>7 DEF AloneIsAlone
  <2>10. LaunchesEnd'
    BY <2>1, <2>5, <2>7 DEF LaunchesEnd
  <2> QED
    BY <1>l, <2>1, <2>4, <2>7, <2>8, <2>9, <2>10
\* A launch that has no transaction goes on by itself: the file and the others stay as they are.
<1>a. ASSUME NEW l \in Launch, NEW where \in {"clearing", "waiting", "failed", "open"},
             step[l] \in {"checking", "waiting", "seeding"}, GoTo(l, where),
             UNCHANGED <<disk, work, migrator, alone, starts>>,
             next' \in [Launch -> Version], \A o \in Launch \ {l} : next'[o] = next[o]
      PROVE  /\ MigrationTypeOK' /\ MigratorWorks' /\ AloneIsAlone'
             /\ \A o \in Launch \ {l} : step'[o] = step[o]
             /\ step'[l] = where
  <2>1. step'[l] = where /\ \A o \in Launch \ {l} : step'[o] = step[o]
    BY <1>a, <1>t DEF GoTo
  <2>2. MigrationTypeOK'
    BY <1>k, <1>a, <1>t DEF GoTo, Up, Runs
  <2>3. \A o \in Launch : step'[o] \in {"begun", "done", "recorded"} =>
          step'[o] = step[o] /\ next'[o] = next[o]
    BY <1>a, <2>1
  <2>4. MigratorWorks'
    BY ZenonT(40), <1>a, <1>l, <2>1, <2>3 DEF MigratorWorks, Changed, Applies
  <2>5. AloneIsAlone'
    BY <1>a, <2>1 DEF AloneIsAlone, Up, Runs
  <2> QED
    BY <2>1, <2>2, <2>4, <2>5
<1>2. ASSUME NEW l \in Launch, Check(l) PROVE MigrationInv'
  <2> DEFINE missing == Version \ disk.recorded
  <2>1. UNCHANGED <<disk, work, migrator, alone, starts>> /\ step[l] = "checking"
    BY <1>2 DEF Check
  <2>2. CASE missing = {} /\ GoTo(l, "clearing") /\ UNCHANGED next
    <3>1. Level = 15
      <4>1. 15 \in disk.recorded /\ disk.recorded = 1..Level /\ Level \in 0..15
        BY <1>t, <2>2 DEF Version
      <4> QED
        BY <4>1
    <3>2. /\ MigrationTypeOK' /\ MigratorWorks' /\ AloneIsAlone'
          /\ \A o \in Launch \ {l} : step'[o] = step[o]
          /\ step'[l] = "clearing"
      BY <1>a, <1>t, <2>1, <2>2
    <3>3. NextIsDue' /\ LaunchesEnd'
      BY <1>l, <2>1, <2>2, <3>1, <3>2 DEF NextIsDue, LaunchesEnd
    <3> QED
      BY <1>l, <2>1, <3>2, <3>3
  <2>3. CASE missing # {} /\ GoTo(l, "waiting") /\ next' = [next EXCEPT ![l] = Min(missing)]
    <3>1. missing \in SUBSET Nat /\ missing # {} /\ Level < 15
      BY <1>t, <2>3 DEF Version
    <3>2. Level + 1 \in missing /\ \A v \in missing : Level + 1 <= v
      <4>1. disk.recorded = 1..Level /\ Level \in 0..15 /\ Version = 1..15
        BY <1>t DEF Version
      <4>2. missing = (1..15) \ (1..Level)
        BY <4>1
      <4>3. Level + 1 \in (1..15) \ (1..Level)
        BY <3>1, <4>1
      <4>4. \A v \in (1..15) \ (1..Level) : Level + 1 <= v
        BY <4>1
      <4> HIDE DEF missing
      <4> QED
        BY <4>2, <4>3, <4>4
    <3> DEFINE m == Min(missing)
    <3> HIDE DEF missing
    <3>3. m \in missing /\ m <= Level + 1 /\ Level + 1 <= m
      BY <3>1, <3>2, MinIsLeast
    <3>4. m = Level + 1 /\ m \in Version
      <4> HIDE DEF m
      <4> QED
        BY <3>1, <3>3, <1>t DEF Version
    <3>5. next'[l] = Level + 1 /\ next' \in [Launch -> Version]
          /\ \A o \in Launch \ {l} : next'[o] = next[o]
      BY <1>t, <2>3, <3>4
    <3>6. /\ MigrationTypeOK' /\ MigratorWorks' /\ AloneIsAlone'
          /\ \A o \in Launch \ {l} : step'[o] = step[o]
          /\ step'[l] = "waiting"
      BY <1>a, <2>1, <2>3, <3>5
    <3>7. NextIsDue' /\ LaunchesEnd'
      BY <1>l, <2>1, <3>5, <3>6 DEF NextIsDue, LaunchesEnd
    <3> QED
      BY <1>l, <2>1, <3>6, <3>7
  <2> QED
    BY <1>2, <2>2, <2>3 DEF Check
<1>3. ASSUME NEW l \in Launch, Begin(l) PROVE MigrationInv'
  <2>1. /\ step[l] = "waiting" /\ migrator = Nobody /\ step' = [step EXCEPT ![l] = "begun"]
        /\ migrator' = l /\ work' = disk /\ UNCHANGED <<disk, next, alone, starts>>
    BY <1>3 DEF Begin, GoTo
  <2>2. MigrationTypeOK'
    BY <1>k, <1>t, <2>1 DEF Up, Runs
  <2>3. \A o \in Launch : step[o] \notin {"begun", "done", "recorded"}
    BY <2>1 DEF MigratorWorks
  <2> QED
    BY <1>l, <1>t, <2>1, <2>2, <2>3
       DEF MigratorWorks, NextIsDue, AloneIsAlone, LaunchesEnd, Up, Runs
<1>4. ASSUME NEW l \in Launch, BeginTimesOut(l) PROVE MigrationInv'
  <2>1. /\ step[l] = "waiting" /\ migrator \in Launch \ {l} /\ step' = [step EXCEPT ![l] = "failed"]
        /\ UNCHANGED <<disk, work, migrator, next, alone, starts>>
    BY <1>4, <1>t DEF BeginTimesOut, GoTo, MigratorWorks
  <2>2. /\ MigrationTypeOK' /\ MigratorWorks' /\ AloneIsAlone'
        /\ \A o \in Launch \ {l} : step'[o] = step[o]
        /\ step'[l] = "failed"
    BY <1>a, <1>t, <2>1 DEF GoTo
  <2>3. ~alone[l]
    BY <2>1 DEF AloneIsAlone, MigratorWorks, Up, Runs
  <2>4. NextIsDue' /\ LaunchesEnd'
    BY <1>l, <2>1, <2>2, <2>3 DEF NextIsDue, LaunchesEnd
  <2> QED
    BY <1>l, <2>1, <2>2, <2>4
\* What the migrator could not do is undone.
<1>5. ASSUME NEW l \in Launch, step[l] \in {"begun", "done"}, RollBack(l),
             UNCHANGED <<next, alone, starts>>,
             alone[l] => Level = 8 /\ disk.source.reference = "missing"
      PROVE  MigrationInv'
  <2>1. /\ step' = [step EXCEPT ![l] = "failed"] /\ migrator' = Nobody /\ work' = disk
        /\ UNCHANGED disk /\ migrator = l
    BY <1>5 DEF RollBack, GoTo, MigratorWorks
  <2>2. MigrationTypeOK'
    BY <1>k, <1>t, <1>5, <2>1
  <2>3. \A o \in Launch \ {l} : step[o] \notin {"begun", "done", "recorded"}
    BY <2>1 DEF MigratorWorks
  <2> QED
    BY <1>l, <1>t, <1>5, <2>1, <2>2, <2>3
       DEF MigratorWorks, NextIsDue, AloneIsAlone, LaunchesEnd, Up, Runs
<1>6. ASSUME NEW l \in Launch, Apply(l) PROVE MigrationInv'
  <2>0. step[l] = "begun" /\ migrator = l /\ work = disk
        /\ (alone[l] => next[l] = Level + 1) /\ next[l] \in Version
    BY <1>6, <1>t DEF Apply, MigratorWorks, NextIsDue
  <2>1. CASE ~Applies(work, next[l])
    <3>1. alone[l] => Level = 8 /\ disk.source.reference = "missing"
      BY <1>t, <2>0, <2>1 DEF Applies
    <3> QED
      BY <1>5, <1>6, <2>0, <2>1, <3>1 DEF Apply
  <2>2. CASE Applies(work, next[l])
    <3>1. /\ work' = Changed(work, next[l]) /\ step' = [step EXCEPT ![l] = "done"]
          /\ UNCHANGED <<disk, migrator, next, alone, starts>>
      BY <1>6, <2>2 DEF Apply, GoTo
    <3>2. work' \in StoreFile
      BY <2>0, <3>1, MigratedFields DEF Changed, StoreFile, Version
    <3>3. MigrationTypeOK'
      BY <1>k, <1>t, <3>1, <3>2 DEF Up, Runs
    <3>4. MigratorWorks'
      BY <1>t, <2>0, <2>2, <3>1 DEF MigratorWorks, Changed, Applies
    <3> QED
      BY <1>l, <1>t, <2>0, <3>1, <3>2, <3>3, <3>4 DEF NextIsDue, AloneIsAlone, LaunchesEnd, Up, Runs
  <2> QED
    BY <2>1, <2>2
<1>7. ASSUME NEW l \in Launch, RecordVersion(l) PROVE MigrationInv'
  <2>0. /\ step[l] = "done" /\ migrator = l /\ work = Changed(disk, next[l]) /\ Applies(disk, next[l])
        /\ next[l] <= Level + 1 /\ (alone[l] => next[l] = Level + 1) /\ next[l] \in Version
    BY <1>7, <1>t DEF RecordVersion, MigratorWorks, NextIsDue
  <2>a. work.recorded = 1..Level /\ work.effects = 1..Level \cup {next[l]}
        /\ work.source = MigratedStore(disk.source, next[l])
    BY <1>t, <2>0 DEF Changed, StoreFile
  <2>1. CASE next[l] \in work.recorded
    <3>1. ~alone[l]
      BY <1>t, <2>0, <2>a, <2>1
    <3> QED
      BY <1>5, <1>7, <2>0, <2>1, <3>1 DEF RecordVersion
  <2>2. CASE next[l] \notin work.recorded
    <3>1. /\ work' = [work EXCEPT !.recorded = @ \cup {next[l]}]
          /\ step' = [step EXCEPT ![l] = "recorded"]
          /\ UNCHANGED <<disk, migrator, next, alone, starts>>
      BY <1>7, <2>2 DEF RecordVersion, GoTo
    <3>2. next[l] = Level + 1 /\ Level < 15
      BY <1>t, <2>0, <2>a, <2>2 DEF Version
    <3>3. work' \in StoreFile
      BY <2>0, <3>1 DEF StoreFile
    <3>4. MigrationTypeOK'
      BY <1>k, <1>t, <3>1, <3>3 DEF Up, Runs
    <3>5. work'.source \in LeftAt(Level + 1)
      <4>1. Level \in 0..14 /\ (Level + 1 = 9 => disk.source.reference # "missing")
        BY <1>t, <2>0, <3>2 DEF Applies
      <4> QED
        BY <1>t, <2>a, <3>1, <3>2, <4>1, MigratingOneUp DEF StoreFile
    <3>6. AtVersion(work', Level + 1)
        <4>1. 1..Level \cup {Level + 1} = 1..(Level + 1)
        OBVIOUS
      <4>2. work'.recorded = work.recorded \cup {Level + 1} /\ work'.effects = work.effects
        BY <3>1, <3>2 DEF StoreFile
      <4> QED
        BY <2>a, <3>2, <3>5, <4>1, <4>2 DEF AtVersion
    <3>7. MigratorWorks'
      BY <1>l, <1>t, <2>0, <3>1, <3>2, <3>6 DEF MigratorWorks, AtVersion
    <3> QED
      BY <1>l, <1>t, <2>0, <3>1, <3>3, <3>4, <3>7 DEF NextIsDue, AloneIsAlone, LaunchesEnd, Up, Runs
  <2> QED
    BY <2>1, <2>2
<1>8. ASSUME NEW l \in Launch, Commit(l) PROVE MigrationInv'
  <2>1. /\ step[l] = "recorded" /\ step' = [step EXCEPT ![l] = "checking"]
        /\ disk' = work /\ migrator' = Nobody /\ UNCHANGED <<work, next, alone, starts>>
    BY <1>8 DEF Commit, GoTo
  <2>2. migrator = l /\ Level < 15 /\ AtVersion(work, Level + 1)
    BY <2>1 DEF MigratorWorks
  <2>3. Level' = Level + 1
    BY <2>1, <2>2, LevelOf DEF Level, AtVersion
  <2>4. MigrationTypeOK'
    BY <1>k, <1>t, <2>1 DEF Up, Runs
  <2>5. AtVersion(disk, Level)'
    BY <2>1, <2>2, <2>3 DEF AtVersion
  <2>6. \A o \in Launch \ {l} : step'[o] = step[o] /\ step[o] \notin {"begun", "done", "recorded"}
    BY <1>t, <2>1, <2>2 DEF MigratorWorks
  <2>7. MigratorWorks'
    BY <1>t, <2>1, <2>6 DEF MigratorWorks
  <2>8. \A o \in Launch \ {l} : alone[o] => step[o] \notin Up
    BY <2>1 DEF AloneIsAlone, Up, Runs
  <2>9. NextIsDue'
    <3>1. ASSUME NEW o \in Launch, step'[o] \in {"waiting", "begun", "done"}
          PROVE  next'[o] <= Level + 1 /\ ~alone'[o]
      <4>1. o # l /\ step[o] \in {"waiting", "begun", "done"}
        BY <1>t, <2>1, <2>6, <3>1
      <4> QED
        BY <2>1, <2>8, <4>1 DEF NextIsDue, Up, Runs
    <3>2. \A o \in Launch : next'[o] \in Int
      BY <1>t, <2>1 DEF Version
    <3>3. \A n \in Int : n <= Level + 1 => n <= Level' + 1
      BY <2>3
    <3> QED
      BY <3>1, <3>2, <3>3 DEF NextIsDue
  <2>10. AloneIsAlone'
    BY <1>t, <2>1, <2>6, <2>8 DEF AloneIsAlone, Up, Runs
\* A file without its driver's row has not got past version 8.
  <2>11. Level # 8 \/ disk.source.reference # "missing"
    BY <2>1 DEF MigratorWorks, Applies
  <2>12. LaunchesEnd'
    BY <1>t, <2>1, <2>2, <2>3, <2>6, <2>11 DEF LaunchesEnd
  <2> QED
    BY <1>t, <2>1, <2>2, <2>3, <2>4, <2>5, <2>7, <2>9, <2>10, <2>12
<1>9. ASSUME NEW l \in Launch, Clear(l) PROVE MigrationInv'
  <2>1. /\ step[l] = "clearing" /\ migrator = Nobody /\ step' = [step EXCEPT ![l] = "seeding"]
        /\ disk' = [disk EXCEPT !.source.secret = @ /\ disk.source.tunnel # "off"]
        /\ UNCHANGED <<work, migrator, next, alone, starts>>
    BY <1>9 DEF Clear, GoTo
  <2>2. Level = 15
    BY <2>1 DEF LaunchesEnd
  <2> DEFINE d == [disk.source EXCEPT !.secret = @ /\ disk.source.tunnel # "off"]
  <2>3. disk' = [disk EXCEPT !.source = d]
    BY <2>1
  <2>4. d \in DataSource /\ d \in LeftAt(15) /\ (d.tunnel = "off" => ~d.secret)
    BY ZenonT(40), <1>t, <2>2 DEF LeftAt, DataSource
  <2> HIDE DEF d
  <2>5. disk' \in StoreFile /\ disk'.recorded = disk.recorded /\ disk'.effects = disk.effects
        /\ disk'.source = d
    BY <2>3, <2>4 DEF StoreFile
  <2>6. Level' = Level /\ AtVersion(disk, Level)'
    BY <1>t, <2>2, <2>4, <2>5 DEF Level, AtVersion
  <2>7. MigrationTypeOK'
    BY <1>k, <1>t, <2>1, <2>5 DEF Up, Runs
  <2>8. \A o \in Launch : step[o] \notin {"begun", "done", "recorded"}
    BY <2>1 DEF MigratorWorks
  <2>9. MigratorWorks' /\ NextIsDue' /\ AloneIsAlone'
    BY <1>t, <2>1, <2>6, <2>8 DEF MigratorWorks, NextIsDue, AloneIsAlone, Up, Runs
  <2>10. LaunchesEnd'
    BY <1>t, <2>1, <2>2, <2>4, <2>5, <2>6 DEF LaunchesEnd
  <2> QED
    BY <2>1, <2>2, <2>5, <2>6, <2>7, <2>9, <2>10
<1>10. ASSUME NEW l \in Launch, Seed(l) PROVE MigrationInv'
  <2>1. /\ step[l] = "seeding" /\ step' = [step EXCEPT ![l] = "open"]
        /\ UNCHANGED <<disk, work, migrator, next, alone, starts>>
    BY <1>10 DEF Seed, GoTo
  <2>2. /\ MigrationTypeOK' /\ MigratorWorks' /\ AloneIsAlone'
        /\ \A o \in Launch \ {l} : step'[o] = step[o]
        /\ step'[l] = "open"
    BY <1>a, <1>t, <2>1 DEF GoTo
  <2>3. NextIsDue' /\ LaunchesEnd'
    BY <1>l, <2>1, <2>2 DEF NextIsDue, LaunchesEnd
  <2> QED
    BY <1>l, <2>1, <2>2, <2>3
<1>11. ASSUME NEW l \in Launch, Die(l) PROVE MigrationInv'
  <2>1. /\ step[l] \in Up /\ step' = [step EXCEPT ![l] = "off"]
        /\ migrator' = IF migrator = l THEN Nobody ELSE migrator
        /\ work' = IF migrator = l THEN disk ELSE work
        /\ UNCHANGED <<disk, next, alone, starts>>
    BY <1>11 DEF Die, GoTo
  <2>2. MigrationTypeOK'
    BY <1>k, <1>t, <2>1
  <2>3. MigratorWorks'
    BY <1>l, <1>t, <2>1 DEF MigratorWorks, Changed, Applies
  <2> QED
    BY <1>l, <1>t, <2>1, <2>2, <2>3 DEF NextIsDue, AloneIsAlone, LaunchesEnd, Up, Runs
<1>12. CASE UNCHANGED migrationVars
  BY ZenonT(40), <1>12, <1>l, <1>t DEF migrationVars, MigrationTypeOK, MigratorWorks, NextIsDue, AloneIsAlone,
                           LaunchesEnd, Changed, Applies
<1> QED
  BY <1>1, <1>2, <1>3, <1>4, <1>6, <1>7, <1>8, <1>9, <1>10, <1>11, <1>12 DEF MigrationNext

LEMMA MigrationInvWhole == MigrationInv => StoreOpensWhole
<1> SUFFICES ASSUME MigrationInv PROVE StoreOpensWhole
  OBVIOUS
<1>1. disk.recorded = 1..Level /\ disk.effects = 1..Level /\ disk.source \in LeftAt(Level)
  BY DEF MigrationInv, AtVersion
<1>2. \A l \in Launch : step[l] = "open" =>
        /\ disk.recorded = Version
        /\ disk.source.reference # "unset" /\ disk.source.product
        /\ disk.source.group = "plain" => disk.source.grouped
        /\ disk.source.tunnel = "off" => ~disk.source.secret
  BY <1>1 DEF MigrationInv, LaunchesEnd, LeftAt, DataSource, Version
<1> QED
  BY <1>1, <1>2 DEF StoreOpensWhole, MigrationInv, LaunchesEnd, Level

(* run_migrations and what follows it: however launches race and die, the     *)
(* file is at one version, an opened store is whole, and a launch nobody     *)
(* raced fails only on a driver that is gone.                               *)
THEOREM MigrationsCorrect == MigrationSpec => []StoreOpensWhole
BY MigrationInvInit, MigrationInvNext, MigrationInvWhole, PTL DEF MigrationSpec

-----------------------------------------------------------------------------
(* Groups.  What is written about a group is what the group is, or was when  *)
(* an asynchronous command read it: such a command is known to be overtaken  *)
(* once the group has changed.                                              *)

USE GroupAssumption

MainOps ==
  {Free} \cup [step : {"create"}, name : GroupName, order : 1..MaxOrder]
         \cup [step : {"reorder"}, order : UNION {[S -> 1..MaxOrder] : S \in SUBSET GroupId}]
WriteOps == [step : {"write"}, profile : SavedConnection, group : GroupId \cup {NoGroup},
             label : GroupName \cup {NoName}]
OrderOps == [step : {"order"}, profile : SavedConnection, name : GroupName]
CreateOps == [step : {"create"}, profile : SavedConnection, name : GroupName, order : 1..MaxOrder]

GroupOpsOK ==
  /\ mainOp \in MainOps
  /\ rowWriter \in [RowWriter -> {Free} \cup WriteOps \cup OrderOps \cup CreateOps]
  /\ \A g \in groups : g.id \in usedIds

\* A row, or what a command is about to write into one, agrees with the groups.
Agrees(gs, r) == r = NoRow \/ r = Ungrouped \/ \E g \in gs : r = Of(g)
Written(op) == [group |-> op.group, label |-> op.label, present |-> TRUE]

WritersAgree ==
  \A w \in RowWriter \ overlapped : rowWriter[w].step = "write" =>
    Agrees(groups, Written(rowWriter[w]))

GroupsInv == GroupsTypeOK /\ GroupOpsOK /\ GroupsAgreeWithConnections /\ WritersAgree

\* One place for each name is enough, and the next one is after all others.
LEMMA GroupsFit ==
  ASSUME GroupsTypeOK, GroupsAgreeWithConnections
  PROVE  Cardinality(groups) \in 0..MaxOrder
<1> DEFINE f == [g \in groups |-> g.name.key]
<1>1. f \in [groups -> GroupKey]
  BY DEF GroupsTypeOK, GroupName
<1>2. \A g, h \in groups : f[g] = f[h] => g = h
  BY DEF GroupsAgreeWithConnections
<1> HIDE DEF f
<1>3. f \in Injection(groups, GroupKey)
  BY <1>1, <1>2 DEF Injection, IsInjective
<1>4. IsFiniteSet(groups) /\ Cardinality(groups) <= Cardinality(GroupKey)
  BY <1>3, FS_Injection
<1> QED
  BY <1>4, FS_CardinalityType

LEMMA NextOrderIsPlace ==
  ASSUME GroupsTypeOK, NextOrder <= MaxOrder
  PROVE  NextOrder \in 1..MaxOrder
<1> DEFINE orders == {0} \cup {g.order : g \in groups}
<1>1. orders \in SUBSET Nat /\ orders # {} /\ \A n \in orders : n <= MaxOrder
  BY DEF GroupsTypeOK
<1> HIDE DEF orders
<1>2. Max(orders) \in orders
  BY <1>1, MaxIsGreatest
<1>3. NextOrder = 1 + Max(orders)
  BY DEF NextOrder, orders
<1>4. Max(orders) \in Nat
  BY <1>1, <1>2
<1> QED
  BY <1>3, <1>4

-----------------------------------------------------------------------------
(* The groups of old.                                                       *)

LEMMA GroupsInvInit == GroupsInit => GroupsInv
<1> SUFFICES ASSUME GroupsInit PROVE GroupsInv
  OBVIOUS
<1>1. PICK legacy \in [SavedConnection -> GroupName \cup {NoName}],
           padded \in SUBSET SavedConnection, chosen \in [GroupKey -> GroupName] :
        /\ \A p \in padded : legacy[p] # NoName
        /\ \A k \in GroupKey :
             LET spellings == {n \in GroupName : n.key = k /\ \E p \in SavedConnection : legacy[p] = n} IN
             chosen[k] \in IF spellings = {} THEN {[key |-> k, upper |-> FALSE]} ELSE spellings
        /\ groups = GroupsFromNames(legacy, padded, chosen).groups
        /\ rows = GroupsFromNames(legacy, padded, chosen).rows
        /\ stale = padded \cup {p \in SavedConnection :
                                 legacy[p] \in GroupName \ {chosen[k] : k \in GroupKey}}
  BY DEF GroupsInit
<1> DEFINE keys == {legacy[p].key : p \in {q \in SavedConnection : legacy[q] # NoName}}
           id == CHOOSE f \in Injection(keys, GroupId) : TRUE
           place == CHOOSE f \in Bijection(keys, 1..Cardinality(keys)) : TRUE
<1>2. \A k \in GroupKey : chosen[k].key = k
  BY <1>1
<1>3. keys \subseteq GroupKey
  BY DEF GroupName
<1>4. IsFiniteSet(keys) /\ Cardinality(keys) \in 0..MaxOrder
  BY <1>3, FS_Subset, FS_CardinalityType
<1>5. id \in Injection(keys, GroupId)
  <2>1. PICK f \in Injection(GroupKey, GroupId) : TRUE
    BY DEF ExistsInjection
  <2>2. [k \in keys |-> f[k]] \in Injection(keys, GroupId)
    BY <1>3, <2>1 DEF Injection, IsInjective
  <2> QED
    BY <2>2
<1>6. place \in Bijection(keys, 1..Cardinality(keys))
  <2>1. IsFiniteSet(1..Cardinality(keys)) /\ Cardinality(1..Cardinality(keys)) = Cardinality(keys)
    BY <1>4, FS_Interval
  <2>2. ExistsBijection(keys, 1..Cardinality(keys))
    BY <1>4, <2>1, FS_SameCardinalityBij
  <2> QED
    BY <2>2 DEF ExistsBijection
<1>7. groups = {[id |-> id[k], name |-> chosen[k], order |-> place[k]] : k \in keys}
  BY <1>1 DEF GroupsFromNames
<1>8. rows = [p \in SavedConnection |->
         IF legacy[p] = NoName THEN Ungrouped
         ELSE [group |-> IF p \in padded THEN NoGroup ELSE id[legacy[p].key],
               label |-> legacy[p], present |-> TRUE]]
  BY <1>1 DEF GroupsFromNames
<1>9. /\ id \in [keys -> GroupId] /\ \A j, k \in keys : id[j] = id[k] => j = k
      /\ place \in [keys -> 1..MaxOrder]
  <2>1. 1..Cardinality(keys) \subseteq 1..MaxOrder
    <3> HIDE DEF keys
    <3> QED
      BY <1>4
  <2>2. place \in [keys -> 1..Cardinality(keys)]
    BY <1>6 DEF Injection, Bijection
  <2>3. place \in [keys -> 1..MaxOrder]
    BY <2>1, <2>2
  <2> HIDE DEF keys, id
  <2> QED
    BY <1>5, <2>3 DEF Injection, IsInjective
<1>10. \A p \in SavedConnection : legacy[p] # NoName => legacy[p] \in GroupName /\ legacy[p].key \in keys
  OBVIOUS
<1> HIDE DEF keys, id, place
<1>11. GroupsTypeOK
  <2>1. groups \subseteq [id : GroupId, name : GroupName, order : 1..MaxOrder]
    BY <1>3, <1>7, <1>9
  <2>2. rows \in [SavedConnection -> [group : GroupId \cup {NoGroup}, label : GroupName \cup {NoName},
                                      present : BOOLEAN]]
    BY <1>8, <1>9, <1>10 DEF Ungrouped, NoRow
  <2>3. stale \subseteq SavedConnection
    BY <1>1
  <2> QED
    BY <2>1, <2>2, <2>3 DEF GroupsInit, GroupsTypeOK, Free
<1>12. GroupOpsOK /\ WritersAgree
  BY DEF GroupsInit, GroupOpsOK, MainOps, WritersAgree, Free
<1>13. GroupsAgreeWithConnections
  <2>1. \A g, h \in groups : g.id = h.id \/ g.name.key = h.name.key => g = h
    BY <1>2, <1>3, <1>7, <1>9
  <2>2. ASSUME NEW p \in SavedConnection \ stale
        PROVE  rows[p] = Ungrouped \/ \E g \in groups : rows[p] = Of(g)
    <3>1. CASE legacy[p] = NoName
      BY <1>8, <3>1
    <3>2. CASE legacy[p] # NoName
      <4> DEFINE k == legacy[p].key
      <4>1. legacy[p] \in GroupName /\ k \in keys /\ p \notin padded
        BY <1>1, <1>10, <2>2, <3>2
      <4>2. PICK j \in GroupKey : legacy[p] = chosen[j]
        BY <1>1, <2>2, <4>1
      <4>3. legacy[p] = chosen[k]
        BY <1>2, <4>2
      <4>4. rows[p] = [group |-> id[k], label |-> chosen[k], present |-> TRUE]
        BY <1>8, <3>2, <4>1, <4>3
      <4>5. [id |-> id[k], name |-> chosen[k], order |-> place[k]] \in groups
        BY <1>7, <4>1
      <4> QED
        BY <4>4, <4>5 DEF Of
    <3> QED
      BY <3>1, <3>2
  <2> QED
    BY <2>1, <2>2 DEF GroupsAgreeWithConnections
<1> QED
  BY <1>11, <1>12, <1>13 DEF GroupsInv

-----------------------------------------------------------------------------
(* Steps.  An insertion has a new id and a new name.                        *)

LEMMA InsertsOne ==
  ASSUME GroupsInv, NEW op, op.name \in GroupName, op.order \in 1..MaxOrder, Inserts(op)
  PROVE  /\ groups' \subseteq [id : GroupId, name : GroupName, order : 1..MaxOrder]
         /\ usedIds' \subseteq GroupId /\ \A g \in groups' : g.id \in usedIds'
         /\ groups \subseteq groups'
         /\ \A g, h \in groups' : g.id = h.id \/ g.name.key = h.name.key => g = h
<1> USE DEF GroupsInv, GroupsTypeOK, GroupOpsOK, GroupsAgreeWithConnections
<1>1. CASE UNCHANGED <<groups, usedIds>>
  BY <1>1
<1>2. ASSUME NEW id \in GroupId \ usedIds, Named(op.name) = {},
             groups' = groups \cup {[id |-> id, name |-> op.name, order |-> op.order]},
             usedIds' = usedIds \cup {id}
      PROVE  /\ groups' \subseteq [id : GroupId, name : GroupName, order : 1..MaxOrder]
             /\ usedIds' \subseteq GroupId /\ \A g \in groups' : g.id \in usedIds'
             /\ groups \subseteq groups'
             /\ \A g, h \in groups' : g.id = h.id \/ g.name.key = h.name.key => g = h
  <2> DEFINE new == [id |-> id, name |-> op.name, order |-> op.order]
  <2>1. /\ new \in [id : GroupId, name : GroupName, order : 1..MaxOrder]
        /\ new.id = id /\ new.name = op.name
    OBVIOUS
  <2>2. groups' = groups \cup {new}
    BY <1>2
  <2> HIDE DEF new
  <2>3. \A g \in groups : g.id # new.id /\ g.name.key # new.name.key
    BY <1>2, <2>1 DEF Named
  <2> QED
    BY <1>2, <2>1, <2>2, <2>3
<1> QED
  BY <1>1, <1>2 DEF Inserts

\* Types of the operations, one case of a step at a time.
LEMMA OpsTyped ==
  ASSUME GroupOpsOK
  PROVE  /\ mainOp.step = "create" => mainOp.name \in GroupName /\ mainOp.order \in 1..MaxOrder
         /\ mainOp.step = "reorder" => \E S \in SUBSET GroupId : mainOp.order \in [S -> 1..MaxOrder]
         /\ \A w \in RowWriter :
              /\ rowWriter[w].step = "write" => rowWriter[w] \in WriteOps
              /\ rowWriter[w].step = "order" => rowWriter[w] \in OrderOps
              /\ rowWriter[w].step = "create" => rowWriter[w] \in CreateOps
BY DEF GroupOpsOK, MainOps, Free, WriteOps, OrderOps, CreateOps

LEMMA MainStepsKeep ==
  ASSUME GroupsInv,
         \/ CreateGroup \/ Reorder
         \/ \E name \in GroupName : BeginCreate(name)
         \/ \E places \in Bijection({g.id : g \in groups}, 1..Cardinality(groups)) : BeginReorder(places)
  PROVE  GroupsInv'
<1> USE DEF GroupsInv
<1>t. /\ GroupsTypeOK /\ GroupOpsOK /\ mainOp \in MainOps
      /\ groups \subseteq [id : GroupId, name : GroupName, order : 1..MaxOrder]
  BY DEF GroupsTypeOK, GroupOpsOK
<1>1. CASE CreateGroup
  <2>1. /\ mainOp.name \in GroupName /\ mainOp.order \in 1..MaxOrder /\ Inserts(mainOp)
        /\ mainOp' = Free /\ UNCHANGED <<rows, rowWriter, overlapped, stale>>
    BY <1>1, <1>t, OpsTyped DEF CreateGroup
  <2>2. /\ groups' \subseteq [id : GroupId, name : GroupName, order : 1..MaxOrder]
        /\ usedIds' \subseteq GroupId /\ \A g \in groups' : g.id \in usedIds'
        /\ groups \subseteq groups'
        /\ \A g, h \in groups' : g.id = h.id \/ g.name.key = h.name.key => g = h
    BY <2>1, InsertsOne
  <2>3. \A r : Agrees(groups, r) => Agrees(groups', r)
    BY <2>2 DEF Agrees
  <2>4. GroupsTypeOK' /\ GroupOpsOK'
    BY <2>1, <2>2 DEF GroupsTypeOK, GroupOpsOK, MainOps, Free
  <2>5. WritersAgree'
    BY <2>1, <2>3 DEF WritersAgree, Written
  <2>6. GroupsAgreeWithConnections'
    BY <2>1, <2>2, <2>3 DEF GroupsAgreeWithConnections, Agrees
  <2> QED
    BY <2>4, <2>5, <2>6
<1>2. ASSUME NEW name \in GroupName, BeginCreate(name) PROVE GroupsInv'
  <2>1. NextOrder \in 1..MaxOrder
    BY <1>2, NextOrderIsPlace DEF BeginCreate
  <2>2. mainOp' \in MainOps /\ mainOp'.step = "create"
    BY <1>2, <2>1 DEF BeginCreate, MainOps
  <2> QED
    BY <1>2, <2>2 DEF BeginCreate, GroupsTypeOK, GroupOpsOK, GroupsAgreeWithConnections, WritersAgree,
                      Agrees, Written
<1>3. ASSUME NEW places \in Bijection({g.id : g \in groups}, 1..Cardinality(groups)), BeginReorder(places)
      PROVE  GroupsInv'
  <2> DEFINE ids == {g.id : g \in groups}
  <2>1. 1..Cardinality(groups) \subseteq 1..MaxOrder
    BY GroupsFit
  <2>2. places \in [ids -> 1..Cardinality(groups)]
    BY <1>3 DEF Bijection, Injection
  <2>3. ids \in SUBSET GroupId
    BY <1>t
  <2> HIDE DEF ids
  <2>4. places \in [ids -> 1..MaxOrder]
    BY <2>1, <2>2
  <2>5. mainOp' = [step |-> "reorder", order |-> places]
    BY <1>3 DEF BeginReorder
  <2>6. mainOp' \in MainOps /\ mainOp'.step = "reorder"
    BY <2>3, <2>4, <2>5 DEF MainOps
  <2> QED
    BY <1>3, <2>6 DEF BeginReorder, GroupsTypeOK, GroupOpsOK, GroupsAgreeWithConnections, WritersAgree,
                      Agrees, Written
<1>4. CASE Reorder
  <2> DEFINE moved(g) == IF g.id \in DOMAIN mainOp.order THEN [g EXCEPT !.order = mainOp.order[g.id]]
                         ELSE g
  <2>1. groups' = {moved(g) : g \in groups} /\ mainOp' = Free
        /\ UNCHANGED <<rows, usedIds, rowWriter, overlapped, stale>>
    BY <1>4 DEF Reorder
  <2>2. PICK S \in SUBSET GroupId : mainOp.order \in [S -> 1..MaxOrder]
    BY <1>4, <1>t, OpsTyped DEF Reorder
  <2>3. \A g \in groups : /\ moved(g) \in [id : GroupId, name : GroupName, order : 1..MaxOrder]
                          /\ moved(g).id = g.id /\ moved(g).name = g.name
    BY <1>t, <2>2
  <2> HIDE DEF moved
  <2>4. GroupsTypeOK' /\ GroupOpsOK'
    BY <2>1, <2>3 DEF GroupsTypeOK, GroupOpsOK, MainOps, Free
  <2>5. \A r : Agrees(groups, r) => Agrees(groups', r)
    BY <2>1, <2>3 DEF Agrees, Of
  <2>6. \A g, h \in groups' : g.id = h.id \/ g.name.key = h.name.key => g = h
    BY <2>1, <2>3 DEF GroupsAgreeWithConnections
  <2>7. WritersAgree'
    BY <2>1, <2>5 DEF WritersAgree, Written
  <2>8. GroupsAgreeWithConnections'
    BY <2>1, <2>5, <2>6 DEF GroupsAgreeWithConnections, Agrees
  <2> QED
    BY <2>4, <2>7, <2>8
<1> QED
  BY <1>1, <1>2, <1>3, <1>4

\* Renaming and deleting: rows follow the group, commands that hold it are overtaken.
LEMMA ChangedGroupKeeps ==
  ASSUME GroupsInv, NEW id \in GroupId,
         DeleteGroup(id) \/ \E name \in GroupName : RenameGroup(id, name)
  PROVE  GroupsInv'
<1> USE DEF GroupsInv
<1>t. /\ groups \subseteq [id : GroupId, name : GroupName, order : 1..MaxOrder]
      /\ rows \in [SavedConnection -> [group : GroupId \cup {NoGroup}, label : GroupName \cup {NoName},
                                       present : BOOLEAN]]
      /\ overlapped \subseteq RowWriter /\ id # NoGroup
  BY DEF GroupsTypeOK
<1>o. /\ UNCHANGED <<usedIds, mainOp, rowWriter, stale>>
      /\ overlapped' = overlapped \cup {w \in RowWriter : rowWriter[w].step = "write" /\ rowWriter[w].group = id}
  BY DEF DeleteGroup, RenameGroup, Overtakes
\* What does not name the group agrees as it did.
<1>k. ASSUME \A g \in groups : g.id # id => g \in groups'
      PROVE  \A r : Agrees(groups, r) /\ r.group # id => Agrees(groups', r)
  BY <1>k DEF Agrees, Of
<1>w. ASSUME \A g \in groups : g.id # id => g \in groups'
      PROVE  WritersAgree'
  <2> SUFFICES ASSUME NEW w \in RowWriter \ overlapped', rowWriter[w].step = "write"
               PROVE  Agrees(groups', Written(rowWriter[w]))
    BY <1>o DEF WritersAgree
  <2>1. Agrees(groups, Written(rowWriter[w])) /\ Written(rowWriter[w]).group # id
    BY <1>o DEF WritersAgree, Written
  <2>2. \A r : Agrees(groups, r) /\ r.group # id => Agrees(groups', r)
    BY <1>w, <1>k
  <2> QED
    BY <2>1, <2>2
<1>1. CASE DeleteGroup(id)
  <2>1. groups' = groups \ Groups(id)
        /\ rows' = [p \in SavedConnection |-> IF rows[p].present /\ rows[p].group = id THEN Ungrouped
                                              ELSE rows[p]]
    BY <1>1 DEF DeleteGroup
  <2>2. \A g \in groups : g.id # id => g \in groups'
    BY <2>1 DEF Groups
  <2>3. Ungrouped \in [group : GroupId \cup {NoGroup}, label : GroupName \cup {NoName}, present : BOOLEAN]
    BY DEF Ungrouped, NoRow
  <2>4. GroupsTypeOK' /\ GroupOpsOK'
    BY <1>o, <1>t, <2>1, <2>3 DEF GroupsTypeOK, GroupOpsOK
  <2>5. ASSUME NEW p \in SavedConnection \ stale PROVE Agrees(groups', rows'[p])
    <3>1. Agrees(groups, rows[p])
      BY DEF GroupsAgreeWithConnections, Agrees
    <3>2. CASE rows[p].group # id
      BY <1>k, <2>1, <2>2, <3>1, <3>2
    <3>3. CASE rows[p].group = id
      <4>1. rows[p].present
        BY <1>t, <3>1, <3>3 DEF Agrees, Of, NoRow, Ungrouped
      <4>2. rows'[p] = Ungrouped
        BY <2>1, <3>3, <4>1
      <4> QED
        BY <4>2 DEF Agrees
    <3> QED
      BY <3>2, <3>3
  <2>6. GroupsAgreeWithConnections'
    BY <1>o, <2>1, <2>5 DEF GroupsAgreeWithConnections, Agrees
  <2> QED
    BY <1>w, <2>2, <2>4, <2>6
<1>2. ASSUME NEW name \in GroupName, RenameGroup(id, name) PROVE GroupsInv'
  <2> DEFINE named(g) == IF g.id = id THEN [g EXCEPT !.name = name] ELSE g
  <2>1. /\ groups' = {named(g) : g \in groups}
        /\ rows' = [p \in SavedConnection |-> IF rows[p].present /\ rows[p].group = id
                                              THEN [rows[p] EXCEPT !.label = name] ELSE rows[p]]
        /\ Named(name) \subseteq Groups(id)
    BY <1>2 DEF RenameGroup
  <2>2. \A g \in groups : /\ named(g) \in [id : GroupId, name : GroupName, order : 1..MaxOrder]
                          /\ named(g).id = g.id
                          /\ named(g).name = IF g.id = id THEN name ELSE g.name
                          /\ g.id # id => named(g) = g
    BY <1>t
  <2> HIDE DEF named
  <2>3. \A g \in groups : g.id # id => g \in groups'
    BY <2>1, <2>2
  <2>4. rows' \in [SavedConnection -> [group : GroupId \cup {NoGroup}, label : GroupName \cup {NoName},
                                       present : BOOLEAN]]
    <3>1. ASSUME NEW p \in SavedConnection
          PROVE  rows'[p] \in [group : GroupId \cup {NoGroup}, label : GroupName \cup {NoName},
                               present : BOOLEAN]
      <4>1. rows[p] \in [group : GroupId \cup {NoGroup}, label : GroupName \cup {NoName},
                         present : BOOLEAN]
        BY <1>t
      <4> QED
        BY <2>1, <4>1
    <3> QED
      BY <2>1, <3>1
  <2>5. GroupsTypeOK' /\ GroupOpsOK'
    BY <1>o, <1>t, <2>1, <2>2, <2>4 DEF GroupsTypeOK, GroupOpsOK
  <2>6. \A g, h \in groups' : g.id = h.id \/ g.name.key = h.name.key => g = h
    <3>1. \A g \in groups : g.id # id => g.name.key # name.key
      BY <2>1 DEF Named, Groups
    <3> QED
      BY <2>1, <2>2, <3>1 DEF GroupsAgreeWithConnections
  <2>7. ASSUME NEW p \in SavedConnection \ stale PROVE Agrees(groups', rows'[p])
    <3>1. Agrees(groups, rows[p])
      BY DEF GroupsAgreeWithConnections, Agrees
    <3>2. CASE rows[p].group # id
      BY <1>k, <2>1, <2>3, <3>1, <3>2
    <3>3. CASE rows[p].group = id
      <4>1. PICK g \in groups : rows[p] = Of(g)
        BY <1>t, <3>1, <3>3 DEF Agrees, NoRow, Ungrouped
      <4>2. g.id = id /\ rows[p].present
        BY <3>3, <4>1 DEF Of
      <4>3. rows'[p] = [Of(g) EXCEPT !.label = name]
        BY <2>1, <3>3, <4>1, <4>2
      <4>4. rows'[p] = Of(named(g))
        BY <2>2, <4>2, <4>3 DEF Of
      <4> QED
        BY <2>1, <4>4 DEF Agrees
    <3> QED
      BY <3>2, <3>3
  <2>8. GroupsAgreeWithConnections'
    BY <1>o, <2>1, <2>6, <2>7 DEF GroupsAgreeWithConnections, Agrees
  <2> QED
    BY <1>w, <2>3, <2>5, <2>8
<1> QED
  BY <1>1, <1>2

LEMMA SetGroupKeeps ==
  ASSUME GroupsInv, NEW p \in SavedConnection, NEW id \in GroupId \cup {NoGroup},
         SetConnectionGroup(p, id)
  PROVE  GroupsInv'
<1> USE DEF GroupsInv
<1>0. /\ groups \subseteq [id : GroupId, name : GroupName, order : 1..MaxOrder]
      /\ rows \in [SavedConnection -> [group : GroupId \cup {NoGroup}, label : GroupName \cup {NoName},
                                       present : BOOLEAN]]
  BY DEF GroupsTypeOK
<1>1. PICK r : /\ rows' = [rows EXCEPT ![p] = r]
               /\ r = Ungrouped \/ \E g \in groups : r = Of(g)
  BY DEF SetConnectionGroup, Groups
<1>2. UNCHANGED <<groups, usedIds, mainOp, rowWriter, overlapped>> /\ stale' = stale \ {p}
  BY DEF SetConnectionGroup
<1>3. r \in [group : GroupId \cup {NoGroup}, label : GroupName \cup {NoName}, present : BOOLEAN]
  <2>1. Ungrouped \in [group : GroupId \cup {NoGroup}, label : GroupName \cup {NoName}, present : BOOLEAN]
    BY DEF Ungrouped, NoRow
  <2>2. \A g \in groups :
          Of(g) \in [group : GroupId \cup {NoGroup}, label : GroupName \cup {NoName}, present : BOOLEAN]
    BY <1>0 DEF Of
  <2> QED
    BY <1>1, <2>1, <2>2
<1>4. GroupsTypeOK' /\ GroupOpsOK'
  BY <1>0, <1>1, <1>2, <1>3 DEF GroupsTypeOK, GroupOpsOK
<1>5. GroupsAgreeWithConnections'
  BY <1>0, <1>1, <1>2 DEF GroupsAgreeWithConnections
<1>6. WritersAgree'
  BY <1>2 DEF WritersAgree
<1> QED
  BY <1>4, <1>5, <1>6

\* An asynchronous command goes on; only it and what it found are concerned.
LEMMA WriterGoesKeeps ==
  ASSUME GroupsInv, NEW w \in RowWriter, NEW op \in {Free} \cup WriteOps \cup OrderOps \cup CreateOps,
         WriterGoes(w, op), op.step = "write" => Agrees(groups, Written(op)),
         UNCHANGED <<groups, rows, usedIds, mainOp, overlapped, stale>>
  PROVE  GroupsInv'
<1> USE DEF GroupsInv
<1>1. /\ rowWriter' \in [RowWriter -> {Free} \cup WriteOps \cup OrderOps \cup CreateOps]
      /\ rowWriter'[w] = op /\ \A v \in RowWriter \ {w} : rowWriter'[v] = rowWriter[v]
  BY DEF WriterGoes, GroupOpsOK
<1>2. op.step \in {"free", "write", "order", "create"}
  BY DEF Free, WriteOps, OrderOps, CreateOps
<1>3. GroupsTypeOK' /\ GroupOpsOK'
  BY <1>1, <1>2 DEF GroupsTypeOK, GroupOpsOK
<1>4. WritersAgree' /\ GroupsAgreeWithConnections'
  BY <1>1 DEF WritersAgree, GroupsAgreeWithConnections
<1> QED
  BY <1>3, <1>4

LEMMA WriterStepsKeep ==
  ASSUME GroupsInv, NEW w \in RowWriter,
         \/ TakeOrder(w) \/ CreateNamedGroup(w) \/ WriteRow(w)
         \/ \E p \in SavedConnection :
              \/ ResolveNone(w, p)
              \/ \E id \in GroupId : ResolveById(w, p, id)
              \/ \E name \in GroupName : ResolveByName(w, p, name)
  PROVE  GroupsInv'
<1> USE DEF GroupsInv
<1>0. /\ groups \subseteq [id : GroupId, name : GroupName, order : 1..MaxOrder]
      /\ rows \in [SavedConnection -> [group : GroupId \cup {NoGroup}, label : GroupName \cup {NoName},
                                       present : BOOLEAN]]
      /\ GroupsTypeOK /\ GroupOpsOK
  BY DEF GroupsTypeOK
\* What a command found by looking the group up is as the groups are.
<1>f. ASSUME NEW p \in SavedConnection, NEW gs, NEW r,
             gs \subseteq [id : GroupId, name : GroupName, order : 1..MaxOrder],
             r = Ungrouped \/ \E g \in gs : r = Of(g)
      PROVE  Wrote(p, r) \in WriteOps /\ Agrees(gs, Written(Wrote(p, r)))
  <2>1. Written(Wrote(p, r)) = r
    BY <1>f DEF Written, Wrote, Ungrouped, NoRow, Of
  <2>2. r.group \in GroupId \cup {NoGroup} /\ r.label \in GroupName \cup {NoName}
    BY <1>f DEF Ungrouped, NoRow, Of
  <2> QED
    BY <1>f, <2>1, <2>2 DEF Wrote, WriteOps, Agrees
<1>1. ASSUME NEW p \in SavedConnection, ResolveNone(w, p) PROVE GroupsInv'
  BY <1>0, <1>1, <1>f, WriterGoesKeeps DEF ResolveNone
<1>2. ASSUME NEW p \in SavedConnection, NEW id \in GroupId, ResolveById(w, p, id) PROVE GroupsInv'
  BY <1>0, <1>2, <1>f, WriterGoesKeeps DEF ResolveById, Groups
<1>3. ASSUME NEW p \in SavedConnection, NEW name \in GroupName, ResolveByName(w, p, name)
      PROVE  GroupsInv'
  <2>1. CASE \E g \in Named(name) : WriterGoes(w, Wrote(p, Of(g)))
    BY <1>0, <1>3, <1>f, <2>1, WriterGoesKeeps DEF ResolveByName, Named
  <2>2. CASE WriterGoes(w, [step |-> "order", profile |-> p, name |-> name])
    <3>1. [step |-> "order", profile |-> p, name |-> name] \in OrderOps
      BY DEF OrderOps
    <3> QED
      BY <1>3, <2>2, <3>1, WriterGoesKeeps DEF ResolveByName
  <2> QED
    BY <1>3, <2>1, <2>2 DEF ResolveByName
<1>4. CASE TakeOrder(w)
  <2>1. NextOrder \in 1..MaxOrder /\ rowWriter[w] \in OrderOps
    BY <1>0, <1>4, NextOrderIsPlace, OpsTyped DEF TakeOrder
  <2> DEFINE op == [step |-> "create", profile |-> rowWriter[w].profile, name |-> rowWriter[w].name,
                    order |-> NextOrder]
  <2>2. op \in CreateOps /\ op.step = "create"
    BY <2>1 DEF CreateOps, OrderOps
  <2>3. WriterGoes(w, op) /\ UNCHANGED <<groups, rows, usedIds, mainOp, overlapped, stale>>
    BY <1>4 DEF TakeOrder
  <2> HIDE DEF op
  <2> QED
    BY <2>2, <2>3, WriterGoesKeeps
<1>5. CASE CreateNamedGroup(w)
  <2>1. rowWriter[w] \in CreateOps /\ Inserts(rowWriter[w])
        /\ UNCHANGED <<rows, mainOp, overlapped, stale>>
    BY <1>0, <1>5, OpsTyped DEF CreateNamedGroup
  <2>2. /\ groups' \subseteq [id : GroupId, name : GroupName, order : 1..MaxOrder]
        /\ usedIds' \subseteq GroupId /\ \A g \in groups' : g.id \in usedIds'
        /\ groups \subseteq groups'
        /\ \A g, h \in groups' : g.id = h.id \/ g.name.key = h.name.key => g = h
    BY <2>1, InsertsOne DEF CreateOps
  <2>3. PICK op \in {Free} \cup WriteOps :
          WriterGoes(w, op) /\ (op.step = "write" => Agrees(groups', Written(op)))
    <3>1. CASE WriterGoes(w, Free)
      BY <3>1 DEF Free
    <3>2. ASSUME NEW g \in groups', WriterGoes(w, Wrote(rowWriter[w].profile, Of(g)))
          PROVE  \E op \in {Free} \cup WriteOps :
                   WriterGoes(w, op) /\ (op.step = "write" => Agrees(groups', Written(op)))
      <4>1. rowWriter[w].profile \in SavedConnection
        BY <2>1 DEF CreateOps
      <4> QED
        BY <1>f, <2>2, <3>2, <4>1
    <3> QED
      BY <1>5, <3>1, <3>2 DEF CreateNamedGroup
  <2>4. /\ rowWriter' \in [RowWriter -> {Free} \cup WriteOps \cup OrderOps \cup CreateOps]
        /\ rowWriter'[w] = op /\ \A v \in RowWriter \ {w} : rowWriter'[v] = rowWriter[v]
        /\ op.step \in {"free", "write"}
    BY <1>0, <2>3 DEF WriterGoes, GroupOpsOK, Free, WriteOps
  <2>5. \A r : Agrees(groups, r) => Agrees(groups', r)
    BY <2>2 DEF Agrees
  <2>6. GroupsTypeOK' /\ GroupOpsOK'
    BY <2>1, <2>2, <2>4 DEF GroupsTypeOK, GroupOpsOK
  <2>7. WritersAgree'
    BY <2>1, <2>3, <2>4, <2>5 DEF WritersAgree
  <2>8. GroupsAgreeWithConnections'
    BY <2>1, <2>2, <2>5 DEF GroupsAgreeWithConnections, Agrees
  <2> QED
    BY <2>6, <2>7, <2>8
<1>6. CASE WriteRow(w)
  <2> DEFINE p == rowWriter[w].profile
             r == Written(rowWriter[w])
  <2>1. /\ WriterGoes(w, Free) /\ overlapped' = overlapped \ {w} /\ UNCHANGED <<groups, usedIds, mainOp>>
        /\ rows' \in {rows, [rows EXCEPT ![p] = r]}
        /\ stale' = IF rows' = rows THEN stale
                    ELSE IF w \in overlapped THEN stale \cup {p} ELSE stale \ {p}
        /\ rowWriter[w].step = "write"
    BY <1>6 DEF WriteRow, Written
  <2>2. rowWriter[w] \in WriteOps
    BY <1>0, <2>1, OpsTyped
  <2>3. /\ p \in SavedConnection
        /\ r \in [group : GroupId \cup {NoGroup}, label : GroupName \cup {NoName}, present : BOOLEAN]
    BY <2>2 DEF WriteOps, Written
  <2>4. w \notin overlapped => Agrees(groups, r)
    BY <2>1 DEF WritersAgree
  <2> HIDE DEF p, r
  <2>5. /\ rowWriter' \in [RowWriter -> {Free} \cup WriteOps \cup OrderOps \cup CreateOps]
        /\ rowWriter'[w].step = "free" /\ \A v \in RowWriter \ {w} : rowWriter'[v] = rowWriter[v]
    BY <1>0, <2>1 DEF WriterGoes, GroupOpsOK, Free
  <2>6. GroupsTypeOK' /\ GroupOpsOK'
    BY <1>0, <2>1, <2>3, <2>5 DEF GroupsTypeOK, GroupOpsOK
  <2>7. WritersAgree'
    BY <2>1, <2>5 DEF WritersAgree
  <2>8. GroupsAgreeWithConnections'
    <3>1. CASE rows' = rows
      BY <2>1, <3>1 DEF GroupsAgreeWithConnections
    <3>2. CASE rows' # rows
      <4>1. rows'[p] = r /\ \A q \in SavedConnection \ {p} : rows'[q] = rows[q]
        BY <1>0, <2>1, <2>3, <3>2
      <4>2. \A q \in SavedConnection \ stale' : Agrees(groups, rows'[q])
        BY <2>1, <2>4, <3>2, <4>1 DEF GroupsAgreeWithConnections, Agrees
      <4> QED
        BY <2>1, <4>2 DEF GroupsAgreeWithConnections, Agrees
    <3> QED
      BY <3>1, <3>2
  <2> QED
    BY <2>6, <2>7, <2>8
<1> QED
  BY <1>1, <1>2, <1>3, <1>4, <1>5, <1>6

LEMMA GroupsInvNext == GroupsInv /\ [GroupsNext]_groupVars => GroupsInv'
<1> SUFFICES ASSUME GroupsInv, [GroupsNext]_groupVars PROVE GroupsInv'
  OBVIOUS
<1>1. CASE UNCHANGED groupVars
  BY <1>1 DEF groupVars, GroupsInv, GroupsTypeOK, GroupOpsOK, GroupsAgreeWithConnections, WritersAgree
<1>2. CASE GroupsNext
  BY <1>2, MainStepsKeep, ChangedGroupKeeps, SetGroupKeeps, WriterStepsKeep DEF GroupsNext
<1> QED
  BY <1>1, <1>2

(* Groups and connections, whose rows repeat the group's id and name: no      *)
(* interleaving of the commands makes two groups of one name, and a row only *)
(* names a group wrongly when a command was overtaken by a renaming.         *)
THEOREM GroupsCorrect == GroupsSpec => []GroupsAgreeWithConnections
<1>1. GroupsInv => GroupsAgreeWithConnections
  BY DEF GroupsInv
<1> QED
  BY <1>1, GroupsInvInit, GroupsInvNext, PTL DEF GroupsSpec

-----------------------------------------------------------------------------
(* SQL files.  What the mutex of the grants protects: at most one document   *)
(* is being saved, so no other save comes between its last look at the file *)
(* and the move.                                                            *)

USE SqlFileAssumption

Saving(d) == fileStage[d] \in {"staging", "staged", "checked"}

FilesInv ==
  /\ FilesTypeOK /\ SavesReplaceWhatWasSeen
  /\ \A d \in Document : Saving(d) => saver = {d}

LEMMA FilesInvInit == FilesInit => FilesInv
<1> SUFFICES ASSUME FilesInit PROVE FilesInv
  OBVIOUS
<1>1. Empty \in [ends : Eol, text : Text]
  BY DEF Empty, Eol
<1> QED
  BY <1>1 DEF FilesInit, FilesInv, FilesTypeOK, SavesReplaceWhatWasSeen, Saving

\* What a file says can be decoded, and a document that is saved is a file.
LEMMA DecodedText ==
  /\ \A c \in Content : Decoded(c) \in [ends : Eol, text : Text]
  /\ [ends : Eol, text : Text] \subseteq Content
BY DEF Decoded, Content, Eol

LEMMA FilesTypeNext == FilesTypeOK /\ [FilesNext]_documentVars => FilesTypeOK'
<1> SUFFICES ASSUME FilesTypeOK, [FilesNext]_documentVars PROVE FilesTypeOK'
  OBVIOUS
<1> USE DEF FilesTypeOK
<1>1. ASSUME NEW d \in Document, OpenDialog(d) \/ Reload(d) PROVE FilesTypeOK'
  BY ZenonT(40), <1>1, DecodedText DEF OpenDialog, Reload, Moves
<1>2. ASSUME NEW d \in Document, Edit(d) PROVE FilesTypeOK'
  <2>1. PICK t \in Text : buffer' = [buffer EXCEPT ![d].text = t]
    BY <1>2 DEF Edit
  <2>2. [buffer[d] EXCEPT !.text = t] \in [ends : Eol, text : Text]
    OBVIOUS
  <2>3. buffer' \in [Document -> [ends : Eol, text : Text]]
    BY <2>1, <2>2
  <2> QED
    BY <1>2, <2>3 DEF Edit
<1>3. ASSUME NEW d \in Document,
             Grant(d) \/ BeginSave(d) \/ StageSave(d) \/ FailSave(d) \/ Recheck(d)
      PROVE  FilesTypeOK'
  BY <1>3 DEF Grant, BeginSave, StageSave, FailSave, Recheck, Moves, Enters, Leaves
<1>4. ASSUME NEW d \in Document, Conflict(d) PROVE FilesTypeOK'
  BY <1>4 DEF Conflict
<1>5. ASSUME NEW d \in Document, Replace(d) PROVE FilesTypeOK'
  <2>1. buffer[d] \in Content
    BY DecodedText
  <2> QED
    BY <1>5, <2>1 DEF Replace, Moves, Leaves
<1>6. CASE Elsewhere
  BY <1>6 DEF Elsewhere
<1>7. CASE Reopen
  <2>1. Empty \in [ends : Eol, text : Text]
    BY DEF Empty, Eol
  <2> QED
    BY <1>7, <2>1 DEF Reopen
<1>8. CASE UNCHANGED documentVars
  BY <1>8 DEF documentVars
<1> QED
  BY <1>1, <1>2, <1>3, <1>4, <1>5, <1>6, <1>7, <1>8 DEF FilesNext

LEMMA FilesInvNext == FilesInv /\ [FilesNext]_documentVars => FilesInv'
<1> SUFFICES ASSUME FilesInv, [FilesNext]_documentVars PROVE FilesInv'
  OBVIOUS
<1>0. FilesTypeOK /\ FilesTypeOK'
  BY FilesTypeNext DEF FilesInv
<1> USE DEF FilesInv, SavesReplaceWhatWasSeen, Saving
\* Outside the section nobody is saving; d moves only between states outside it.
<1>1. ASSUME NEW d \in Document, OpenDialog(d) \/ Grant(d) \/ Edit(d) \/ Reload(d) \/ Conflict(d)
      PROVE  FilesInv'
  <2>1. ~Saving(d) /\ ~Saving(d)' /\ UNCHANGED <<file, saver, raced>> /\ grants \subseteq grants'
    BY <1>0, <1>1 DEF OpenDialog, Grant, Edit, Reload, Conflict, Moves, FilesTypeOK
  <2>2. \A e \in Document \ {d} : fileStage'[e] = fileStage[e] /\ seen'[e] = seen[e]
    BY <1>0, <1>1 DEF OpenDialog, Grant, Edit, Reload, Conflict, Moves, FilesTypeOK
  <2> QED
    BY <1>0, <2>1, <2>2
<1>2. ASSUME NEW d \in Document, BeginSave(d) PROVE FilesInv'
  BY <1>0, <1>2 DEF BeginSave, Enters, Moves, FilesTypeOK
<1>3. ASSUME NEW d \in Document, StageSave(d) \/ Recheck(d) PROVE FilesInv'
  <2>1. saver = {d} /\ d \in grants /\ \A e \in Document \ {d} : ~Saving(e)
    BY <1>3 DEF StageSave, Recheck
  <2>2. fileStage'[d] = "checked" => file = seen[d]
    BY <1>0, <1>3 DEF StageSave, Recheck, Moves, FilesTypeOK
  <2>3. UNCHANGED <<file, grants, saver, seen>>
        /\ \A e \in Document \ {d} : fileStage'[e] = fileStage[e]
    BY <1>0, <1>3 DEF StageSave, Recheck, Moves, FilesTypeOK
  <2> QED
    BY <1>0, <2>1, <2>2, <2>3
<1>4. ASSUME NEW d \in Document, FailSave(d) \/ Replace(d) PROVE FilesInv'
  <2>1. saver = {d} /\ \A e \in Document \ {d} : ~Saving(e)
    BY <1>4 DEF FailSave, Replace
  <2>2. \A e \in Document : ~Saving(e)'
    BY <1>0, <1>4, <2>1 DEF FailSave, Replace, Moves, FilesTypeOK
  <2> QED
    BY <1>0, <2>2
<1>5. CASE Elsewhere
  BY <1>0, <1>5 DEF Elsewhere
<1>6. CASE Reopen
  BY <1>0, <1>6 DEF Reopen
<1>7. CASE UNCHANGED documentVars
  BY <1>0, <1>7 DEF documentVars
<1> QED
  BY <1>1, <1>2, <1>3, <1>4, <1>5, <1>6, <1>7 DEF FilesNext

(* commands/sql_file.rs, write: a save replaces the very file its document   *)
(* has seen, however many documents are saved at once, unless another        *)
(* program writes between the last look and the move.                       *)
THEOREM SavesCorrect == FilesSpec => []SavesReplaceWhatWasSeen
<1>1. FilesInv => SavesReplaceWhatWasSeen
  BY DEF FilesInv
<1> QED
  BY <1>1, FilesInvInit, FilesInvNext, PTL DEF FilesSpec

-----------------------------------------------------------------------------
(* Drafts and history.  Until the table is pruned, the draft that was saved  *)
(* is later than any other; a table is within its limit unless its pruning   *)
(* is due or was cut short.                                                 *)

USE WorkspaceAssumption

SavedIsLatest == ~setBack =>
  /\ \A d \in drafts : d.updated <= clock
  /\ unpruned = "drafts" => \A id \in lastSaved :
       \E d \in Drafts(id) : \A e \in drafts \ {d} : e.updated < d.updated

WithinLimits == ~cutShort =>
  /\ unpruned # "drafts" => Cardinality(drafts) <= MaxDrafts
  /\ unpruned # "history" => Cardinality(history) < MaxHistory + HistorySlack

WorkspaceInv ==
  /\ WorkspaceTypeOK /\ SavedDraftIsKept
  /\ IsFiniteSet(drafts) /\ IsFiniteSet(history)
  /\ SavedIsLatest /\ WithinLimits

LEMMA WorkspaceInvInit == WorkspaceInit => WorkspaceInv
<1> SUFFICES ASSUME WorkspaceInit PROVE WorkspaceInv
  OBVIOUS
<1>1. IsFiniteSet({}) /\ Cardinality({}) = 0
  BY FS_EmptySet
<1>2. WorkspaceTypeOK
  <2>1. setBack \in BOOLEAN /\ cutShort \in BOOLEAN
    BY Zenon DEF WorkspaceInit
  <2>2. /\ drafts = {} /\ history = {} /\ lastSaved = {}
        /\ unpruned \in {"none", "drafts", "history"} /\ clock \in 0..MaxClock
    BY DEF WorkspaceInit
  <2> QED
    BY <2>1, <2>2 DEF WorkspaceTypeOK
<1>4. SavedDraftIsKept
  BY <1>1 DEF WorkspaceInit, SavedDraftIsKept
<1>3. SavedIsLatest /\ WithinLimits
  BY <1>1 DEF WorkspaceInit, SavedIsLatest, WithinLimits
<1> QED
  BY <1>1, <1>2, <1>3, <1>4 DEF WorkspaceInit, WorkspaceInv

\* Saving a draft anew: one row for it, dated now.
LEMMA DraftIsReplaced ==
  ASSUME WorkspaceInv, NEW id \in Draft, NewMoment,
         drafts' = (drafts \ Drafts(id)) \cup {[id |-> id, updated |-> clock]}
  PROVE  /\ drafts' \subseteq [id : Draft, updated : 0..MaxClock]
         /\ IsFiniteSet(drafts')
         /\ Drafts(id) # {} => Cardinality(drafts') = Cardinality(drafts)
         /\ \A d, e \in drafts' : d.id = e.id => d = e
         /\ \A i \in Draft : Drafts(i) # {} => Drafts(i)' # {}
         /\ Drafts(id)' = {[id |-> id, updated |-> clock]}
         /\ ~setBack => /\ \A d \in drafts' : d.updated <= clock
                        /\ \A d \in drafts' \ {[id |-> id, updated |-> clock]} : d.updated < clock
<1> USE DEF WorkspaceInv
<1> DEFINE new == [id |-> id, updated |-> clock]
<1>1. new \in [id : Draft, updated : 0..MaxClock] /\ new.id = id /\ new.updated = clock
  BY DEF WorkspaceTypeOK
<1> HIDE DEF new
<1> DEFINE others == drafts \ Drafts(id)
<1>2. drafts' = others \cup {new} /\ new \notin others
  BY <1>1 DEF new, Drafts
<1>3. IsFiniteSet(others)
  BY FS_Difference
<1>4. IsFiniteSet(drafts') /\ Cardinality(drafts') = Cardinality(others) + 1
  <2> HIDE DEF others
  <2>1. /\ IsFiniteSet(others \cup {new})
        /\ Cardinality(others \cup {new}) =
             IF new \in others THEN Cardinality(others) ELSE Cardinality(others) + 1
    BY <1>3, FS_AddElement
  <2> QED
    BY <1>2, <2>1
<1>5. ASSUME Drafts(id) # {} PROVE Cardinality(drafts') = Cardinality(drafts)
  <2>1. PICK d \in drafts : d.id = id
    BY <1>5 DEF Drafts
  <2>2. others = drafts \ {d}
    BY <2>1 DEF Drafts, SavedDraftIsKept
  <2>3. Cardinality(drafts \ {d}) = Cardinality(drafts) - 1 /\ Cardinality(drafts) \in Nat
    BY <2>1, FS_RemoveElement, FS_CardinalityType
  <2>4. Cardinality(others) = Cardinality(drafts) - 1
    BY <2>2, <2>3
  <2> HIDE DEF others
  <2> QED
    BY <1>4, <2>3, <2>4
<1>6. \A d, e \in drafts' : d.id = e.id => d = e
  BY <1>1, <1>2 DEF Drafts, SavedDraftIsKept
<1>7. Drafts(id)' = {new} /\ \A i \in Draft : Drafts(i) # {} => Drafts(i)' # {}
  BY <1>1, <1>2 DEF Drafts
<1>8. ASSUME ~setBack PROVE /\ \A d \in drafts' : d.updated <= clock
                            /\ \A d \in drafts' \ {new} : d.updated < clock
  BY <1>1, <1>2, <1>8 DEF NewMoment, WorkspaceTypeOK
<1>9. drafts' \subseteq [id : Draft, updated : 0..MaxClock]
  BY <1>1, <1>2 DEF WorkspaceTypeOK
<1> QED
  BY <1>4, <1>5, <1>6, <1>7, <1>8, <1>9 DEF new

\* The rows that stay are the latest, and at least one.
LEMMA PruningSparesSaved ==
  ASSUME WorkspaceInv, PruneDrafts
  PROVE  /\ drafts' \subseteq drafts
         /\ Cardinality(drafts') <= MaxDrafts
         /\ ~setBack => \A id \in lastSaved : Drafts(id)' # {}
<1> USE DEF WorkspaceInv
<1>1. PICK kept \in SUBSET drafts :
        /\ Cardinality(kept) = Min({MaxDrafts, Cardinality(drafts)})
        /\ \A d \in kept, e \in drafts \ kept : d.updated >= e.updated
        /\ drafts' = kept
  BY DEF PruneDrafts
<1>2. Cardinality(drafts) \in Nat
  BY FS_CardinalityType
<1> DEFINE both == {MaxDrafts, Cardinality(drafts)}
<1>3. both \in SUBSET Nat /\ both # {}
  BY <1>2
<1>4. Min(both) \in both /\ \A n \in both : Min(both) <= n
  <2> HIDE DEF both
  <2> QED
    BY <1>3, MinIsLeast
<1>5. Cardinality(kept) <= MaxDrafts /\ Cardinality(kept) \in {MaxDrafts, Cardinality(drafts)}
  BY <1>1, <1>4
<1>6. ASSUME ~setBack, NEW id \in lastSaved PROVE Drafts(id)' # {}
  <2>1. PICK d \in Drafts(id) : \A e \in drafts \ {d} : e.updated < d.updated
    BY <1>6 DEF PruneDrafts, SavedIsLatest
  <2>2. d \in drafts /\ d.id = id
    BY <2>1 DEF Drafts
  <2>3. Cardinality(drafts) # 0
    BY <2>2, FS_EmptySet
  <2>4. kept # {}
    BY <1>5, <2>3, FS_EmptySet
  <2>5. d \in kept
    <3>1. PICK k \in kept : TRUE
      BY <2>4
    <3>2. d \notin kept => k.updated >= d.updated /\ k.updated < d.updated
      BY <1>1, <2>1, <2>2, <3>1
    <3>3. k.updated \in Int /\ d.updated \in Int
      BY <2>2, <3>1 DEF WorkspaceTypeOK
    <3> QED
      BY <3>2, <3>3
  <2> QED
    BY <1>1, <2>2, <2>5 DEF Drafts
<1> QED
  BY <1>1, <1>5, <1>6

LEMMA WorkspaceInvNext == WorkspaceInv /\ [WorkspaceNext]_workspaceVars => WorkspaceInv'
<1> SUFFICES ASSUME WorkspaceInv, [WorkspaceNext]_workspaceVars PROVE WorkspaceInv'
  OBVIOUS
<1> USE DEF WorkspaceInv
<1>c. Cardinality(drafts) \in Nat /\ Cardinality(history) \in Nat
  BY FS_CardinalityType
<1>1. CASE Tock
  <2>1. PICK n \in {clock + 1, MaxClock} : Min({clock + 1, MaxClock}) = n /\ n <= MaxClock
    <3> DEFINE both == {clock + 1, MaxClock}
    <3>1. both \in SUBSET Nat /\ both # {}
      BY DEF WorkspaceTypeOK
    <3>2. Min(both) \in both /\ \A m \in both : Min(both) <= m
      <4> HIDE DEF both
      <4> QED
        BY <3>1, MinIsLeast
    <3> QED
      BY <3>2
  <2>2. clock' \in 0..MaxClock /\ setBack' = (setBack \/ clock' < clock)
        /\ UNCHANGED <<drafts, history, unpruned, lastSaved, cutShort>>
    BY <1>1, <2>1 DEF Tock, WorkspaceTypeOK
  <2>3. setBack' \in BOOLEAN /\ (~setBack' => ~setBack /\ clock' >= clock)
    <3>1. setBack \in BOOLEAN /\ (clock' < clock) \in BOOLEAN
      BY <2>2 DEF WorkspaceTypeOK
    <3>2. setBack' \in BOOLEAN /\ (~setBack' => ~setBack /\ ~(clock' < clock))
      BY <2>2, <3>1, Zenon
    <3> QED
      BY <2>2, <3>2 DEF WorkspaceTypeOK
  <2> QED
    BY <2>2, <2>3 DEF WorkspaceTypeOK, SavedDraftIsKept, SavedIsLatest, WithinLimits, Drafts
<1>2. CASE EndUnpruned
  BY <1>2 DEF EndUnpruned, WorkspaceTypeOK, SavedDraftIsKept, SavedIsLatest, WithinLimits, Drafts
<1>3. CASE PruneDrafts
  <2>1. /\ drafts' \subseteq drafts /\ Cardinality(drafts') <= MaxDrafts
        /\ ~setBack => \A id \in lastSaved : Drafts(id)' # {}
    BY <1>3, PruningSparesSaved
  <2>2. IsFiniteSet(drafts')
    BY <2>1, FS_Subset
  <2> QED
    BY <1>3, <2>1, <2>2
       DEF PruneDrafts, WorkspaceTypeOK, SavedDraftIsKept, SavedIsLatest, WithinLimits
<1>4. CASE ClearDrafts
  <2>1. IsFiniteSet({}) /\ Cardinality({}) = 0
    BY FS_EmptySet
  <2> QED
    BY <1>4, <2>1
       DEF ClearDrafts, WorkspaceTypeOK, SavedDraftIsKept, SavedIsLatest, WithinLimits
<1>5. ASSUME NEW id \in Draft, DeleteDraft(id) PROVE WorkspaceInv'
  <2>1. IsFiniteSet(drafts') /\ Cardinality(drafts') <= Cardinality(drafts) /\ drafts' \subseteq drafts
    BY <1>5, FS_Subset DEF DeleteDraft
  <2>2. Cardinality(drafts') \in Nat
    BY <2>1, FS_CardinalityType
  <2>3. \A i \in lastSaved' : Drafts(i)' = Drafts(i)
    BY <1>5 DEF DeleteDraft, Drafts
  <2> QED
    BY <1>5, <1>c, <2>1, <2>2, <2>3
       DEF DeleteDraft, WorkspaceTypeOK, SavedDraftIsKept, SavedIsLatest, WithinLimits
<1>6. ASSUME NEW id \in Draft, UpsertDraft(id) PROVE WorkspaceInv'
  <2>1. /\ drafts' \subseteq [id : Draft, updated : 0..MaxClock]
        /\ IsFiniteSet(drafts')
        /\ \A d, e \in drafts' : d.id = e.id => d = e
        /\ Drafts(id)' = {[id |-> id, updated |-> clock]}
        /\ ~setBack => /\ \A d \in drafts' : d.updated <= clock
                       /\ \A d \in drafts' \ {[id |-> id, updated |-> clock]} : d.updated < clock
    BY <1>6, DraftIsReplaced DEF UpsertDraft
  <2> QED
    BY <1>6, <2>1
       DEF UpsertDraft, WorkspaceTypeOK, SavedDraftIsKept, SavedIsLatest, WithinLimits
<1>7. ASSUME NEW id \in Draft, CloseDraft(id) PROVE WorkspaceInv'
  <2>1. /\ drafts' \subseteq [id : Draft, updated : 0..MaxClock]
        /\ IsFiniteSet(drafts') /\ Cardinality(drafts') = Cardinality(drafts)
        /\ \A d, e \in drafts' : d.id = e.id => d = e
        /\ \A i \in Draft : Drafts(i) # {} => Drafts(i)' # {}
        /\ ~setBack => \A d \in drafts' : d.updated <= clock
    BY <1>7, DraftIsReplaced DEF CloseDraft
  <2> QED
    BY <1>7, <2>1
       DEF CloseDraft, WorkspaceTypeOK, SavedDraftIsKept, SavedIsLatest, WithinLimits
<1>8. ASSUME NEW e \in Entry, NEW started \in 0..clock, AddHistory(e, started) PROVE WorkspaceInv'
  <2>1. IsFiniteSet(history')
    BY <1>8, FS_AddElement DEF AddHistory
  <2>2. history' \subseteq [id : Entry, started : 0..MaxClock]
    BY <1>8 DEF AddHistory, WorkspaceTypeOK
  <2> QED
    BY <1>8, <2>1, <2>2
       DEF AddHistory, WorkspaceTypeOK, SavedDraftIsKept, SavedIsLatest, WithinLimits, Drafts
<1>9. CASE PruneHistory
  <2>1. history' \subseteq history /\ Cardinality(history') < MaxHistory + HistorySlack
    BY <1>9 DEF PruneHistory
  <2>2. IsFiniteSet(history')
    BY <2>1, FS_Subset
  <2> QED
    BY <1>9, <2>1, <2>2
       DEF PruneHistory, WorkspaceTypeOK, SavedDraftIsKept, SavedIsLatest, WithinLimits, Drafts
<1>10. CASE ClearHistory
  <2>1. IsFiniteSet({}) /\ Cardinality({}) = 0
    BY FS_EmptySet
  <2> QED
    BY <1>10, <2>1
       DEF ClearHistory, WorkspaceTypeOK, SavedDraftIsKept, SavedIsLatest, WithinLimits, Drafts
<1>11. CASE UNCHANGED workspaceVars
  BY <1>11 DEF workspaceVars, WorkspaceTypeOK, SavedDraftIsKept, SavedIsLatest, WithinLimits, Drafts
<1> QED
  BY <1>1, <1>2, <1>3, <1>4, <1>5, <1>6, <1>7, <1>8, <1>9, <1>10, <1>11
     DEF WorkspaceNext, DraftStep, HistoryStep

(* upsert_sql_draft and add_query_history, with what prunes their tables: the *)
(* draft saved last outlives the pruning unless the clock was set back, and  *)
(* both tables stay within their limits unless the application was cut short. *)
THEOREM DraftsCorrect == WorkspaceSpec => []SavedDraftIsKept
<1>1. WorkspaceInv => SavedDraftIsKept
  BY DEF WorkspaceInv
<1> QED
  BY <1>1, WorkspaceInvInit, WorkspaceInvNext, PTL DEF WorkspaceSpec

-----------------------------------------------------------------------------
(* The parts together.  No part sees another's variables, so a behaviour of  *)
(* all of them is one of each, and what holds of each holds together.       *)
LEMMA EachPartIsItself ==
  StoresSpec => /\ CacheSpec /\ StoreSpec /\ KeySpec /\ MigrationSpec
                /\ GroupsSpec /\ FilesSpec /\ WorkspaceSpec
<1>1. StoresInit => /\ CacheInit /\ StoreInit /\ KeyInit /\ MigrationInit
                    /\ GroupsInit /\ FilesInit /\ WorkspaceInit
  BY DEF StoresInit
<1>2. [StoresNext]_storesVars =>
        /\ [CacheNext]_mvars /\ [StoreNext]_storeVars /\ [KeyNext]_keyVars
        /\ [MigrationNext]_migrationVars /\ [GroupsNext]_groupVars
        /\ [FilesNext]_documentVars /\ [WorkspaceNext]_workspaceVars
  <2>1. StoresNext =>
          /\ [CacheNext]_mvars /\ [StoreNext]_storeVars /\ [KeyNext]_keyVars
          /\ [MigrationNext]_migrationVars /\ [GroupsNext]_groupVars
          /\ [FilesNext]_documentVars /\ [WorkspaceNext]_workspaceVars
    BY DEF StoresNext
  <2>2. UNCHANGED storesVars =>
          /\ UNCHANGED mvars /\ UNCHANGED storeVars /\ UNCHANGED keyVars
          /\ UNCHANGED migrationVars /\ UNCHANGED groupVars
          /\ UNCHANGED documentVars /\ UNCHANGED workspaceVars
    BY DEF storesVars
  <2> QED
    BY <2>1, <2>2
<1> QED
  BY <1>1, <1>2, PTL
     DEF StoresSpec, CacheSpec, StoreSpec, KeySpec, MigrationSpec, GroupsSpec, FilesSpec, WorkspaceSpec

(* What is kept between the steps of long operations is well typed, and the  *)
(* cache's maps, order and timestamps are in step, for every instance of     *)
(* every part.                                                             *)
THEOREM StoresTypeCorrect == StoresSpec => []StoresTypeOK
<1>1. MigrationSpec => []MigrationTypeOK
  <2>1. MigrationInv => MigrationTypeOK
    BY DEF MigrationInv
  <2> QED
    BY <2>1, MigrationInvInit, MigrationInvNext, PTL DEF MigrationSpec
<1>2. GroupsSpec => []GroupsTypeOK
  <2>1. GroupsInv => GroupsTypeOK
    BY DEF GroupsInv
  <2> QED
    BY <2>1, GroupsInvInit, GroupsInvNext, PTL DEF GroupsSpec
<1>3. FilesSpec => []FilesTypeOK
  <2>1. FilesInv => FilesTypeOK
    BY DEF FilesInv
  <2> QED
    BY <2>1, FilesInvInit, FilesInvNext, PTL DEF FilesSpec
<1>4. WorkspaceSpec => []WorkspaceTypeOK
  <2>1. WorkspaceInv => WorkspaceTypeOK
    BY DEF WorkspaceInv
  <2> QED
    BY <2>1, WorkspaceInvInit, WorkspaceInvNext, PTL DEF WorkspaceSpec
<1>5. /\ CacheTypeOK /\ CacheInStep /\ StoreTypeOK /\ KeyTypeOK /\ MigrationTypeOK
      /\ GroupsTypeOK /\ FilesTypeOK /\ WorkspaceTypeOK
      => StoresTypeOK
  BY DEF StoresTypeOK
<1> QED
  BY <1>1, <1>2, <1>3, <1>4, <1>5, EachPartIsItself, CacheTypeCorrect, InStepCorrect,
     StoreTypeCorrect, KeyTypeCorrect, PTL

(* Saved secrets can be told which connection they belong to, and can be     *)
(* decrypted.                                                              *)
THEOREM SecretsCorrect == StoresSpec => []SecretsAreKept
<1>1. CredentialSafety /\ SecretsStayReadable => SecretsAreKept
  BY DEF SecretsAreKept
<1> QED
  BY <1>1, EachPartIsItself, CredentialsCorrect, ReadableCorrect, PTL

(* Migrated stores, groups, SQL files and drafts are what the user was shown. *)
THEOREM SavedStateCorrect == StoresSpec => []SavedStateIsTrue
<1>1. StoreOpensWhole /\ GroupsAgreeWithConnections /\ SavesReplaceWhatWasSeen /\ SavedDraftIsKept
      => SavedStateIsTrue
  BY DEF SavedStateIsTrue
<1> QED
  BY <1>1, EachPartIsItself, MigrationsCorrect, GroupsCorrect, SavesCorrect, DraftsCorrect, PTL

(* The run's other two invariants, for the cache among the other parts.      *)
THEOREM CachedCorrect == StoresSpec => [](InvalidationIsBarrier /\ ServesPresentConnection)
BY EachPartIsItself, BarrierCorrect, PresentCorrect, PTL
=============================================================================
