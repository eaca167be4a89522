------------------------------ MODULE MCStores ------------------------------
(* Finite instances of what is kept between the steps of long operations:    *)
(* the metadata cache while loads are in flight, and what is saved on disk    *)
(* while commands overlap, other programs write and the process may die.     *)
(* The parts share no state.  A behaviour moves one of them, its focus, so    *)
(* that the instances are explored one after the other and not their product. *)
EXTENDS MetadataCache, ConfigStore, MasterKey, Migrations, DataSourceGroups, SqlFiles,
        Workspace, TLC

VARIABLE focus

On(part) == focus = part
storesVars == <<focus, mvars, storeVars, keyVars, migrationVars, groupVars, documentVars, workspaceVars>>

\* What a part chooses at the start is chosen for the focus only.
StoresInit ==
  /\ focus \in {"cache", "passwords", "keys", "migrations", "groups", "files", "drafts"}
  /\ CacheInit /\ (~On("cache") => ~idleReclaim)
  /\ StoreInit
  /\ KeyInit /\ (~On("keys") => backend = "keychain")
  /\ MigrationInit
  /\ ~On("migrations") => disk.recorded = {} /\ disk.source = CHOOSE d \in LeftAt(0) : TRUE
  /\ GroupsInit /\ (~On("groups") => groups = {} /\ stale = {})
  /\ FilesInit /\ (~On("files") => file = Missing)
  /\ WorkspaceInit

StoresNext ==
  /\ UNCHANGED focus
  /\ \/ On("cache") /\ CacheNext
        /\ schema' + nextGeneration' <= 4   \* bound: a second schema or a second connection
     \/ ~On("cache") /\ UNCHANGED mvars
  /\ \/ On("passwords") /\ StoreNext
     \/ ~On("passwords") /\ UNCHANGED storeVars
  /\ \/ On("keys") /\ KeyNext
     \/ ~On("keys") /\ UNCHANGED keyVars
  /\ \/ On("migrations") /\ MigrationNext
     \/ ~On("migrations") /\ UNCHANGED migrationVars
  /\ \/ On("groups") /\ GroupsNext
     \/ ~On("groups") /\ UNCHANGED groupVars
  /\ \/ On("files") /\ FilesNext
        /\ (link' => Cardinality(grants') <= 1)   \* bound: documents whose path may be linked
     \/ ~On("files") /\ UNCHANGED documentVars
  /\ \/ On("drafts") /\ WorkspaceNext
     \/ ~On("drafts") /\ UNCHANGED workspaceVars

StoresSpec == StoresInit /\ [][StoresNext]_storesVars

\* What never meets in one focus is turned together.
Turn(pair, turned) ==
  CHOOSE t \in Permutations(pair) : turned <=> \E x \in pair : t[x] # x
Symmetry ==
  {Turn(QueryId, a) @@ Turn(Document, a) @@ Turn(SavedConnection, a) @@ Turn(Record, a)
     @@ Turn(Operation, a) @@ Turn(Launch, a) @@ Turn(Object, b) @@ Turn(GroupId, b) :
     a \in BOOLEAN, b \in BOOLEAN}

(* Every variable of the part that moves has its type, and the maps, the     *)
(* order and the timestamps of the cache are in step.                       *)
StoresTypeOK ==
  /\ On("cache") => CacheTypeOK /\ CacheInStep
  /\ On("passwords") => StoreTypeOK
  /\ On("keys") => KeyTypeOK
  /\ On("migrations") => MigrationTypeOK
  /\ On("groups") => GroupsTypeOK
  /\ On("files") => FilesTypeOK
  /\ On("drafts") => WorkspaceTypeOK

(* Saved secrets can be told which connection they belong to and can be      *)
(* decrypted (see ConfigStore and MasterKey).                               *)
SecretsAreKept == CredentialSafety /\ SecretsStayReadable

(* What is saved agrees with what the user was shown: migrated stores,       *)
(* groups, SQL files and drafts (see their modules).                        *)
SavedStateIsTrue ==
  StoreOpensWhole /\ GroupsAgreeWithConnections /\ SavesReplaceWhatWasSeen /\ SavedDraftIsKept
=============================================================================
