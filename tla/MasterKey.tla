------------------------------ MODULE MasterKey ------------------------------
(***************************************************************************)
(* The key that encrypts saved secrets (utils/crypto.rs): every operation on *)
(* a secret looks the key up in the store of its platform, and creates it if *)
(* there is none.  Operations run at the same time, in one process or two,   *)
(* and any of them may die between two steps.                               *)
(*                                                                         *)
(*   keychain       macOS: an item that can be added but never replaced      *)
(*   secretService  Linux: an item that storing replaces                     *)
(*   dpapi          Windows: a file of the configuration directory            *)
(*   devFile        the development key file, created exclusively            *)
(***************************************************************************)
EXTENDS Integers, FiniteSets

CONSTANTS Operation, MasterKeys, NoMasterKey, Torn

ASSUME MasterKeyAssumption ==
  MasterKeys # {} /\ NoMasterKey \notin MasterKeys /\ Torn \notin MasterKeys \cup {NoMasterKey}

VARIABLES
  backend,
  keyStore,       \* NoMasterKey, a key, or Torn: a file opened for writing and not yet written
  legacyKey,      \* the key of dev-secret.key that Linux and Windows take over
  mintedKeys,
  saved,          \* the keys under which secrets are saved
  keyStage, keyOf,
  stored          \* history: the keys that were stored

keyVars == <<backend, keyStore, legacyKey, mintedKeys, saved, keyStage, keyOf, stored>>

Backend == {"keychain", "secretService", "dpapi", "devFile"}
TakesOver == backend \in {"secretService", "dpapi"}
CreateOnly == backend \in {"keychain", "devFile"}
IsFile == backend \in {"dpapi", "devFile"}

KeyInit ==
  /\ backend \in Backend
  /\ keyStore = NoMasterKey
  /\ legacyKey \in {NoMasterKey, CHOOSE k \in MasterKeys : TRUE}
  /\ ~TakesOver => legacyKey = NoMasterKey
  /\ mintedKeys = {legacyKey} \cap MasterKeys /\ saved = mintedKeys
  /\ keyStage = [o \in Operation |-> "idle"] /\ keyOf = [o \in Operation |-> NoMasterKey]
  /\ stored = {}

Proceeds(o, stage) == keyStage' = [keyStage EXCEPT ![o] = stage]

BeginSecret(o) ==
  /\ keyStage[o] = "idle" /\ Proceeds(o, "lookup")
  /\ keyOf' = [keyOf EXCEPT ![o] = NoMasterKey]
  /\ UNCHANGED <<backend, keyStore, legacyKey, mintedKeys, saved, stored>>

\* The key is found, or there is none; the macOS Keychain says so too of a key it will not
\* give without asking the user.  A torn file is an error.
LookUp(o) ==
  /\ keyStage[o] = "lookup"
  /\ \/ keyStore \in MasterKeys /\ keyOf' = [keyOf EXCEPT ![o] = keyStore] /\ Proceeds(o, "ready")
     \/ /\ keyStore = NoMasterKey \/ backend = "keychain"
        /\ Proceeds(o, "missing") /\ UNCHANGED keyOf
     \/ Proceeds(o, "idle") /\ UNCHANGED keyOf
  /\ UNCHANGED <<backend, keyStore, legacyKey, mintedKeys, saved, stored>>

Mints(o) ==
  \E k \in MasterKeys \ mintedKeys :
    keyOf' = [keyOf EXCEPT ![o] = k] /\ mintedKeys' = mintedKeys \cup {k}

\* Mutant: the key of the development file is not taken over.
ChooseKeyAfresh(o) ==
  /\ keyStage[o] = "missing" /\ Proceeds(o, "write")
  /\ Mints(o)
  /\ UNCHANGED <<backend, keyStore, legacyKey, saved, stored>>

\* migrated_or_new_key
ChooseKey(o) ==
  /\ keyStage[o] = "missing" /\ Proceeds(o, "write")
  /\ \/ /\ legacyKey # NoMasterKey /\ keyOf' = [keyOf EXCEPT ![o] = legacyKey]
        /\ UNCHANGED mintedKeys
     \/ legacyKey = NoMasterKey /\ Mints(o)
  /\ UNCHANGED <<backend, keyStore, legacyKey, saved, stored>>

\* Mutant: an item of the Keychain that could not be read is replaced.
WriteKeyReplacing(o) ==
  /\ keyStage[o] = "write"
  /\ \/ /\ ~IsFile
        /\ keyStore' = keyOf[o]
        /\ stored' = stored \cup {keyOf[o]}
        /\ Proceeds(o, IF TakesOver THEN "cleanup" ELSE "ready")
     \/ /\ IsFile /\ (CreateOnly => keyStore = NoMasterKey)
        /\ keyStore' = Torn /\ Proceeds(o, "fill") /\ UNCHANGED stored
     \/ Proceeds(o, "idle") /\ UNCHANGED <<keyStore, stored>>
  /\ UNCHANGED <<backend, legacyKey, mintedKeys, saved, keyOf>>

\* The key is stored; a file is opened, which empties it, and written afterwards.  The store
\* may refuse, and one that only creates refuses when there is a key.
WriteKey(o) ==
  /\ keyStage[o] = "write"
  /\ \/ /\ ~IsFile /\ (CreateOnly => keyStore = NoMasterKey)
        /\ keyStore' = keyOf[o]
        /\ stored' = stored \cup {keyOf[o]}
        /\ Proceeds(o, IF TakesOver THEN "cleanup" ELSE "ready")
     \/ /\ IsFile /\ (CreateOnly => keyStore = NoMasterKey)
        /\ keyStore' = Torn /\ Proceeds(o, "fill") /\ UNCHANGED stored
     \/ Proceeds(o, "idle") /\ UNCHANGED <<keyStore, stored>>
  /\ UNCHANGED <<backend, legacyKey, mintedKeys, saved, keyOf>>

FillFile(o) ==
  /\ keyStage[o] = "fill"
  /\ keyStore' = keyOf[o] /\ stored' = stored \cup {keyOf[o]}
  /\ Proceeds(o, IF TakesOver THEN "cleanup" ELSE "ready")
  /\ UNCHANGED <<backend, legacyKey, mintedKeys, saved, keyOf>>

\* remove_legacy_dev_key
RemoveLegacyKey(o) ==
  /\ keyStage[o] = "cleanup"
  /\ \/ legacyKey' = NoMasterKey /\ Proceeds(o, "ready")
     \/ legacyKey # NoMasterKey /\ Proceeds(o, "idle") /\ UNCHANGED legacyKey
  /\ UNCHANGED <<backend, keyStore, mintedKeys, saved, keyOf, stored>>

\* A secret is encrypted and saved, or a saved one decrypted.
UseKey(o) ==
  /\ keyStage[o] = "ready" /\ Proceeds(o, "idle")
  /\ saved' \in {saved, saved \cup {keyOf[o]}}
  /\ UNCHANGED <<backend, keyStore, legacyKey, mintedKeys, keyOf, stored>>

\* The process of an operation ends.
OperationDies(o) ==
  /\ keyStage[o] # "idle" /\ Proceeds(o, "idle")
  /\ UNCHANGED <<backend, keyStore, legacyKey, mintedKeys, saved, keyOf, stored>>

KeyNext ==
  \E o \in Operation :
    \/ BeginSecret(o) \/ LookUp(o) \/ ChooseKey(o) \/ WriteKey(o) \/ FillFile(o)
    \/ RemoveLegacyKey(o) \/ UseKey(o) \/ OperationDies(o)

KeySpec == KeyInit /\ [][KeyNext]_keyVars

KeyTypeOK ==
  /\ backend \in Backend
  /\ keyStore \in MasterKeys \cup {NoMasterKey, Torn} /\ legacyKey \in MasterKeys \cup {NoMasterKey}
  /\ mintedKeys \subseteq MasterKeys /\ saved \subseteq mintedKeys
  /\ keyStage \in [Operation -> {"idle", "lookup", "missing", "write", "fill", "cleanup", "ready"}]
  /\ keyOf \in [Operation -> MasterKeys \cup {NoMasterKey}]
  /\ stored \subseteq mintedKeys

(* Every saved secret can be decrypted: the one key they were encrypted      *)
(* with is the one the next operation will find or take over.  A store that *)
(* only creates never loses it, whoever races or dies.  The others lose it   *)
(* only to another operation that found no key at the same time and stored  *)
(* its own, and Windows to a writer that died with the file open.            *)
SecretsStayReadable ==
  /\ CreateOnly => saved \subseteq {keyStore}
  /\ TakesOver /\ Cardinality(stored) <= 1 /\ keyStore # Torn =>
       saved \subseteq {IF keyStore = NoMasterKey THEN legacyKey ELSE keyStore}
=============================================================================
