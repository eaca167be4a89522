-------------------------- MODULE DriverReferences --------------------------
(***************************************************************************)
(* What a saved connection runs on (services/driver_registry.rs,            *)
(* services/driver_config.rs, services/config_store.rs, commands/driver.rs): *)
(* it names a product, a driver definition and, for JDBC, an installation,   *)
(* and is resolved anew whenever it is opened.  Products, definitions and   *)
(* installations are edited by commands of the main thread that first look  *)
(* who refers to them and then write; downloads publish installations, and   *)
(* connections are created and updated, on other threads meanwhile.         *)
(***************************************************************************)
EXTENDS Integers, FiniteSets

CONSTANTS
  Profile,       \* saved connections
  Custom,        \* definitions of the user
  Package,       \* installations that are imported or downloaded
  NoRecord,
  MaxCommands    \* bound on the commands of a behaviour


\* The definitions: a native one is built in, those of the user are JDBC, and a connection
\* that overrides the driver class has a definition derived for it.
NativeId == [kind |-> "native", of |-> NoRecord]
CustomId == [kind : {"custom"}, of : Custom]
Derived(p) == [kind |-> "derived", of |-> p]
DefinitionId == {NativeId} \cup CustomId \cup {Derived(p) : p \in Profile}

\* An installation has an identity of its own, or one made of its definition and its files.
Imported == [kind : {"imported"}, of : Package]
Legacy(d) == [kind |-> "legacy", of |-> d]
InstallationId == Imported \cup {Legacy(d) : d \in DefinitionId}
NoId == [kind |-> "none", of |-> NoRecord]

Product == {"builtIn", "own"}
Adapter == {"genericSql", "mysql"}
\* What of a definition decides how a connection runs: class, URL template and the like.
Runtime == {"first", "second"}

\* The rows of the three tables.
DefinitionRow == [product : Product, runtime : Runtime, default : InstallationId \cup {NoId}]
InstallationRow == [definition : DefinitionId, content : 0..1]
ProfileRow ==
  [product : Product, definition : DefinitionId, installation : InstallationId \cup {NoId}]

ASSUME ReferencesAssumption ==
  /\ MaxCommands \in Nat
  /\ NoRecord \notin DefinitionRow \cup InstallationRow \cup ProfileRow

VARIABLES
  adapter,        \* database_products: the adapter of each product
  definitions,    \* driver_definitions: a record for each id, or NoRecord
  installations,  \* driver_installations
  profiles,       \* connections
  files,          \* what the files the user keeps his own JARs in contain
  registrar,      \* the command of the main thread, between its check and its write
  binder,         \* a create_connection or update_connection between the two
  validated,      \* installations whose row records a validation of the driver class
  validator,      \* a validate_external_driver that is running
  unchecked,      \* history: the connections written since the check
  commands        \* commands begun so far

validationVars == <<validated, validator>>
referenceVars == <<adapter, definitions, installations, profiles, files, registrar, binder,
                   validationVars, unchecked, commands>>

NoStep == [step |-> "none"]
DefinitionAt(product, runtime, default) ==
  [product |-> product, runtime |-> runtime, default |-> default]
Defined == {d \in DefinitionId : definitions[d] # NoRecord}
Installed == {i \in InstallationId : installations[i] # NoRecord}
SavedProfiles == {p \in Profile : profiles[p] # NoRecord}

\* What migrate_products_and_installations makes of a store without products: definitions
\* that were there, some with files, and connections that may name a definition that is
\* gone, override its class and bring files of their own.
OldConnection == [definition : {NativeId} \cup CustomId, overrides : BOOLEAN, files : BOOLEAN]

Migrated(there, old) ==
  [p \in DOMAIN old |->
     LET c == old[p]
         jdbc == c.definition \in there
         d == IF jdbc /\ c.overrides THEN Derived(p) ELSE c.definition IN
     [product |-> IF jdbc THEN "own" ELSE "builtIn", definition |-> d,
      installation |-> IF jdbc /\ c.files THEN Legacy(d) ELSE NoId]]

\* The tables after it.  What an old store has counts as commands begun.
UpgradedFrom(there, saved, withFiles, old) ==
  LET migrated == Migrated(there, old)
      legacy == {Legacy(d) : d \in withFiles}
                  \cup ({migrated[p].installation : p \in saved} \ {NoId}) IN
  /\ \A p \in saved : old[p].definition \in withFiles => old[p].files
  /\ \A p \in saved : old[p].definition \notin there => ~old[p].overrides /\ ~old[p].files
  /\ adapter = [x \in Product |-> IF x = "builtIn" THEN "mysql" ELSE "genericSql"]
  /\ definitions = [d \in DefinitionId |->
       IF d = NativeId THEN DefinitionAt("builtIn", "first", NoId)
       ELSE IF d \in there
              THEN DefinitionAt("own", "first", IF d \in withFiles THEN Legacy(d) ELSE NoId)
       ELSE IF d \in {Derived(p) : p \in saved} \cap {migrated[p].definition : p \in saved}
              THEN DefinitionAt("own", "second", NoId)
       ELSE NoRecord]
  /\ installations = [i \in InstallationId |->
       IF i \in legacy THEN [definition |-> i.of, content |-> 0] ELSE NoRecord]
  /\ profiles = [p \in Profile |-> IF p \in saved THEN migrated[p] ELSE NoRecord]
  /\ commands = Cardinality(there) + Cardinality(saved)

\* A fresh store has no definition and no connection of the user.
ReferencesInit ==
  /\ \E there \in SUBSET CustomId, saved \in SUBSET Profile :
     \E withFiles \in SUBSET there, old \in [saved -> OldConnection] :
       UpgradedFrom(there, saved, withFiles, old)
  /\ files = 0 /\ validated = {} /\ validator = NoStep
  /\ registrar = NoStep /\ binder = NoStep /\ unchecked = {}

-----------------------------------------------------------------------------
(* Resolving.                                                               *)

\* resolve_connection: every reference is followed or the connection cannot be opened; the
\* files of an installation must be those that were installed.
Resolution(p) ==
  LET c == profiles[p] d == IF c = NoRecord THEN NoRecord ELSE definitions[c.definition] IN
  IF d = NoRecord THEN NoRecord
  ELSE IF c.product # d.product THEN NoRecord
  ELSE IF c.definition = NativeId THEN [runtime |-> "native", adapter |-> adapter[d.product],
                                      on |-> NoId]
  ELSE IF c.installation \notin Installed THEN NoRecord
  ELSE IF installations[c.installation].definition # c.definition THEN NoRecord
  ELSE IF c.installation \notin Imported /\ installations[c.installation].content # files
       THEN NoRecord
  ELSE [runtime |-> d.runtime, adapter |-> adapter[d.product], on |-> c.installation]

-----------------------------------------------------------------------------
(* Commands of the main thread: a check, and the write it allows.           *)

Begins == commands < MaxCommands /\ commands' = commands + 1

Referenced(d) == \E p \in SavedProfiles : profiles[p].definition = d

Checked(step) == Begins /\ registrar = NoStep /\ registrar' = step /\ unchecked' = {}
Writes(step) ==
  registrar.step = step /\ registrar' = NoStep /\ unchecked' = {} /\ UNCHANGED commands
NoteWrite(x) == unchecked' = IF registrar = NoStep THEN {} ELSE unchecked \cup {x}

\* Mutant: the product of a driver in use may be changed.
CheckDefinitionByRuntime(d, product, runtime, default) ==
  /\ default = NoId \/ (default \in Installed /\ installations[default].definition = d)
  /\ d \in Defined /\ definitions[d].runtime # runtime => ~Referenced(d)
  /\ d # NativeId
  /\ Checked([step |-> "definition", id |-> d, value |-> DefinitionAt(product, runtime, default)])
  /\ UNCHANGED <<validationVars, adapter, definitions, installations, profiles, files, binder>>

\* save_custom_driver_definition: what connections run on is not edited under them.
CheckDefinition(d, product, runtime, default) ==
  /\ default = NoId \/ (default \in Installed /\ installations[default].definition = d)
  /\ d \in Defined /\ <<definitions[d].product, definitions[d].runtime>> # <<product, runtime>>
       => ~Referenced(d)
  /\ d # NativeId
  /\ Checked([step |-> "definition", id |-> d, value |-> DefinitionAt(product, runtime, default)])
  /\ UNCHANGED <<validationVars, adapter, definitions, installations, profiles, files, binder>>

WriteDefinition ==
  /\ Writes("definition")
  /\ definitions' = [definitions EXCEPT ![registrar.id] = registrar.value]
  /\ UNCHANGED <<validationVars, adapter, installations, profiles, files, binder>>

\* delete_custom_driver_definition
CheckDeleteDefinition(d) ==
  /\ d \in Defined \ {NativeId} /\ ~Referenced(d)
  /\ \A i \in Installed : installations[i].definition # d
  /\ Checked([step |-> "deleteDefinition", id |-> d])
  /\ UNCHANGED <<validationVars, adapter, definitions, installations, profiles, files, binder>>

DeleteDefinition ==
  /\ Writes("deleteDefinition")
  /\ definitions' = [definitions EXCEPT ![registrar.id] = NoRecord]
  /\ UNCHANGED <<validationVars, adapter, installations, profiles, files, binder>>

\* Mutant: only the definition's default is looked at, not who refers to the installation.
CheckDeleteInstallationUnused(i) ==
  /\ i \in Installed
  /\ Checked([step |-> "deleteInstallation", id |-> i])
  /\ UNCHANGED <<validationVars, adapter, definitions, installations, profiles, files, binder>>

\* delete_driver_installation
CheckDeleteInstallation(i) ==
  /\ i \in Installed /\ \A p \in SavedProfiles : profiles[p].installation # i
  /\ Checked([step |-> "deleteInstallation", id |-> i])
  /\ UNCHANGED <<validationVars, adapter, definitions, installations, profiles, files, binder>>

DeleteInstallation ==
  /\ Writes("deleteInstallation")
  /\ definitions' = [d \in DefinitionId |->
       IF d \in Defined /\ definitions[d].default = registrar.id
       THEN [definitions[d] EXCEPT !.default = NoId] ELSE definitions[d]]
  /\ installations' = [installations EXCEPT ![registrar.id] = NoRecord]
  /\ validated' = validated \ {registrar.id}
  /\ UNCHANGED <<adapter, profiles, files, binder, validator>>

\* save_database_product: the built-in ones are read-only.
CheckProduct(a) ==
  /\ a # adapter["own"] => \A p \in SavedProfiles : profiles[p].product # "own"
  /\ Checked([step |-> "product", value |-> a])
  /\ UNCHANGED <<validationVars, adapter, definitions, installations, profiles, files, binder>>

WriteProduct ==
  /\ Writes("product")
  /\ adapter' = [adapter EXCEPT !["own"] = registrar.value]
  /\ UNCHANGED <<validationVars, definitions, installations, profiles, files, binder>>

-----------------------------------------------------------------------------
(* Connections and installations.                                           *)

\* publish_installation: in one transaction, which looks for the definition again.  An
\* installation that exists stays as it is, or the publication fails.
Publish(i, d) ==
  /\ Begins /\ d \in Defined \ {NativeId} /\ i \notin Installed
  /\ installations' = [installations EXCEPT ![i] = [definition |-> d, content |-> 0]]
  /\ definitions' = [definitions EXCEPT ![d].default = i]
  /\ UNCHANGED <<validationVars, adapter, profiles, files, registrar, binder, unchecked>>

\* legacy_installation: made once; making it again must give the very same row, which
\* it no longer does when the file or the result of validating it has changed.
LegacyInstallation(d) ==
  \/ Legacy(d) \notin Installed
     /\ installations' = [installations EXCEPT ![Legacy(d)] =
                            [definition |-> d, content |-> files]]
  \/ Legacy(d) \in Installed \ validated /\ UNCHANGED installations
     /\ installations[Legacy(d)] = [definition |-> d, content |-> files]

\* validate_external_driver: the class is loaded from the files of an installation, which
\* may take long, and the outcome is written into its row if it still has the same files.
BeginValidation(i) ==
  /\ Begins /\ i \in Installed /\ validator = NoStep
  /\ validator' = [step |-> "loading", id |-> i, row |-> installations[i]]
  /\ UNCHANGED <<adapter, definitions, installations, profiles, files, registrar, binder,
                 unchecked, validated>>

RecordValidation ==
  /\ validator # NoStep /\ validator' = NoStep
  /\ validated' = IF installations[validator.id] = validator.row
                   THEN validated \cup {validator.id} ELSE validated
  /\ UNCHANGED <<adapter, definitions, installations, profiles, files, registrar, binder,
                 unchecked, commands>>

Binds(p, product, d, i) ==
  /\ Begins
  /\ binder' = [step |-> "write", profile |-> p,
                value |-> [product |-> product, definition |-> d, installation |-> i]]

\* normalize_connection_references, of a form that names all it refers to; what it names may
\* be missing, and is then left for the user to repair.
BindExplicit(p, product, d, i) ==
  /\ binder = NoStep
  /\ d \in Defined => definitions[d].product = product
  /\ i \in Installed => installations[i].definition = d
  /\ Binds(p, product, d, i)
  /\ UNCHANGED <<validationVars, adapter, definitions, installations, profiles, files,
                 registrar, unchecked>>

\* Of a form without a product: the definition's, and for JDBC its default installation or
\* one made of the user's own files.
BindLegacy(p, d, ownFiles) ==
  /\ binder = NoStep /\ d \in Defined
  /\ \/ /\ d = NativeId \/ ~ownFiles
        /\ Binds(p, definitions[d].product, d, definitions[d].default)
        /\ UNCHANGED installations
     \/ /\ d # NativeId /\ ownFiles /\ LegacyInstallation(d)
        /\ Binds(p, definitions[d].product, d, Legacy(d))
  /\ UNCHANGED <<validationVars, adapter, definitions, profiles, files, registrar, unchecked>>

\* With a driver class of its own: a definition is derived, without a default installation.
\* It stays when the files cannot be installed and the command fails.
BindOverriding(p, d, ownFiles) ==
  /\ binder = NoStep /\ d \in Defined \ {NativeId}
  /\ \E class \in Runtime \ {definitions[d].runtime} :
       definitions' = [definitions EXCEPT ![Derived(p)] =
                         DefinitionAt(definitions[d].product, class, NoId)]
  /\ \/ /\ ~ownFiles /\ Binds(p, definitions[d].product, Derived(p), NoId)
        /\ UNCHANGED installations
     \/ /\ ownFiles /\ LegacyInstallation(Derived(p))
        /\ Binds(p, definitions[d].product, Derived(p), Legacy(Derived(p)))
     \/ /\ ownFiles /\ Begins /\ binder' = [step |-> "failed", profile |-> p]
        /\ UNCHANGED installations
  /\ UNCHANGED <<validationVars, adapter, profiles, files, registrar, unchecked>>

\* The connection is written, or the command failed.
WriteProfile ==
  /\ binder # NoStep /\ binder' = NoStep
  /\ \/ /\ binder.step = "write"
        /\ profiles' = [profiles EXCEPT ![binder.profile] = binder.value]
        /\ NoteWrite(binder.profile)
     \/ UNCHANGED <<profiles, unchecked>>
  /\ UNCHANGED <<validationVars, adapter, definitions, installations, files, registrar, commands>>

DeleteProfile(p) ==
  /\ Begins /\ p \in SavedProfiles /\ (binder # NoStep => binder.profile # p)
  /\ profiles' = [profiles EXCEPT ![p] = NoRecord]
  /\ UNCHANGED <<validationVars, adapter, definitions, installations, files, registrar, binder,
                 unchecked>>

\* The user replaces a JAR of his own.
ReplaceFile ==
  /\ Begins /\ files' = 1 - files
  /\ UNCHANGED <<validationVars, adapter, definitions, installations, profiles, registrar,
                 binder, unchecked>>

\* import_driver_configuration: one transaction that adds a definition, an installation of it
\* and a connection on both.  A definition or an installation that differs from the one there
\* is, a connection that exists and one that belongs to another product end it with nothing
\* changed.
ImportConfiguration(p, d, i, product, runtime) ==
  /\ Begins /\ registrar = NoStep /\ p \notin SavedProfiles /\ d \in CustomId
  /\ d \in Defined => definitions[d] = DefinitionAt(product, runtime, definitions[d].default)
  /\ definitions' = IF d \in Defined THEN definitions
                    ELSE [definitions EXCEPT ![d] = DefinitionAt(product, runtime, NoId)]
  /\ i \in Installed => installations[i].definition = d
  /\ installations' = IF i \in Installed \cup {NoId} THEN installations
                      ELSE [installations EXCEPT ![i] = [definition |-> d, content |-> 0]]
  /\ profiles' = [profiles EXCEPT ![p] = [product |-> product, definition |-> d,
                                          installation |-> i]]
  /\ UNCHANGED <<validationVars, adapter, files, registrar, binder, unchecked>>

\* The commands on definitions, and those on installations and products.
DefinitionStep ==
  \/ WriteDefinition \/ DeleteDefinition
  \/ \E d \in CustomId :
       \/ CheckDeleteDefinition(d)
       \/ \E x \in Product, r \in Runtime, i \in Installed \cup {NoId} :
            CheckDefinition(d, x, r, i)

RegistryStep ==
  \/ DeleteInstallation \/ WriteProduct
  \/ \E i \in InstallationId : CheckDeleteInstallation(i)
  \/ \E a \in Adapter : CheckProduct(a)

ReferencesNext ==
  \/ DefinitionStep \/ RegistryStep \/ WriteProfile \/ ReplaceFile
  \/ RecordValidation \/ \E i \in InstallationId : BeginValidation(i)
  \/ \E i \in Imported, d \in DefinitionId : Publish(i, d)
  \/ \E p \in Profile, d \in CustomId, i \in Imported \cup {NoId}, x \in Product, r \in Runtime :
       ImportConfiguration(p, d, i, x, r)
  \/ \E p \in Profile :
       \/ DeleteProfile(p)
       \/ \E d \in DefinitionId :
            \/ \E x \in Product, i \in Installed \cup {NoId} : BindExplicit(p, x, d, i)
            \/ \E own \in BOOLEAN : BindLegacy(p, d, own) \/ BindOverriding(p, d, own)

ReferencesSpec == ReferencesInit /\ [][ReferencesNext]_referenceVars

ReferencesTypeOK ==
  /\ adapter \in [Product -> Adapter]
  /\ definitions \in [DefinitionId -> {NoRecord} \cup DefinitionRow]
  /\ installations \in [InstallationId -> {NoRecord} \cup InstallationRow]
  /\ profiles \in [Profile -> {NoRecord} \cup ProfileRow]
  /\ validated \subseteq Installed
  /\ files \in 0..1

(* What a connection runs on does not change under it: a command that edits  *)
(* or removes products, definitions and installations, publishes or imports  *)
(* leaves every saved connection that could be opened resolving to the same  *)
(* runtime, adapter and installation.  Exempt are the connection being       *)
(* edited, whose derived definition is written before it, one that was put    *)
(* on a definition derived for another connection, and one written between   *)
(* the check of a command and its write.                                     *)
EditsLeaveConnectionsAlone ==
  [][\A p \in SavedProfiles \ unchecked :
       /\ profiles[p].definition \in CustomId \cup {NativeId, Derived(p)}
       /\ files' = files /\ profiles'[p] = profiles[p] /\ Resolution(p) # NoRecord
       /\ binder' = NoStep \/ binder'.profile # p
       => Resolution(p)' = Resolution(p)]_referenceVars
=============================================================================
