----------------------------- MODULE Migrations -----------------------------
(***************************************************************************)
(* Opening the configuration store (services/config_store.rs and             *)
(* driver_registry.rs): each launch applies the migrations the file misses,   *)
(* each in a transaction with the row that records it, then clears the        *)
(* secrets of disabled tunnels and seeds the built-in drivers.               *)
(*                                                                         *)
(* Nothing keeps two processes from launching at once, and a process may die  *)
(* at any point.  One data source stands for those of the file.              *)
(***************************************************************************)
EXTENDS Naturals, FiniteSets, FiniteSetsExt

CONSTANTS
  Launch,              \* processes
  Nobody,              \* holds no transaction
  Olds,                \* versions the file may have been left at
  MaxStarts            \* bound: launches altogether

ASSUME MigrationAssumption ==
  /\ Nobody \notin Launch /\ MaxStarts \in Nat
  /\ Olds \subseteq 0..15

VARIABLES
  disk,                \* what is committed: versions recorded, those in effect, the data source
  work,                \* the open transaction's version of it
  migrator,            \* the process whose transaction is open
  step,                \* where each process stands
  next,                \* the migration it is about to apply
  alone,               \* no other process has run since it launched
  starts

migrationVars == <<disk, work, migrator, step, next, alone, starts>>

Version == 1..15
Runs == {"checking", "waiting", "begun", "done", "recorded", "clearing", "seeding"}
Up == Runs \cup {"open"}

DataSource ==
  [reference : {"unset", "builtin", "custom", "missing"}, group : {"none", "plain", "padded"},
   grouped : BOOLEAN, product : BOOLEAN, tunnel : {"none", "off"}, secret : BOOLEAN]

\* A data source as a version left it: driver references come with version 6,
\* tunnels with 8, group identities with 11 and products with 13.
LeftAt(v) ==
  {d \in DataSource :
     /\ d.reference = "unset" <=> v < 6
     /\ d.tunnel # "none" => v >= 8
     /\ d.secret => d.tunnel = "off"
     /\ d.grouped = (v >= 11 /\ d.group = "plain")
     /\ d.product = (v >= 13)
     /\ v >= 9 => d.reference # "missing"}

----------------------------------------------------------------------------
\* The migrations that touch a data source.

MigratedStore(d, v) ==
  CASE v = 6  -> [d EXCEPT !.reference = IF @ = "unset" THEN "builtin" ELSE @]
    [] v = 11 -> [d EXCEPT !.grouped = @ \/ d.group = "plain"]   \* a padded name matches no group
    [] v = 13 -> [d EXCEPT !.product = TRUE]
    [] OTHER  -> d

\* Migration 9 refuses a reference to a driver that is gone; those that create
\* their tables unconditionally fail where they exist.
Applies(file, v) ==
  /\ v = 9 => file.source.reference # "missing"
  /\ v >= 13 => v \notin file.effects

----------------------------------------------------------------------------
MigrationInit ==
  /\ \E v \in Olds : \E d \in LeftAt(v) :
       disk = [recorded |-> 1..v, effects |-> 1..v, source |-> d]
  /\ work = disk
  /\ migrator = Nobody
  /\ step = [l \in Launch |-> "off"]
  /\ next = [l \in Launch |-> 1]
  /\ alone = [l \in Launch |-> TRUE]
  /\ starts = 0

GoTo(l, where) == step' = [step EXCEPT ![l] = where]

Start(l) ==
  /\ step[l] \in {"off", "failed"} /\ starts < MaxStarts
  /\ GoTo(l, "checking")
  /\ LET others == {o \in Launch \ {l} : step[o] \in Up} IN
       alone' = [o \in Launch |-> IF o = l THEN others = {} ELSE alone[o] /\ o \notin others]
  /\ starts' = starts + 1
  /\ UNCHANGED <<disk, work, migrator, next>>

\* migration_applied, up to the first version without its row.
Check(l) ==
  /\ step[l] = "checking"
  /\ LET missing == Version \ disk.recorded IN
       IF missing = {}
       THEN GoTo(l, "clearing") /\ UNCHANGED next
       ELSE GoTo(l, "waiting") /\ next' = [next EXCEPT ![l] = Min(missing)]
  /\ UNCHANGED <<disk, work, migrator, alone, starts>>

\* BEGIN IMMEDIATE waits for the migrator before it, five seconds at most.
Begin(l) ==
  /\ step[l] = "waiting" /\ migrator = Nobody
  /\ GoTo(l, "begun")
  /\ migrator' = l /\ work' = disk
  /\ UNCHANGED <<disk, next, alone, starts>>

BeginTimesOut(l) ==
  /\ step[l] = "waiting" /\ migrator # Nobody
  /\ GoTo(l, "failed")
  /\ UNCHANGED <<disk, work, migrator, next, alone, starts>>

RollBack(l) ==
  /\ GoTo(l, "failed")
  /\ migrator' = Nobody /\ work' = disk
  /\ UNCHANGED disk

Changed(file, v) == [file EXCEPT !.effects = @ \cup {v}, !.source = MigratedStore(@, v)]

\* Mutant: the statements of a migration commit one by one.
ApplyAtOnce(l) ==
  /\ step[l] = "begun"
  /\ IF Applies(work, next[l])
     THEN /\ work' = Changed(work, next[l]) /\ disk' = work'
          /\ GoTo(l, "done")
          /\ UNCHANGED migrator
     ELSE RollBack(l)
  /\ UNCHANGED <<next, alone, starts>>

Apply(l) ==
  /\ step[l] = "begun"
  /\ IF Applies(work, next[l])
     THEN /\ work' = Changed(work, next[l])
          /\ GoTo(l, "done")
          /\ UNCHANGED <<disk, migrator>>
     ELSE RollBack(l)
  /\ UNCHANGED <<next, alone, starts>>

\* The version is a key: a row another launch has written meanwhile is an error.
RecordVersion(l) ==
  /\ step[l] = "done"
  /\ IF next[l] \notin work.recorded
     THEN /\ work' = [work EXCEPT !.recorded = @ \cup {next[l]}]
          /\ GoTo(l, "recorded")
          /\ UNCHANGED <<disk, migrator>>
     ELSE RollBack(l)
  /\ UNCHANGED <<next, alone, starts>>

Commit(l) ==
  /\ step[l] = "recorded"
  /\ disk' = work /\ migrator' = Nobody
  /\ GoTo(l, "checking")
  /\ UNCHANGED <<work, next, alone, starts>>

\* clear_disabled_ssh_tunnel_secrets, whatever was migrated; a migration may
\* hold the file meanwhile, and this waits for it.
Clear(l) ==
  /\ step[l] = "clearing" /\ migrator = Nobody
  /\ disk' = [disk EXCEPT !.source.secret = @ /\ disk.source.tunnel # "off"]
  /\ GoTo(l, "seeding")
  /\ UNCHANGED <<work, migrator, next, alone, starts>>

Seed(l) ==
  /\ step[l] = "seeding" /\ migrator = Nobody
  /\ GoTo(l, "open")
  /\ UNCHANGED <<disk, work, migrator, next, alone, starts>>

\* The process ends, at any point.
Die(l) ==
  /\ step[l] \in Up
  /\ GoTo(l, "off")
  /\ migrator' = IF migrator = l THEN Nobody ELSE migrator
  /\ work' = IF migrator = l THEN disk ELSE work
  /\ UNCHANGED <<disk, next, alone, starts>>

MigrationNext ==
  \E l \in Launch :
    \/ Start(l) \/ Check(l) \/ Begin(l) \/ BeginTimesOut(l) \/ Apply(l) \/ RecordVersion(l)
    \/ Commit(l) \/ Clear(l) \/ Seed(l) \/ Die(l)

MigrationSpec == MigrationInit /\ [][MigrationNext]_migrationVars

----------------------------------------------------------------------------
MigrationTypeOK ==
  /\ \A file \in {disk, work} :
       /\ file.recorded \subseteq Version /\ file.effects \subseteq Version
       /\ file.source \in DataSource
  /\ migrator \in Launch \cup {Nobody}
  /\ step \in [Launch -> Up \cup {"off", "failed"}]
  /\ next \in [Launch -> Version]
  /\ alone \in [Launch -> BOOLEAN]
  /\ starts \in 0..MaxStarts

\* The file is always at one version, however launches race and die: a
\* migration is in effect exactly when it is recorded, and none is skipped.  A
\* store that opened is at the last version, its data source with a driver, a
\* product, the group of its unpadded name and no secret of a disabled tunnel;
\* and a launch that nobody raced only fails on a driver that is gone.
StoreOpensWhole ==
  /\ disk.effects = disk.recorded
  /\ disk.recorded = 1..Cardinality(disk.recorded)
  /\ \A l \in Launch :
       /\ step[l] = "open" =>
            /\ disk.recorded = Version
            /\ disk.source.reference # "unset" /\ disk.source.product
            /\ disk.source.group = "plain" => disk.source.grouped
            /\ disk.source.tunnel = "off" => ~disk.source.secret
       /\ step[l] = "failed" /\ alone[l] =>
            disk.source.reference = "missing" /\ disk.recorded = 1..8
=============================================================================
