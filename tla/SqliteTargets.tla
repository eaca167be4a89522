--------------------------- MODULE SqliteTargets ---------------------------
(***************************************************************************)
(* The files behind SQLite data sources (commands/connection.rs): opening one *)
(* creates it, so a test of a form works on a probe beside a missing target, *)
(* connecting a saved data source first looks for its file, and only creating *)
(* a data source makes one.                                                 *)
(*                                                                         *)
(* Commands look at a file and open it in different steps, with the owner of  *)
(* the files in between.                                                    *)
(***************************************************************************)
EXTENDS Naturals, FiniteSets

CONSTANTS
  Target,              \* database files that forms and rows name
  Memory,              \* stands for the targets that are no file
  Command,             \* commands running at a time
  NoTarget

ASSUME TargetAssumption == {Memory, NoTarget} \cap Target = {} /\ Memory # NoTarget

VARIABLES
  exists,              \* database files there are
  directory,           \* is the directory of the files there?
  probes,              \* probe files there are, by the command that made them
  saved,               \* what the saved data source names
  doing,               \* what each command does, and to what
  created              \* files that a command created, for what it did, and had its look found it

targetVars == <<exists, directory, probes, saved, doing, created>>

Task == {"create", "create unready", "test", "connect"}
Idle == [task |-> "none", target |-> NoTarget, stage |-> "none", seen |-> FALSE]

TargetInit ==
  /\ exists \in SUBSET Target
  /\ directory \in {there \in BOOLEAN : there \/ exists = {}}
  /\ probes = {} /\ created = {}
  /\ saved \in Target \cup {NoTarget}
  /\ doing = [c \in Command |-> Idle]

Becomes(c, stage) == doing' = [doing EXCEPT ![c].stage = stage]
\* Goes on to open its target, remembering whether the look found it.
Opens(c) == doing' = [doing EXCEPT ![c].stage = "opening", ![c].seen = doing[c].target \in exists]
Done(c) == doing' = [doing EXCEPT ![c] = Idle]

\* A command begins; a JDBC setup without an installation is "unready".
BeginCommand(c, task, target) ==
  /\ doing[c] = Idle
  /\ task = "connect" => target = saved
  /\ doing' = [doing EXCEPT ![c] =
                [task |-> task, target |-> target, stage |-> "begun", seen |-> FALSE]]
  /\ UNCHANGED <<exists, directory, probes, saved, created>>

\* Mutant: a test opens its target whether it is there or not.
LookDirectly(c) ==
  /\ doing[c].stage = "begun"
  /\ CASE doing[c].task = "create unready" -> Becomes(c, "saving")
       [] doing[c].task = "connect" /\ doing[c].target \in Target \ exists -> Done(c)
       [] OTHER -> Opens(c)
  /\ UNCHANGED <<exists, directory, probes, saved, created>>

\* sqlite_file_target and what depends on the file being there.
Look(c) ==
  /\ doing[c].stage = "begun"
  /\ LET missing == doing[c].target \in Target \ exists IN
     CASE doing[c].task = "create unready"              -> Becomes(c, "saving")
       [] doing[c].task = "connect" /\ missing          -> Done(c)
       [] doing[c].task = "test" /\ missing /\ directory  -> Becomes(c, "probing")
       [] doing[c].task = "test" /\ missing /\ ~directory -> Done(c)
       [] OTHER                                         -> Opens(c)
  /\ UNCHANGED <<exists, directory, probes, saved, created>>

\* Opening a database creates its file.
Open(c) ==
  /\ doing[c].stage = "opening"
  /\ LET target == doing[c].target IN
     IF target \in Target \ exists
     THEN IF directory
          THEN /\ exists' = exists \cup {target}
               /\ created' = created \cup {<<target, doing[c].task, doing[c].seen>>}
               /\ IF doing[c].task = "create" THEN Becomes(c, "saving") ELSE Done(c)
          ELSE Done(c) /\ UNCHANGED <<exists, created>>
     ELSE /\ IF doing[c].task = "create" THEN Becomes(c, "saving") ELSE Done(c)
          /\ UNCHANGED <<exists, created>>
  /\ UNCHANGED <<directory, probes, saved>>

\* The file is there and is no database, or is locked.
OpenFails(c) ==
  /\ doing[c].stage = "opening" /\ doing[c].target \in exists
  /\ Done(c)
  /\ UNCHANGED <<exists, directory, probes, saved, created>>

Probe(c) ==
  /\ doing[c].stage = "probing"
  /\ IF directory
     THEN probes' = probes \cup {c} /\ Becomes(c, "cleaning")
     ELSE Done(c) /\ UNCHANGED probes
  /\ UNCHANGED <<exists, directory, saved, created>>

\* remove_sqlite_test_probe, whatever came of the test.
RemoveProbe(c) ==
  /\ doing[c].stage = "cleaning"
  /\ probes' = probes \ {c}
  /\ Done(c)
  /\ UNCHANGED <<exists, directory, saved, created>>

SaveTarget(c) ==
  /\ doing[c].stage = "saving"
  /\ saved' = doing[c].target
  /\ Done(c)
  /\ UNCHANGED <<exists, directory, probes, created>>

\* Whose files they are: they come and go with or without their directory.
OwnerMoves ==
  /\ \/ \E t \in exists : exists' = exists \ {t} /\ UNCHANGED directory
     \/ directory /\ probes = {} /\ exists' = {} /\ directory' = FALSE
     \/ ~directory /\ directory' = TRUE /\ UNCHANGED exists
  /\ created' = {made \in created : made[1] \in exists'}
  /\ UNCHANGED <<probes, saved, doing>>

TargetNext ==
  \/ \E c \in Command :
       \/ \E task \in Task, target \in Target \cup {Memory} : BeginCommand(c, task, target)
       \/ Look(c) \/ Open(c) \/ OpenFails(c) \/ Probe(c) \/ RemoveProbe(c) \/ SaveTarget(c)
  \/ OwnerMoves

TargetSpec == TargetInit /\ [][TargetNext]_targetVars

----------------------------------------------------------------------------
TargetTypeOK ==
  /\ exists \subseteq Target /\ probes \subseteq Command /\ directory \in BOOLEAN
  /\ saved \in Target \cup {Memory, NoTarget}
  /\ created \subseteq Target \X Task \X BOOLEAN
  /\ \A c \in Command : doing[c].task \in Task \cup {"none"}

\* Testing or connecting makes no database: a file that either opens is there,
\* unless it was when the command looked and its owner removed it since; and a
\* test leaves no probe once it is over.
OnlyCreatingMakesFiles ==
  /\ probes \subseteq {c \in Command : doing[c].stage = "cleaning"}
  /\ \A made \in created : made[2] = "create" \/ made[3]
=============================================================================
