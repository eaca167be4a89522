------------------------------ MODULE SqlFiles ------------------------------
(***************************************************************************)
(* SQL files (commands/sql_file.rs): a document is granted one file by a     *)
(* native dialog, knows the fingerprint of what it last saw there, and is    *)
(* saved by writing a temporary file and moving it over the old one.  Other  *)
(* programs edit the file whenever they like, and the application may die.   *)
(* All documents here are of one file, the case in which they disturb each   *)
(* other.  A fingerprint is the content it is the hash of.                   *)
(***************************************************************************)
EXTENDS Integers, FiniteSets

CONSTANTS
  Document,     \* the documents the editor has open
  Text,         \* what a document may say
  Missing,      \* there is no file
  Undecodable   \* a file that is not UTF-8, or too large

ASSUME SqlFileAssumption ==
  Missing # Undecodable /\ Text # {}

Eol == {"lf", "crlf"}
\* A file with both line ends is opened as one with the longer ends.  Its byte-order mark is
\* kept the way its line ends are.
Content == [ends : Eol \cup {"mixed"}, text : Text]

VARIABLES
  file,          \* the content of the file
  link,          \* the path has become a symbolic link
  temps,         \* the documents whose temporary file is on disk
  grants,        \* the documents with a grant
  saver,         \* the documents in the section the grants' mutex guards
  fileStage,
  seen,          \* what the fingerprint of each document names
  buffer,        \* what the document says, and its line ends
  raced          \* another program wrote the file after the last check of a save

documentVars == <<file, link, temps, grants, saver, fileStage, seen, buffer, raced>>

Decoded(c) == [text |-> c.text, ends |-> IF c.ends = "lf" THEN "lf" ELSE "crlf"]
Empty == [ends |-> "lf", text |-> CHOOSE t \in Text : TRUE]

FilesInit ==
  /\ file \in {Missing, Undecodable} \cup Content /\ link = FALSE
  /\ temps = {} /\ grants = {} /\ saver = {} /\ raced = FALSE
  /\ fileStage = [d \in Document |-> "closed"]
  /\ seen = [d \in Document |-> Missing]
  /\ buffer = [d \in Document |-> Empty]

Moves(d, stage) == fileStage' = [fileStage EXCEPT ![d] = stage]
\* Mutant: the grants are not locked while a file is saved.
EntersFreely(d) == saver' = saver \cup {d}

Enters(d) == saver = {} /\ saver' = {d}
Leaves(d) == saver' = saver \ {d}

\* open: the chosen file is read and decoded outside the mutex, then granted.  select: the
\* target of a first save need not exist or be text.
OpenDialog(d) ==
  /\ fileStage[d] = "closed" /\ Moves(d, "granting")
  /\ \/ file \in Content /\ buffer' = [buffer EXCEPT ![d] = Decoded(file)]
     \/ UNCHANGED buffer
  /\ seen' = [seen EXCEPT ![d] = file]
  /\ UNCHANGED <<file, link, temps, grants, saver, raced>>

Grant(d) ==
  /\ fileStage[d] = "granting" /\ saver = {} /\ Moves(d, "open")
  /\ grants' = grants \cup {d}
  /\ UNCHANGED <<file, link, temps, saver, seen, buffer, raced>>

Edit(d) ==
  /\ fileStage[d] = "open"
  /\ \E t \in Text \ {buffer[d].text} : buffer' = [buffer EXCEPT ![d].text = t]
  /\ UNCHANGED <<file, link, temps, grants, saver, fileStage, seen, raced>>

\* read: what cannot be decoded is refused and the document stays as it is.
Reload(d) ==
  /\ fileStage[d] = "open" /\ d \in grants /\ saver = {} /\ ~link
  /\ file \in Content
  /\ buffer' = [buffer EXCEPT ![d] = Decoded(file)]
  /\ seen' = [seen EXCEPT ![d] = file]
  /\ UNCHANGED <<file, link, temps, grants, saver, fileStage, raced>>

\* write: only over the file the document saw.
BeginSave(d) ==
  /\ fileStage[d] = "open" /\ d \in grants /\ Enters(d) /\ ~link
  /\ file = seen[d] /\ Moves(d, "staging")
  /\ UNCHANGED <<file, link, temps, grants, seen, buffer, raced>>

\* Any other file is a conflict, answered with its fingerprint; the user keeps the document
\* over that file, or leaves it at that.
Conflict(d) ==
  /\ fileStage[d] = "open" /\ d \in grants /\ saver = {} /\ ~link
  /\ file # seen[d] /\ seen' = [seen EXCEPT ![d] = file]
  /\ UNCHANGED <<file, link, temps, grants, saver, fileStage, buffer, raced>>

\* The temporary file is created, given the permissions of the old one and written.
StageSave(d) ==
  /\ fileStage[d] = "staging" /\ Moves(d, "staged")
  /\ temps' = temps \cup {d}
  /\ UNCHANGED <<file, link, grants, saver, seen, buffer, raced>>

\* A step of the save fails, or its second check finds the file changed.
FailSave(d) ==
  /\ fileStage[d] \in {"staging", "staged", "checked"} /\ Moves(d, "open") /\ Leaves(d)
  /\ temps' = temps \ {d}
  /\ UNCHANGED <<file, link, grants, seen, buffer, raced>>

\* Mutant: the file is not looked at again.
RecheckOnce(d) ==
  /\ fileStage[d] = "staged" /\ Moves(d, "checked")
  /\ raced' = FALSE
  /\ UNCHANGED <<file, link, temps, grants, saver, seen, buffer>>

\* The file is compared once more, immediately before it is replaced.
Recheck(d) ==
  /\ fileStage[d] = "staged" /\ file = seen[d] /\ Moves(d, "checked")
  /\ raced' = FALSE
  /\ UNCHANGED <<file, link, temps, grants, saver, seen, buffer>>

\* rename, and the answer: the document as it is now saved.
Replace(d) ==
  /\ fileStage[d] = "checked" /\ Moves(d, "open") /\ Leaves(d)
  /\ file' = buffer[d] /\ link' = FALSE /\ temps' = temps \ {d}
  /\ seen' = [seen EXCEPT ![d] = buffer[d]]
  /\ UNCHANGED <<grants, buffer, raced>>

\* Another program writes, removes or links the file.
Elsewhere ==
  /\ \E c \in {Missing, Undecodable} \cup Content : c # file /\ file' = c
  /\ link' \in BOOLEAN /\ raced' = TRUE
  /\ UNCHANGED <<temps, grants, saver, fileStage, seen, buffer>>

\* The application dies and is started again: grants are gone, temporary files are not.
Reopen ==
  /\ grants # {} /\ grants' = {} /\ saver' = {}
  /\ fileStage' = [d \in Document |-> "closed"]
  /\ seen' = [d \in Document |-> Missing] /\ buffer' = [d \in Document |-> Empty]
  /\ UNCHANGED <<file, link, temps, raced>>

FilesNext ==
  \/ Elsewhere \/ Reopen
  \/ \E d \in Document :
       \/ OpenDialog(d) \/ Grant(d) \/ Edit(d) \/ Reload(d) \/ BeginSave(d) \/ Conflict(d)
       \/ StageSave(d) \/ FailSave(d) \/ Recheck(d) \/ Replace(d)

FilesSpec == FilesInit /\ [][FilesNext]_documentVars

FilesTypeOK ==
  /\ file \in {Missing, Undecodable} \cup Content /\ link \in BOOLEAN /\ raced \in BOOLEAN
  /\ temps \subseteq Document /\ grants \subseteq Document /\ saver \subseteq Document
  /\ fileStage \in [Document -> {"closed", "granting", "open", "staging", "staged", "checked"}]
  /\ seen \in [Document -> {Missing, Undecodable} \cup Content]
  /\ buffer \in [Document -> [ends : Eol, text : Text]]

(* A save replaces the very file its document has seen, whatever the other   *)
(* documents save meanwhile, unless another program writes between the last *)
(* look and the move; and a document that is being saved holds its grant.   *)
SavesReplaceWhatWasSeen ==
  \A d \in Document :
    /\ fileStage[d] = "checked" /\ ~raced => file = seen[d]
    /\ fileStage[d] \in {"staging", "staged", "checked"} => d \in grants
=============================================================================
