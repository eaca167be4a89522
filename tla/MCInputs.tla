------------------------------ MODULE MCInputs ------------------------------
(* Finite instances of what the user hands to the program: CSV text, imports  *)
(* and their previews, SQL, URLs, connection forms, SQLite targets and what   *)
(* connections refer to.  The parts share no state.  A behaviour moves one of *)
(* them, its focus, so that the instances are explored one after the other    *)
(* and not their product.                                                   *)
EXTENDS CsvFormat, CsvImport, CsvPreviews, SqlAnalysis, ConnectionUrls, ConnectionForms,
        SqliteTargets, DriverReferences

VARIABLE focus

On(part) == focus = part
inputsVars ==
  <<focus, csvVars, importVars, previewVars, sqlVars, urlVars, formVars, targetVars, referenceVars>>

\* What a part chooses at the start is chosen for the focus only.
InputsInit ==
  /\ focus \in {"csv", "imports", "previews", "sql", "urls", "forms", "targets", "references"}
  /\ CsvInit /\ (~On("csv") => width = 0)
  /\ ImportInit /\ (~On("imports") => savepoints /\ fileRows = 0)
  /\ PreviewInit /\ (~On("previews") => ~gateBusy)
  /\ SqlInit /\ (~On("sql") => sql = <<>>)
  /\ UrlInit
  /\ FormInit
  /\ TargetInit /\ (~On("targets") => exists = {} /\ directory /\ saved = NoTarget)
  /\ ReferencesInit /\ (~On("references") => SavedProfiles = {} /\ Defined = {NativeId})

InputsNext ==
  /\ UNCHANGED focus
  /\ \/ On("csv") /\ CsvNext
     \/ ~On("csv") /\ UNCHANGED csvVars
  /\ \/ On("imports") /\ ImportNext
     \/ ~On("imports") /\ UNCHANGED importVars
  /\ \/ On("previews") /\ PreviewNext
     \/ ~On("previews") /\ UNCHANGED previewVars
  /\ \/ On("sql") /\ SqlNext
     \/ ~On("sql") /\ UNCHANGED sqlVars
  /\ \/ On("urls") /\ UrlNext
     \/ ~On("urls") /\ UNCHANGED urlVars
  /\ \/ On("forms") /\ FormNext
     \/ ~On("forms") /\ UNCHANGED formVars
  /\ \/ On("targets") /\ TargetNext
     \/ ~On("targets") /\ UNCHANGED targetVars
  /\ \/ On("references") /\ ReferencesNext
     \/ ~On("references") /\ UNCHANGED referenceVars

InputsSpec == InputsInit /\ [][InputsNext]_inputsVars

\* The columns of the table a CSV file is for.
TwoColumns == << <<"x">>, <<";">> >>

\* Beginnings of scripts, and the symbols that may follow each.
From(start, symbols, length) == [symbols |-> symbols, start |-> start, length |-> length]
SmallScripts ==
  { From(<<"'">>, {"'", "esc", "dq", ";"}, 6), From(<<"[">>, {"]", "'", ";"}, 6),
    From(<<"-", "-">>, {"nl", "'", ";", "drop"}, 6), From(<<"/">>, {"/", "*", ";", "drop"}, 6),
    From(<<"$">>, {"$", "b", ";"}, 7), From(<<"$", "$", "$", "$">>, {"$", "b", ";", "drop"}, 9),
    From(<<"q">>, {"q", "'", "x", ";"}, 6),
    From(<<>>, {"go", "nl", ";", "drop", "'"}, 5),
    From(<<"go", "/", "*">>, {"nl", "/", "*", "drop"}, 7),
    From(<<"with">>, {"(", ")", "delete", "where"}, 7),
    From(<<"delete">>, {"b", "where", "select", ";"}, 5),
    From(<<"drop">>, {"call", "(", ";", "dq"}, 5) }

(* An import neither loses nor repeats a row of the file it has checked, as  *)
(* far as it looks whether that has changed; it takes the file apart as a   *)
(* whole reading would, and as the export wrote it; its preview finds the    *)
(* rows that it would offer, and the panel shows the preview of the file it  *)
(* is on (see the modules).                                                *)
ImportsAreTrue ==
  /\ ImportSafety /\ PreviewsAreCurrent
  /\ On("csv") => ReaderAgreesWithParser /\ RoundTrip /\ PreviewAgreesWithImport

(* SQL text is read as what it says (see SqlAnalysis).                       *)
ScriptsAreUnderstood == On("sql") => SqlIsUnderstood

(* A connection is what its form says: its credentials are taken out of the  *)
(* URL, its host and port taken apart, its edits honoured, and no SQLite file *)
(* made but by creating one (see the modules).                              *)
ConnectionsAreUnderstood ==
  /\ On("urls") => CredentialsLeaveTheUrl /\ HostAndPortAreTakenApart
  /\ On("forms") => FormsAreHonoured
  /\ On("targets") => OnlyCreatingMakesFiles
=============================================================================
