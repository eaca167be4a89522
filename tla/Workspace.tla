----------------------------- MODULE Workspace -----------------------------
(***************************************************************************)
(* SQL drafts and query history in config.db (services/config_store.rs,     *)
(* commands/sql_draft.rs, commands/query_history.rs).  Saving either writes *)
(* a row in one statement and prunes the table in the next; the application *)
(* may end between the two.  Rows are dated by the clock of the system,      *)
(* which may be set back.                                                   *)
(***************************************************************************)
EXTENDS Integers, FiniteSets, FiniteSetsExt

CONSTANTS
  Draft,           \* ids of drafts
  MaxDrafts,       \* 50
  Entry,           \* ids of history entries
  MaxHistory,      \* 5000
  HistorySlack,    \* 10 entries more before the history is pruned
  MaxClock         \* bound on the clock

ASSUME WorkspaceAssumption ==
  /\ MaxDrafts \in Nat \ {0} /\ MaxHistory \in Nat \ {0}
  /\ HistorySlack \in Nat \ {0} /\ MaxClock \in Nat \ {0}

VARIABLES
  clock,
  setBack,       \* history: the clock has been set back
  drafts,        \* sql_drafts: records of id and updated
  history,       \* query_history: records of id and started
  unpruned,      \* "none", or the table whose pruning is still to come
  lastSaved,     \* history: the draft that was saved last, or none
  cutShort       \* history: the application ended before a table was pruned

workspaceVars == <<clock, setBack, drafts, history, unpruned, lastSaved, cutShort>>

Drafts(id) == {d \in drafts : d.id = id}
\* Dates are exact enough that no two commands share one, while the clock only advances.
NewMoment == setBack \/ \A d \in drafts : d.updated < clock

WorkspaceInit ==
  /\ clock = 0 /\ setBack = FALSE
  /\ drafts = {} /\ history = {}
  /\ unpruned = "none" /\ lastSaved = {} /\ cutShort = FALSE

Tock ==
  /\ clock' \in (0..Min({clock + 1, MaxClock})) \ {clock}
  /\ setBack' = (setBack \/ clock' < clock)
  /\ UNCHANGED <<drafts, history, unpruned, lastSaved, cutShort>>

\* Mutant: a draft that is saved again keeps its date.
UpsertDraftUndated(id) ==
  /\ unpruned = "none" /\ NewMoment
  /\ drafts' = IF Drafts(id) # {} THEN drafts
               ELSE drafts \cup {[id |-> id, updated |-> clock]}
  /\ unpruned' = "drafts" /\ lastSaved' = {id}
  /\ UNCHANGED <<clock, setBack, history, cutShort>>

\* upsert_sql_draft with something to say; what it says, its creation and whether its tab was
\* closed do not matter to the table.
UpsertDraft(id) ==
  /\ unpruned = "none" /\ NewMoment
  /\ drafts' = (drafts \ Drafts(id)) \cup {[id |-> id, updated |-> clock]}
  /\ unpruned' = "drafts" /\ lastSaved' = {id}
  /\ UNCHANGED <<clock, setBack, history, cutShort>>

\* prune_sql_drafts: of drafts of one date any may be the ones that stay.
PruneDrafts ==
  /\ unpruned = "drafts" /\ unpruned' = "none"
  /\ \E kept \in SUBSET drafts :
       /\ Cardinality(kept) = Min({MaxDrafts, Cardinality(drafts)})
       /\ \A d \in kept, e \in drafts \ kept : d.updated >= e.updated
       /\ drafts' = kept
  /\ UNCHANGED <<clock, setBack, history, lastSaved, cutShort>>

\* A draft that was emptied is deleted, as is one the user deletes.
DeleteDraft(id) ==
  /\ unpruned = "none"
  /\ drafts' = drafts \ Drafts(id) /\ lastSaved' = lastSaved \ {id}
  /\ UNCHANGED <<clock, setBack, history, unpruned, cutShort>>

\* mark_sql_draft_closed: the draft counts as just updated.
CloseDraft(id) ==
  /\ unpruned = "none" /\ Drafts(id) # {} /\ NewMoment
  /\ drafts' = (drafts \ Drafts(id)) \cup {[id |-> id, updated |-> clock]}
  /\ UNCHANGED <<clock, setBack, history, unpruned, lastSaved, cutShort>>

ClearDrafts ==
  /\ unpruned = "none" /\ drafts' = {} /\ lastSaved' = {}
  /\ UNCHANGED <<clock, setBack, history, unpruned, cutShort>>

\* add_query_history: a query is dated by its start, which may be long ago.
AddHistory(e, started) ==
  /\ unpruned = "none" /\ \A r \in history : r.id # e
  /\ history' = history \cup {[id |-> e, started |-> started]}
  /\ unpruned' = "history"
  /\ UNCHANGED <<clock, setBack, drafts, lastSaved, cutShort>>

\* Mutant: the history is pruned to what it may hold, not to what it holds pruned.
PruneHistoryLess ==
  /\ unpruned = "history" /\ unpruned' = "none"
  /\ \/ Cardinality(history) < MaxHistory + HistorySlack /\ UNCHANGED history
     \/ /\ Cardinality(history) > MaxHistory + HistorySlack
        /\ \E kept \in SUBSET history :
             /\ Cardinality(kept) = MaxHistory
             /\ \A r \in kept, q \in history \ kept : r.started >= q.started
             /\ history' = kept
     \/ Cardinality(history) = MaxHistory + HistorySlack /\ UNCHANGED history
  /\ UNCHANGED <<clock, setBack, drafts, lastSaved, cutShort>>

\* prune_query_history: only when the slack is used up, and then down to the limit.
PruneHistory ==
  /\ unpruned = "history" /\ unpruned' = "none"
  /\ \/ Cardinality(history) < MaxHistory + HistorySlack /\ UNCHANGED history
     \/ /\ Cardinality(history) >= MaxHistory + HistorySlack
        /\ \E kept \in SUBSET history :
             /\ Cardinality(kept) = MaxHistory
             /\ \A r \in kept, q \in history \ kept : r.started >= q.started
             /\ history' = kept
  /\ UNCHANGED <<clock, setBack, drafts, lastSaved, cutShort>>

ClearHistory ==
  /\ unpruned = "none" /\ history' = {}
  /\ UNCHANGED <<clock, setBack, drafts, unpruned, lastSaved, cutShort>>

\* The application ends between the two statements.
EndUnpruned ==
  /\ unpruned # "none" /\ unpruned' = "none" /\ cutShort' = TRUE
  /\ UNCHANGED <<clock, setBack, drafts, history, lastSaved>>

\* The commands on drafts, and those on the history.
DraftStep ==
  \/ PruneDrafts \/ ClearDrafts
  \/ \E id \in Draft : DeleteDraft(id) \/ CloseDraft(id) \/ UpsertDraft(id)

HistoryStep ==
  \/ PruneHistory \/ ClearHistory
  \/ \E e \in Entry, started \in 0..clock : AddHistory(e, started)

WorkspaceNext == Tock \/ EndUnpruned \/ DraftStep \/ HistoryStep

WorkspaceSpec == WorkspaceInit /\ [][WorkspaceNext]_workspaceVars

WorkspaceTypeOK ==
  /\ clock \in 0..MaxClock /\ setBack \in BOOLEAN
  /\ drafts \subseteq [id : Draft, updated : 0..MaxClock]
  /\ history \subseteq [id : Entry, started : 0..MaxClock]
  /\ unpruned \in {"none", "drafts", "history"} /\ lastSaved \subseteq Draft
  /\ cutShort \in BOOLEAN

(* A draft has one row, and the one saved last is never among those that are *)
(* pruned, unless the clock was set back.  Unless the application ended       *)
(* between saving and pruning, there are never more drafts than the limit    *)
(* and never as many entries as the limit and the slack.                    *)
SavedDraftIsKept ==
  /\ \A d, e \in drafts : d.id = e.id => d = e
  /\ ~setBack => \A id \in lastSaved : Drafts(id) # {}
  /\ unpruned = "none" /\ ~cutShort =>
       /\ Cardinality(drafts) <= MaxDrafts
       /\ Cardinality(history) < MaxHistory + HistorySlack
=============================================================================
