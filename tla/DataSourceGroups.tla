-------------------------- MODULE DataSourceGroups --------------------------
(***************************************************************************)
(* Data source groups in config.db (services/config_store.rs,               *)
(* commands/data_source_group.rs): a group has a unique name and a place in *)
(* the order, and every connection repeats the id and the name of its group. *)
(* No foreign key keeps the two in step.  The commands on groups run one at *)
(* a time on the main thread, each writing in one transaction; creating and *)
(* updating a connection are asynchronous, find or create the group in       *)
(* statements of their own and write the connection later.                  *)
(***************************************************************************)
EXTENDS Integers, FiniteSets, FiniteSetsExt, Functions

CONSTANTS
  SavedConnection,      \* saved connections
  RowWriter,       \* create_connection and update_connection calls under way
  GroupId, NoGroup,
  GroupKey,     \* names up to case
  NoName,
  MaxOrder      \* bound on the places in the order, in hundreds

\* Ids never run out (they are UUIDs), and the bound leaves every group a place.
ASSUME GroupAssumption ==
  /\ NoGroup \notin GroupId /\ ExistsInjection(GroupKey, GroupId)
  /\ MaxOrder \in Nat \ {0} /\ IsFiniteSet(GroupKey) /\ Cardinality(GroupKey) <= MaxOrder

\* A name as it is spelled; the column compares without case.
GroupName == [key : GroupKey, upper : BOOLEAN]
NoRow == [group |-> NoGroup, label |-> NoName, present |-> FALSE]
Ungrouped == [NoRow EXCEPT !.present = TRUE]

VARIABLES
  groups,       \* data_source_groups: records of id, name and order
  rows,         \* connections: group_id and group_name
  usedIds,      \* ids are never used again
  mainOp,       \* a command of the main thread between its statements
  rowWriter,       \* an asynchronous command between its statements
  overlapped,   \* history: writers whose group changed after they read it
  stale         \* history: rows such a rowWriter wrote

groupVars == <<groups, rows, usedIds, mainOp, rowWriter, overlapped, stale>>

Free == [step |-> "free"]
Groups(id) == {g \in groups : g.id = id}
Named(name) == {g \in groups : g.name.key = name.key}
Of(g) == [group |-> g.id, label |-> g.name, present |-> TRUE]
NextOrder == 1 + Max({0} \cup {g.order : g \in groups})

\* The migration that introduced groups: one for each name in use up to case, under one of
\* its spellings, and the id in every row that has such a name.  A name that had blanks
\* around it matches none, and its row keeps the name without the id.
GroupsFromNames(legacy, padded, chosen) ==
  LET keys == {legacy[p].key : p \in {q \in SavedConnection : legacy[q] # NoName}}
      id == CHOOSE f \in Injection(keys, GroupId) : TRUE
      place == CHOOSE f \in Bijection(keys, 1..Cardinality(keys)) : TRUE IN
  [groups |-> {[id |-> id[k], name |-> chosen[k], order |-> place[k]] : k \in keys},
   rows |-> [p \in SavedConnection |->
     IF legacy[p] = NoName THEN Ungrouped
     ELSE [group |-> IF p \in padded THEN NoGroup ELSE id[legacy[p].key],
           label |-> legacy[p], present |-> TRUE]]]

GroupsInit ==
  /\ \E legacy \in [SavedConnection -> GroupName \cup {NoName}], padded \in SUBSET SavedConnection,
        chosen \in [GroupKey -> GroupName] :
       /\ \A p \in padded : legacy[p] # NoName
       /\ \A k \in GroupKey :
            LET spellings == {n \in GroupName : n.key = k /\ \E p \in SavedConnection : legacy[p] = n} IN
            chosen[k] \in IF spellings = {} THEN {[key |-> k, upper |-> FALSE]} ELSE spellings
       /\ groups = GroupsFromNames(legacy, padded, chosen).groups
       /\ rows = GroupsFromNames(legacy, padded, chosen).rows
       /\ stale = padded \cup {p \in SavedConnection :
                                legacy[p] \in GroupName \ {chosen[k] : k \in GroupKey}}
  /\ usedIds = {g.id : g \in groups}
  /\ mainOp = Free /\ rowWriter = [w \in RowWriter |-> Free] /\ overlapped = {}

-----------------------------------------------------------------------------
(* Commands of the main thread.                                             *)

\* The place of a new group is read by a statement of its own.
BeginCreate(name) ==
  /\ mainOp = Free /\ NextOrder <= MaxOrder
  /\ mainOp' = [step |-> "create", name |-> name, order |-> NextOrder]
  /\ UNCHANGED <<groups, rows, usedIds, rowWriter, overlapped, stale>>

\* The insertion, which a group of that name makes fail.
Inserts(op) ==
  \/ Named(op.name) # {} /\ UNCHANGED <<groups, usedIds>>
  \/ /\ Named(op.name) = {}
     /\ \E id \in GroupId \ usedIds :
          /\ groups' = groups \cup {[id |-> id, name |-> op.name, order |-> op.order]}
          /\ usedIds' = usedIds \cup {id}

CreateGroup ==
  /\ mainOp.step = "create" /\ Inserts(mainOp) /\ mainOp' = Free
  /\ UNCHANGED <<rows, rowWriter, overlapped, stale>>

\* The writers that hold the group as it was.
Overtakes(id) ==
  overlapped' = overlapped \cup {w \in RowWriter : rowWriter[w].step = "write" /\ rowWriter[w].group = id}

\* Mutant: the connections of a renamed group keep its old name.
RenameGroupAlone(id, name) ==
  /\ mainOp = Free /\ Groups(id) # {} /\ Named(name) \subseteq Groups(id)
  /\ groups' = {IF g.id = id THEN [g EXCEPT !.name = name] ELSE g : g \in groups}
  /\ Overtakes(id)
  /\ UNCHANGED <<rows, usedIds, mainOp, rowWriter, stale>>

\* rename_data_source_group.  Only the main thread renames and deletes, so the group it read
\* is there; a name that is taken rolls the transaction back.
RenameGroup(id, name) ==
  /\ mainOp = Free /\ Groups(id) # {} /\ Named(name) \subseteq Groups(id)
  /\ groups' = {IF g.id = id THEN [g EXCEPT !.name = name] ELSE g : g \in groups}
  /\ rows' = [p \in SavedConnection |-> IF rows[p].present /\ rows[p].group = id
                                THEN [rows[p] EXCEPT !.label = name] ELSE rows[p]]
  /\ Overtakes(id)
  /\ UNCHANGED <<usedIds, mainOp, rowWriter, stale>>

DeleteGroup(id) ==
  /\ mainOp = Free /\ Groups(id) # {}
  /\ groups' = groups \ Groups(id)
  /\ rows' = [p \in SavedConnection |-> IF rows[p].present /\ rows[p].group = id THEN Ungrouped
                                ELSE rows[p]]
  /\ Overtakes(id)
  /\ UNCHANGED <<usedIds, mainOp, rowWriter, stale>>

\* reorder_data_source_groups: the order must name every group of the list once.
BeginReorder(order) ==
  /\ mainOp = Free /\ groups # {}
  /\ mainOp' = [step |-> "reorder", order |-> order]
  /\ UNCHANGED <<groups, rows, usedIds, rowWriter, overlapped, stale>>

Reorder ==
  /\ mainOp.step = "reorder" /\ mainOp' = Free
  /\ groups' = {IF g.id \in DOMAIN mainOp.order THEN [g EXCEPT !.order = mainOp.order[g.id]]
                ELSE g : g \in groups}
  /\ UNCHANGED <<rows, usedIds, rowWriter, overlapped, stale>>

\* set_connection_group.
SetConnectionGroup(p, id) ==
  /\ mainOp = Free /\ rows[p].present
  /\ \/ id = NoGroup /\ rows' = [rows EXCEPT ![p] = Ungrouped]
     \/ \E g \in Groups(id) : rows' = [rows EXCEPT ![p] = Of(g)]
  /\ stale' = stale \ {p}
  /\ UNCHANGED <<groups, usedIds, mainOp, rowWriter, overlapped>>

-----------------------------------------------------------------------------
(* Asynchronous commands: resolve_group_reference, then the row.            *)

WriterGoes(w, op) == rowWriter' = [rowWriter EXCEPT ![w] = op]
Wrote(p, g) == [step |-> "write", profile |-> p, group |-> g.group, label |-> g.label]

\* By the id the user's form holds, by a name, or without a group.
ResolveById(w, p, id) ==
  /\ rowWriter[w] = Free
  /\ \E g \in Groups(id) : WriterGoes(w, Wrote(p, Of(g)))
  /\ UNCHANGED <<groups, rows, usedIds, mainOp, overlapped, stale>>

ResolveNone(w, p) ==
  /\ rowWriter[w] = Free /\ WriterGoes(w, Wrote(p, Ungrouped))
  /\ UNCHANGED <<groups, rows, usedIds, mainOp, overlapped, stale>>

ResolveByName(w, p, name) ==
  /\ rowWriter[w] = Free
  /\ \/ \E g \in Named(name) : WriterGoes(w, Wrote(p, Of(g)))
     \/ Named(name) = {} /\ WriterGoes(w, [step |-> "order", profile |-> p, name |-> name])
  /\ UNCHANGED <<groups, rows, usedIds, mainOp, overlapped, stale>>

TakeOrder(w) ==
  /\ rowWriter[w].step = "order" /\ NextOrder <= MaxOrder
  /\ WriterGoes(w, [step |-> "create", profile |-> rowWriter[w].profile, name |-> rowWriter[w].name,
              order |-> NextOrder])
  /\ UNCHANGED <<groups, rows, usedIds, mainOp, overlapped, stale>>

CreateNamedGroup(w) ==
  /\ rowWriter[w].step = "create" /\ Inserts(rowWriter[w])
  /\ \/ groups' = groups /\ WriterGoes(w, Free)
     \/ \E g \in groups' \ groups : WriterGoes(w, Wrote(rowWriter[w].profile, Of(g)))
  /\ UNCHANGED <<rows, mainOp, overlapped, stale>>

\* The whole row is written; a password that cannot be saved ends the command before.
WriteRow(w) ==
  /\ rowWriter[w].step = "write" /\ WriterGoes(w, Free)
  /\ LET p == rowWriter[w].profile IN
       /\ rows' \in {rows, [rows EXCEPT ![p] = [group |-> rowWriter[w].group,
                                                label |-> rowWriter[w].label, present |-> TRUE]]}
       /\ stale' = IF rows' = rows THEN stale
                   ELSE IF w \in overlapped THEN stale \cup {p} ELSE stale \ {p}
  /\ overlapped' = overlapped \ {w}
  /\ UNCHANGED <<groups, usedIds, mainOp>>

GroupsNext ==
  \/ CreateGroup \/ Reorder
  \/ \E name \in GroupName : BeginCreate(name)
  \/ \E order \in Bijection({g.id : g \in groups}, 1..Cardinality(groups)) : BeginReorder(order)
  \/ \E id \in GroupId : DeleteGroup(id) \/ \E name \in GroupName : RenameGroup(id, name)
  \/ \E p \in SavedConnection, id \in GroupId \cup {NoGroup} : SetConnectionGroup(p, id)
  \/ \E w \in RowWriter :
       \/ TakeOrder(w) \/ CreateNamedGroup(w) \/ WriteRow(w)
       \/ \E p \in SavedConnection :
            \/ ResolveNone(w, p)
            \/ \E id \in GroupId : ResolveById(w, p, id)
            \/ \E name \in GroupName : ResolveByName(w, p, name)

GroupsSpec == GroupsInit /\ [][GroupsNext]_groupVars

GroupsTypeOK ==
  /\ groups \subseteq [id : GroupId, name : GroupName, order : 1..MaxOrder]
  /\ rows \in [SavedConnection -> [group : GroupId \cup {NoGroup}, label : GroupName \cup {NoName},
                           present : BOOLEAN]]
  /\ usedIds \subseteq GroupId /\ overlapped \subseteq RowWriter /\ stale \subseteq SavedConnection
  /\ mainOp.step \in {"free", "create", "reorder"}
  /\ \A w \in RowWriter : rowWriter[w].step \in {"free", "order", "create", "write"}

(* No two groups share a name or an id, and every connection names its group *)
(* as the group is named, except those that a command wrote with a group     *)
(* that was renamed or deleted after the command read it, and those whose    *)
(* group was never looked up since the names of old were taken over.         *)
GroupsAgreeWithConnections ==
  /\ \A g, h \in groups : g.id = h.id \/ g.name.key = h.name.key => g = h
  /\ \A p \in SavedConnection \ stale :
       rows[p] = NoRow \/ rows[p] = Ungrouped \/ \E g \in groups : rows[p] = Of(g)
=============================================================================
