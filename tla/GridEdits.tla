------------------------------ MODULE GridEdits ------------------------------
(***************************************************************************)
(* Editing the rows of a table in the result grid: staging, undo, saving,  *)
(* and what else changes the grid meanwhile: runs, results restored from   *)
(* the history, other tabs and other connections                           *)
(* (use-result-grid-editing.ts, result-grid-store.ts, executeQuery of      *)
(* use-query-runner.ts, openTableData, restoreHistoryResult).              *)
(*                                                                         *)
(* A staged change names a row by its position in the result on screen;    *)
(* the row's key is looked up when the changes are saved.  The result pane *)
(* is shared by every tab and connection: it keeps its rows until others   *)
(* are put in their place, whatever lastRunSql and tableViewObject say.    *)
(*                                                                         *)
(* One table is followed, which every connection has with the same key and *)
(* one column that can be edited; the connections may be written to.  The  *)
(* databases are external: a read gives the table's rows in any order, and *)
(* a save is applied as a whole or fails.                                  *)
(***************************************************************************)
EXTENDS Naturals, FiniteSets, SequencesExt

CONSTANTS Databases,     \* the connections
          Keys, Values,  \* the rows of the table, what they may hold
          OtherAnswers,  \* what statements other than the preview may give
          UndoDepth,     \* maxEditUndoDepth
          MaxChanges,    \* bound: how many changes are staged
          MaxCalls,      \* bound: how many runs and saves are under way at once
          MaxSaves       \* bound: how many of them are saves

Row == [key : Keys, value : Values]
\* What a statement gives: rows, and whether the key's columns are among theirs.
Answer == [rows : Seq(Row), keyed : BOOLEAN]

ASSUME GridConstants ==
    /\ IsFiniteSet(Keys) /\ OtherAnswers \subseteq Answer
    /\ UndoDepth \in Nat \ {0}
    /\ MaxChanges \in Nat /\ MaxCalls \in Nat /\ MaxSaves \in Nat

Gone  == "gone"         \* a row that was deleted
Empty == ""             \* the cell of a new row nobody filled

\* The preview of the table, another select of it alone, and any other SQL, the
\* other tables' previews among it.
Statements == {"preview", "select", "other"}

VARIABLES
    table,       \* the table on each connection: a value for every key, or Gone
    here,        \* activeConnectionId
    result,      \* the rows on screen, each with its key
    keyed,       \* resultColumns has the columns of the table's key
    lastRunSql,  \* what was run last selects from the table alone
    tableView,   \* tableViewObject is the table
    runs,        \* the runs in flight, oldest first
    editMode,
    draft,       \* the staged changes
    undo,        \* editUndoStack, oldest first
    saves,       \* the calls of commitEdits: being asked about or applied
    crossed,     \* history: a change was staged while a run was in flight
    dropped,     \* history: the undo stack lost its oldest draft
    changes

shownVars == <<result, keyed, lastRunSql, tableView>>
draftVars == <<draft, undo, crossed, dropped, changes>>
gridVars  == <<table, here, shownVars, runs, editMode, draftVars, saves>>

\* cells and deleted map a position to what is staged for it; for the history
\* both also name the key of the row that was on screen there.
NoEdits == [cells |-> << >>, newRows |-> << >>, deleted |-> << >>]

OfTable(sql) == sql \in {"preview", "select"}

\* canEditActiveResult: lastRunSql selects from the table of tableViewObject
\* alone, and the columns on screen, whatever they are of, have its key.
CanEdit == tableView /\ lastRunSql /\ keyed
Without(f, i) == [j \in DOMAIN f \ {i} |-> f[j]]
With(f, i, x) == [j \in DOMAIN f \cup {i} |-> IF j = i THEN x ELSE f[j]]

GridInit ==
    /\ table \in [Databases -> [Keys -> Values \cup {Gone}]] /\ here \in Databases
    /\ result = << >> /\ keyed = FALSE
    /\ lastRunSql = FALSE /\ tableView = FALSE /\ runs = << >>
    /\ editMode = FALSE /\ draft = NoEdits /\ undo = << >> /\ saves = << >>
    /\ crossed = FALSE /\ dropped = FALSE /\ changes = 0

-----------------------------------------------------------------------------
(* The store.                                                              *)

(* Mutated: the drafts that can be undone survive a reset. *)
ResetEditsKeepsUndo ==
    draft' = NoEdits /\ undo' = undo /\ crossed' = FALSE /\ dropped' = FALSE

ResetEdits ==
    draft' = NoEdits /\ undo' = << >> /\ crossed' = FALSE /\ dropped' = FALSE

\* updateEditDraft: nothing happens for a draft that stays the same.
UpdateEditDraft(d) ==
    /\ d # draft
    /\ changes < MaxChanges /\ changes' = changes + 1
    /\ draft' = d
    /\ undo' = IF Len(undo) < UndoDepth THEN Append(undo, draft)
               ELSE Append(Tail(undo), draft)
    /\ crossed' = (crossed \/ runs # << >>)
    /\ dropped' = (dropped \/ Len(undo) = UndoDepth)
    /\ UNCHANGED <<table, here, shownVars, runs, saves>>

-----------------------------------------------------------------------------
(* Staging.  The dialog that asks about a save keeps the window out of reach. *)

Reachable == \A k \in DOMAIN saves : saves[k].phase # "asking"
Visible(i) == i \in DOMAIN result \ DOMAIN draft.deleted

\* applyCellValueToDraft on a row of the result.
ApplyCellValue(d, i, v) ==
    IF v = result[i].value THEN [d EXCEPT !.cells = Without(@, i)]
    ELSE [d EXCEPT !.cells = With(@, i, [to |-> v, of |-> result[i].key])]

\* beginCellEdit and the value it ends with: edit mode is enough, and without
\* it the result must be one that can be written back.
EditCell(i, v) ==
    /\ Reachable /\ Visible(i) /\ (editMode \/ CanEdit)
    /\ UpdateEditDraft(ApplyCellValue(draft, i, v))
    /\ editMode' = TRUE

EditNewRow(j, v) ==
    /\ Reachable /\ editMode /\ j \in DOMAIN draft.newRows
    /\ UpdateEditDraft([draft EXCEPT !.newRows[j] = v])
    /\ UNCHANGED editMode

AddNewRow ==
    /\ Reachable /\ CanEdit
    /\ UpdateEditDraft([draft EXCEPT !.newRows = Append(@, Empty)])
    /\ editMode' = TRUE

DeleteRow(i) ==
    /\ Reachable /\ editMode /\ Visible(i)
    /\ UpdateEditDraft([draft EXCEPT !.deleted = With(@, i, result[i].key),
                                     !.cells = Without(@, i)])
    /\ UNCHANGED editMode

DropNewRow(j) ==
    /\ Reachable /\ editMode /\ j \in DOMAIN draft.newRows
    /\ UpdateEditDraft([draft EXCEPT !.newRows = RemoveAt(@, j)])
    /\ UNCHANGED editMode

UndoLastEdit ==
    /\ Reachable /\ editMode /\ undo # << >>
    /\ draft' = Last(undo) /\ undo' = Front(undo)
    /\ UNCHANGED <<table, here, shownVars, runs, editMode, saves, crossed,
                   dropped, changes>>

DiscardEdits ==
    /\ Reachable /\ editMode
    /\ ResetEdits
    /\ editMode' = FALSE
    /\ UNCHANGED <<table, here, shownVars, runs, saves, changes>>

\* edit.toggle: what is staged outlives the mode.
ToggleEditMode ==
    /\ Reachable /\ (editMode \/ CanEdit)
    /\ editMode' = ~editMode
    /\ UNCHANGED <<table, here, shownVars, runs, draftVars, saves>>

-----------------------------------------------------------------------------
(* Runs.                                                                   *)

\* shown: what is on screen is what this run has given so far.
Run(sql, c) == [preview |-> sql = "preview", on |-> c, shown |-> FALSE]

(* Mutated: a run keeps what was staged on the result before. *)
ExecuteKeepsEdits(sql, ofTable, c) ==
    /\ runs' = Append(runs, Run(sql, c))
    /\ lastRunSql' = OfTable(sql)
    /\ tableView' = (ofTable \/ (tableView /\ sql = "preview"))
    /\ UNCHANGED <<draft, undo, crossed, dropped>>

\* executeQuery up to its call: staged edits are dropped at once, edit mode and
\* the result on screen stay.
Execute(sql, ofTable, c) ==
    /\ runs' = Append(runs, Run(sql, c))
    /\ lastRunSql' = OfTable(sql)
    /\ tableView' = (ofTable \/ (tableView /\ sql = "preview"))
    /\ ResetEdits

\* What is on screen is now of the run at r, or of none.
Showing(rs, r) == [q \in DOMAIN rs |-> [rs[q] EXCEPT !.shown = (q = r)]]

\* openTableData: the table's tab is run again if its text is still the preview
\* or something else now, and not at all on a connection that is not open.
OpenTableData(sql) ==
    LET ofTable == sql = "preview" IN
    /\ Reachable /\ runs = << >> /\ Len(saves) < MaxCalls
    /\ \/ Execute(sql, ofTable, here)
       \/ /\ tableView' = ofTable
          /\ UNCHANGED <<lastRunSql, runs, draft, undo, crossed, dropped>>
    /\ UNCHANGED <<table, here, result, keyed, editMode, saves, changes>>

\* The statement the editor's cursor is in, in whichever tab is active.  Its
\* parameters are asked for first, and awaited: it is run by the closure of then,
\* on the connection c that was active then.
RunStatement(sql, c) ==
    /\ Reachable /\ Len(runs) + Len(saves) < MaxCalls
    /\ Execute(sql, FALSE, c)
    /\ UNCHANGED <<table, here, result, keyed, editMode, saves, changes>>

\* Nothing of the grid is reset.
ShowConnection(c) ==
    /\ Reachable /\ c # here
    /\ here' = c
    /\ UNCHANGED <<table, shownVars, runs, editMode, draftVars, saves>>

\* restoreHistoryResult: the rows kept of an earlier run.
RestoreHistoryResult(sql, a) ==
    /\ Reachable /\ (sql = "preview" => a.keyed)
    /\ result' = a.rows /\ keyed' = a.keyed
    /\ lastRunSql' = OfTable(sql) /\ tableView' = FALSE
    /\ runs' = Showing(runs, 0)
    /\ ResetEdits
    /\ UNCHANGED <<table, here, editMode, saves, changes>>

\* What the database may give to a run: the rows of the table it has not given yet,
\* in any order, or whatever the statement selects.
Answers(run) ==
    LET given == IF run.shown THEN result ELSE << >>
        left  == {k \in Keys : table[run.on][k] # Gone} \ {row.key : row \in Range(given)}
        At(k) == [key |-> k, value |-> table[run.on][k]]
    IN  IF run.preview
        THEN {[rows  |-> given \o [i \in DOMAIN order |-> At(order[i])],
               keyed |-> TRUE] : order \in SetToSeqs(left)}
        ELSE {a \in OtherAnswers : run.shown => IsPrefix(given, a.rows) /\ a.keyed = keyed}

\* The columns, with all rows or the first n of them, take the place of the result
\* on screen; with all of them the run may end.
RowsShown(r, n) ==
    /\ r \in DOMAIN runs
    /\ \E a \in Answers(runs[r]) :
        /\ (runs[r].shown => Len(result) <= n) /\ n <= Len(a.rows)
        /\ result' = SubSeq(a.rows, 1, n) /\ keyed' = a.keyed
        /\ \/ runs' = Showing(runs, r)
           \/ n = Len(a.rows) /\ runs' = RemoveAt(Showing(runs, r), r)
    /\ UNCHANGED <<table, here, lastRunSql, tableView, editMode,
                   draftVars, saves>>

\* What is on screen, of this run or of one before, stays.
RunFails(r) ==
    /\ r \in DOMAIN runs
    /\ runs' = RemoveAt(runs, r)
    /\ UNCHANGED <<table, here, shownVars, editMode, draftVars, saves>>

-----------------------------------------------------------------------------
(* Saving.                                                                 *)

\* A new row in which nothing was filled in is not inserted; one that is goes to
\* rows the table has beside Keys.
ToSave(d) == d.cells # << >> \/ d.deleted # << >> \/ \E x \in Range(d.newRows) : x # Empty

\* commitEdits up to the dialog: the key of a row is read from the result.
KeyAt(i) == IF i \in DOMAIN result THEN result[i].key ELSE Gone

\* The command needs no edit mode, and another save may be under way.
CommitEdits ==
    /\ Reachable /\ CanEdit /\ ToSave(draft)
    /\ Len(saves) < MaxSaves /\ Len(runs) + Len(saves) < MaxCalls
    /\ saves' = Append(saves,
                 [phase   |-> "asking", on |-> here, crossed |-> crossed,
                  updates |-> [i \in DOMAIN draft.cells |->
                                  [key |-> KeyAt(i), to |-> draft.cells[i].to,
                                   of |-> draft.cells[i].of]],
                  deletes |-> {[key |-> KeyAt(i), of |-> draft.deleted[i]] :
                                  i \in DOMAIN draft.deleted}])
    /\ UNCHANGED <<table, here, shownVars, runs, editMode, draftVars>>

AnswerDialog(k, confirmed) ==
    /\ k \in DOMAIN saves /\ saves[k].phase = "asking"
    /\ saves' = IF confirmed THEN [saves EXCEPT ![k].phase = "applying"]
                ELSE RemoveAt(saves, k)
    /\ UNCHANGED <<table, here, shownVars, runs, editMode, draftVars>>

\* What a save makes of the row of key k, which holds v.
NewValue(save, k, v) ==
    LET ups == {i \in DOMAIN save.updates : save.updates[i].key = k} IN
    IF v = Gone \/ \E d \in save.deletes : d.key = k THEN Gone
    ELSE IF ups # {} THEN save.updates[CHOOSE i \in ups : TRUE].to ELSE v

\* applyEdits resolves: the edits are dropped, and runQuery runs the statement
\* the editor's cursor is in, if the active connection is open; where that run is
\* put off by its parameters it comes later, as a RunStatement.
Applied(k, sql) ==
    /\ k \in DOMAIN saves /\ saves[k].phase = "applying"
    /\ table' = [table EXCEPT ![saves[k].on] =
                    [key \in Keys |-> NewValue(saves[k], key, @[key])]]
    /\ saves' = RemoveAt(saves, k)
    /\ editMode' = FALSE
    /\ \/ Execute(sql, FALSE, here)
       \/ ResetEdits /\ UNCHANGED <<lastRunSql, tableView, runs>>
    /\ UNCHANGED <<here, result, keyed, changes>>

ApplyFails(k) ==
    /\ k \in DOMAIN saves /\ saves[k].phase = "applying"
    /\ saves' = RemoveAt(saves, k)
    /\ UNCHANGED <<table, here, shownVars, runs, editMode, draftVars>>

MaxRows == Cardinality(Keys)

GridNext ==
    \/ ToggleEditMode \/ AddNewRow \/ UndoLastEdit \/ DiscardEdits
    \/ CommitEdits
    \/ \E sql \in Statements : OpenTableData(sql)
    \/ \E c \in Databases : ShowConnection(c) \/ \E sql \in Statements : RunStatement(sql, c)
    \/ \E sql \in Statements, a \in OtherAnswers : RestoreHistoryResult(sql, a)
    \/ \E r \in 1..MaxCalls : RunFails(r) \/ \E n \in 0..MaxRows : RowsShown(r, n)
    \/ \E k \in 1..MaxSaves : ApplyFails(k) \/ (\E sql \in Statements : Applied(k, sql)) \/ \E b \in BOOLEAN : AnswerDialog(k, b)
    \/ \E i \in 1..MaxRows : DeleteRow(i)
    \/ \E i \in 1..MaxRows, v \in Values : EditCell(i, v)
    \/ \E j \in 1..MaxChanges : DropNewRow(j) \/ \E v \in Values : EditNewRow(j, v)

GridSpec == GridInit /\ [][GridNext]_gridVars

-----------------------------------------------------------------------------
IsDraft(d) ==
    /\ DOMAIN d.cells \subseteq Nat /\ DOMAIN d.deleted \subseteq Nat
    /\ \A i \in DOMAIN d.cells : d.cells[i] \in [to : Values, of : Keys]
    /\ \A i \in DOMAIN d.deleted : d.deleted[i] \in Keys
    /\ Range(d.newRows) \subseteq Values \cup {Empty}

\* Every variable keeps its type, and the undo stack its depth.
GridTypeOK ==
    /\ table \in [Databases -> [Keys -> Values \cup {Gone}]] /\ here \in Databases
    /\ \A i \in DOMAIN result : result[i] \in Row
    /\ {keyed, lastRunSql, tableView, editMode, crossed, dropped} \subseteq BOOLEAN
    /\ \A r \in DOMAIN runs : runs[r] \in [preview : BOOLEAN, on : Databases, shown : BOOLEAN]
    /\ IsDraft(draft) /\ \A i \in DOMAIN undo : IsDraft(undo[i])
    /\ Len(undo) <= UndoDepth
    /\ \A k \in DOMAIN saves : saves[k].phase \in {"asking", "applying"}

\* Undo is a way back: every draft on the stack differs from the next one and
\* from what is staged, and unless more changes were made than the stack holds
\* it leads back to nothing staged.
UndoLeadsBack ==
    /\ \A i \in DOMAIN undo :
        undo[i] # IF i < Len(undo) THEN undo[i + 1] ELSE draft
    /\ ~dropped => IF undo = << >> THEN draft = NoEdits ELSE undo[1] = NoEdits

\* A row that is to be deleted is not to be updated as well.
DeletedRowsHaveNoEdits ==
    \A i \in DOMAIN draft.deleted : i \notin DOMAIN draft.cells

\* What is staged while no run is in flight stays with the rows it was made
\* on, whatever is run, restored or switched to: each change is still of the row
\* at its position and changes its value.
EditsStayWithTheirRows ==
    ~crossed =>
        /\ \A i \in DOMAIN draft.cells :
            /\ KeyAt(i) = draft.cells[i].of
            /\ result[i].value # draft.cells[i].to
        /\ \A i \in DOMAIN draft.deleted : KeyAt(i) = draft.deleted[i]

\* So what is being saved, also when another save or a run was under way as it was
\* asked for, names the keys of the rows the changes were made on.
SavesNameTheirRows ==
    \A k \in DOMAIN saves :
        ~saves[k].crossed =>
            /\ \A i \in DOMAIN saves[k].updates : saves[k].updates[i].key = saves[k].updates[i].of
            /\ \A d \in saves[k].deletes : d.key = d.of

\* What is staged and what is saved is well formed and names the rows it was made on.
EditsAreSound ==
    /\ GridTypeOK
    /\ DeletedRowsHaveNoEdits /\ EditsStayWithTheirRows /\ SavesNameTheirRows
=============================================================================
