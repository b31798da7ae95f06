----------------------------- MODULE ResultView -----------------------------
(***************************************************************************)
(* What the result grid shows of a result and its staged changes, and what *)
(* the selection, the keys and a paste make of it (result-view-model.ts,   *)
(* result-grid.ts, useResultGridFiltering.ts, useResultGridSelection.ts).  *)
(*                                                                         *)
(* A large result without filters and sort rules is never laid out row by  *)
(* row: its windowed view computes the row at a position on demand.  Cells *)
(* are numbers in the order the grid sorts them, NULL first.  The grid is  *)
(* in edit mode; how changes are undone and saved is GridEdits' subject.   *)
(***************************************************************************)
EXTENDS Integers, FiniteSets, SequencesExt, Positions

CONSTANTS
    Original,    \* the rows of the result, each a sequence of cells
    Typed,       \* what is typed into a cell, or searched for
    Blocks,      \* what is pasted: rows of cells
    Threshold,   \* GRID_WINDOWED_ROW_THRESHOLD
    CellThreshold, \* GRID_WINDOWED_CELL_THRESHOLD
    Controls,    \* the filters and sort rules a run of steps starts from
    MaxSteps     \* bound: changes staged, and changes of filters and sort rules

Null  == 0
Blank == 1       \* the empty string

Count == Len(Original)
Cols  == 1..Len(Original[1])
AnyCol == 0      \* the column of a filter rule that looks at every cell
Ops   == {"equals", "gt", "is_null"}

\* The rows of a result are equally long, and no column is sorted by twice.
ASSUME ViewConstants ==
    /\ Original \in Seq(Seq(Nat)) /\ Len(Original) > 0
    /\ \A i \in DOMAIN Original : Len(Original[i]) = Len(Original[1])
    /\ Threshold \in Nat /\ CellThreshold \in Nat /\ Typed \subseteq Nat /\ Blocks \subseteq Seq(Seq(Nat))
    /\ MaxSteps \in Nat
    /\ \A c \in Controls :
          /\ c.sort \in Seq([col : Cols, dir : {"asc", "desc"}])
          /\ \A k, l \in DOMAIN c.sort : c.sort[k].col = c.sort[l].col => k = l

NoCell == [key |-> <<"none", 0>>, col |-> 0]

VARIABLES
    staged,      \* the staged changes: cell edits, new rows, deleted rows
    sortRules, quickFilter, filterRules, filterJoin,
    selectedCell, selectedRowKey,
    steps

viewVars == <<staged, sortRules, quickFilter, filterRules, filterJoin,
              selectedCell, selectedRowKey, steps>>

controlVars   == <<sortRules, quickFilter, filterRules, filterJoin>>
selectionVars == <<selectedCell, selectedRowKey>>

ViewInit ==
    /\ staged = [edits |-> << >>, newRows |-> << >>, deleted |-> {}]
    /\ \E c \in Controls :
          /\ sortRules = c.sort /\ quickFilter = c.quick
          /\ filterRules = c.rules /\ filterJoin = c.join
    /\ selectedCell = NoCell /\ selectedRowKey = NoCell.key
    /\ steps = 0

-----------------------------------------------------------------------------
(* The rows, laid out.  Positions count from 0, as in the code.            *)

\* displayOriginalCell, buildOriginalDisplayRow, buildNewDisplayRow.
OriginalRow(d, i) ==
    [key |-> <<"o", i>>,
     cells |-> [c \in Cols |-> IF <<i, c>> \in DOMAIN d.edits THEN d.edits[<<i, c>>]
                               ELSE Original[i + 1][c]],
     state |-> IF \E c \in Cols : <<i, c>> \in DOMAIN d.edits THEN "edited" ELSE "clean"]
NewRow(d, j) == [key |-> <<"n", j>>, cells |-> d.newRows[j + 1], state |-> "new"]

\* buildResultGridRows.
BuildRows(d) ==
    LET kept == Ascending(0..Count - 1 \ d.deleted)
    IN  [k \in DOMAIN kept |-> OriginalRow(d, kept[k])]
        \o [j \in DOMAIN d.newRows |-> NewRow(d, j - 1)]

\* cellMatches, resultFilterMatches.
CellMatches(cell, rule) ==
    CASE rule.op = "equals"  -> cell = rule.value
      [] rule.op = "gt"      -> cell > rule.value
      [] rule.op = "is_null" -> cell = Null
RowMatches(row, rule) ==
    IF rule.col = AnyCol THEN \E c \in Cols : CellMatches(row.cells[c], rule)
    ELSE CellMatches(row.cells[rule.col], rule)

\* activeResultFilters: enabled, and with a value where one is needed.
IsActive(r) == r.enabled /\ (r.op = "is_null" \/ r.value # Blank)
ActiveFilters == Picked(filterRules, {k \in DOMAIN filterRules : IsActive(filterRules[k])})
FiltersActive == quickFilter # Null \/ ActiveFilters # << >>

\* applyResultFilters.
Passes(row) ==
    /\ quickFilter # Null => \E c \in Cols : row.cells[c] = quickFilter
    /\ \/ ActiveFilters = << >>
       \/ filterJoin = "and" /\ \A r \in Range(ActiveFilters) : RowMatches(row, r)
       \/ filterJoin = "or"  /\ \E r \in Range(ActiveFilters) : RowMatches(row, r)

\* compareGridRows: the first rule that tells two rows apart decides.
Before(x, y) ==
    \E k \in DOMAIN sortRules :
        LET col == sortRules[k].col
        IN  /\ IF sortRules[k].dir = "asc" THEN x.cells[col] < y.cells[col]
                                           ELSE x.cells[col] > y.cells[col]
            /\ \A l \in 1..k - 1 : x.cells[sortRules[l].col] = y.cells[sortRules[l].col]

\* applyResultSort: rows no rule tells apart keep their order.
Inserted(done, row) ==
    InsertAt(done, Cardinality({k \in DOMAIN done : ~Before(row, done[k])}) + 1, row)
Sorted(rows) ==
    LET done[k \in 0..Len(rows)] ==
          IF k = 0 THEN << >> ELSE Inserted(done[k - 1], rows[k])
    IN  IF sortRules = << >> THEN rows ELSE done[Len(rows)]

DisplayRows(d) ==
    LET rows == BuildRows(d)
    IN  Sorted(IF FiltersActive THEN Picked(rows, {k \in DOMAIN rows : Passes(rows[k])})
               ELSE rows)

\* clampIndex.
Clamp(x, low, high) == IF x < low THEN low ELSE IF x > high THEN high ELSE x

-----------------------------------------------------------------------------
(* The windowed view.                                                      *)

CellCount == (Count + Len(staged.newRows)) * Len(Original[1])

Windowed ==
    /\ Count > Threshold \/ CellCount > CellThreshold
    /\ ~FiltersActive /\ sortRules = << >>

(* Mutated: rows deleted at the position itself are not counted. *)
OriginalIndexForDisplayIndexShort(d, at) ==
    at + Cardinality({x \in d.deleted : x < at})

\* originalIndexForDisplayIndex: the position in the result of a position on
\* screen, searched upwards; Count if there is none.
OriginalIndexForDisplayIndex(d, at) ==
    LET Search[i \in Nat] ==
          IF i >= Count THEN Count
          ELSE LET next == at + Cardinality({x \in d.deleted : x <= i})
               IN  IF next = i /\ i \notin d.deleted THEN i
                   ELSE Search[next + (IF next \in d.deleted THEN 1 ELSE 0)]
    IN  IF d.deleted = {} THEN at ELSE Search[at]

OriginalCount(d) == Count - Cardinality(d.deleted)
WindowedCount(d) == OriginalCount(d) + Len(d.newRows)

\* rowAt, as a sequence of at most one row.
WindowedRowAt(d, at) ==
    IF at < 0 \/ at >= WindowedCount(d) THEN << >>
    ELSE IF at < OriginalCount(d)
         THEN LET i == OriginalIndexForDisplayIndex(d, at)
              IN  IF i < Count THEN <<OriginalRow(d, i)>> ELSE << >>
         ELSE <<NewRow(d, at - OriginalCount(d))>>

\* rowsInRange: rows of the result, up to one that is not found, and new rows.
WindowedRowsInRange(d, first, last) ==
    LET low   == Clamp(first, 0, WindowedCount(d))
        high  == Clamp(last, low, WindowedCount(d))
        Index(at) == OriginalIndexForDisplayIndex(d, at)
        found == {at \in low..high - 1 :
                     at < OriginalCount(d) /\ \A x \in low..at : Index(x) < Count}
        new   == IF low < OriginalCount(d) THEN 0 ELSE low - OriginalCount(d)
    IN  [k \in 1..Cardinality(found) |-> OriginalRow(d, Index(low + k - 1))]
        \o [k \in 1..high - OriginalCount(d) - new |-> NewRow(d, new + k - 1)]

\* displayIndexForRowKey; a new row's key is not looked up in the new rows.
WindowedIndexForKey(d, key) ==
    CASE key[1] = "n" -> OriginalCount(d) + key[2]
      [] key[1] = "o" -> IF key[2] \in d.deleted THEN -1
                         ELSE key[2] - Cardinality({x \in d.deleted : x < key[2]})
      [] OTHER -> -1

-----------------------------------------------------------------------------
(* The view in use.                                                        *)

RowOf(shown, at) ==
    IF Windowed THEN WindowedRowAt(staged, at)
    ELSE IF at \in 0..Len(shown) - 1 THEN <<shown[at + 1]>> ELSE << >>
RowAt(at) == RowOf(DisplayRows(staged), at)

TotalRows == IF Windowed THEN WindowedCount(staged) ELSE Len(DisplayRows(staged))

LaidOutIndexForKey(d, key) ==
    LET shown == DisplayRows(d)
        found == {k \in DOMAIN shown : shown[k].key = key}
    IN  IF found = {} THEN -1 ELSE (CHOOSE k \in found : TRUE) - 1

DisplayIndexForKey(key) ==
    IF Windowed THEN WindowedIndexForKey(staged, key) ELSE LaidOutIndexForKey(staged, key)

-----------------------------------------------------------------------------
(* Staging.                                                                *)

\* applyCellValueToDraft.
ApplyCellValueToDraft(d, key, col, value) ==
    IF col \notin Cols THEN d
    ELSE IF key[1] = "o"
    THEN LET at == <<key[2], col>>
         IN  IF value = Original[key[2] + 1][col]
             THEN [d EXCEPT !.edits = [x \in DOMAIN @ \ {at} |-> @[x]]]
             ELSE [d EXCEPT !.edits = [x \in DOMAIN @ \cup {at} |->
                                         IF x = at THEN value ELSE @[x]]]
    ELSE IF key[2] < Len(d.newRows) THEN [d EXCEPT !.newRows[key[2] + 1][col] = value]
    ELSE d

\* One row of a block, pasted from a column on.
ApplyCells(d, key, col, cells) ==
    LET done[k \in 0..Len(cells)] ==
          IF k = 0 THEN d
          ELSE ApplyCellValueToDraft(done[k - 1], key, col + k - 1, cells[k])
    IN  done[Len(cells)]

PastedRow(col, cells) ==
    [c \in Cols |-> IF c - col + 1 \in DOMAIN cells THEN cells[c - col + 1] ELSE Blank]

\* One row of a block, pasted on a row shown or below the last.
PasteRow(d, target, col, cells) ==
    IF target # << >> THEN ApplyCells(d, target[1].key, col, cells)
    ELSE [d EXCEPT !.newRows = Append(@, PastedRow(col, cells))]

(* Mutated: the rows below are taken in the order of the result. *)
PasteTableInOrder(key, col, block) ==
    LET Target(k) == IF key[1] = "o" /\ key[2] + k - 1 < Count
                     THEN <<OriginalRow(staged, key[2] + k - 1)>> ELSE << >>
        done[k \in 0..Len(block)] ==
          IF k = 0 THEN staged ELSE PasteRow(done[k - 1], Target(k), col, block[k])
    IN  done[Len(block)]

\* pasteTableAt: the rows shown from the row down are filled, the rest of the
\* block becomes new rows.
PasteTable(key, col, block) ==
    LET shown == DisplayRows(staged)
        start == DisplayIndexForKey(key)
        done[k \in 0..Len(block)] ==
          IF k = 0 THEN staged
          ELSE PasteRow(done[k - 1], RowOf(shown, start + k - 1), col, block[k])
    IN  done[Len(block)]

Stage(d) ==
    /\ steps' = steps + 1
    /\ d # staged /\ staged' = d
    /\ UNCHANGED controlVars

PressAddRow ==
    /\ Stage([staged EXCEPT !.newRows = Append(@, [c \in Cols |-> Blank])])
    /\ UNCHANGED selectionVars

\* deleteRow, from the button of a row shown: the selected cell stays selected.
PressDeleteRow(key) ==
    /\ Stage(IF key[1] = "o"
             THEN [staged EXCEPT !.deleted = @ \cup {key[2]},
                                !.edits = [x \in {y \in DOMAIN @ : y[1] # key[2]} |-> @[x]]]
             ELSE [staged EXCEPT !.newRows = Picked(@, DOMAIN @ \ {key[2] + 1})])
    /\ selectedRowKey' = IF selectedRowKey = key THEN NoCell.key ELSE selectedRowKey
    /\ UNCHANGED selectedCell

\* A cell is double-clicked, selected and typed into.
TypeIntoCell(key, col, value) ==
    /\ Stage(ApplyCellValueToDraft(staged, key, col, value))
    /\ selectedCell' = [key |-> key, col |-> col] /\ selectedRowKey' = key

-----------------------------------------------------------------------------
(* Selection and keys.                                                     *)

SelectGridCell(key, col) ==
    /\ selectedCell' = [key |-> key, col |-> col] /\ selectedRowKey' = key
    /\ UNCHANGED <<staged, controlVars, steps>>

SelectGridRow(key) ==
    /\ selectedCell' = NoCell /\ selectedRowKey' = key
    /\ UNCHANGED <<staged, controlVars, steps>>

CurrentKey == IF selectedCell # NoCell THEN selectedCell.key ELSE selectedRowKey

\* selectedDisplayRow, and what a key works on: without a row on screen that is
\* selected, the first one.
SelectedDisplayRow == RowAt(DisplayIndexForKey(CurrentKey))
KeyRow == IF SelectedDisplayRow # << >> THEN SelectedDisplayRow ELSE RowAt(0)
KeyCol == IF selectedCell # NoCell THEN selectedCell.col ELSE 1

\* moveSelectedCell, for an arrow key.
MoveSelectedCell(down, right) ==
    /\ KeyRow # << >>
    /\ LET at   == DisplayIndexForKey(CurrentKey)
           from == IF at < 0 THEN 0 ELSE at
           to   == RowAt(Clamp(from + down, 0, TotalRows - 1))[1].key
       IN  /\ selectedCell' = [key |-> to, col |-> Clamp(KeyCol + right, 1, Len(Original[1]))]
           /\ selectedRowKey' = to
    /\ UNCHANGED <<staged, controlVars, steps>>

\* The Delete key empties a cell, with Ctrl it becomes NULL.
DeleteKey(value) ==
    /\ KeyRow # << >>
    /\ Stage(ApplyCellValueToDraft(staged, KeyRow[1].key, KeyCol, value))
    /\ UNCHANGED selectionVars

\* onGridPaste: a cell of a row on screen must be selected.
PasteKey(block) ==
    /\ selectedCell # NoCell /\ SelectedDisplayRow # << >>
    /\ Stage(PasteTable(selectedCell.key, selectedCell.col, block))
    /\ UNCHANGED selectionVars

-----------------------------------------------------------------------------
(* Filters and sort rules; most changes of them drop the selection.        *)

Control == steps' = steps + 1 /\ UNCHANGED staged
DropSelection == selectedCell' = NoCell /\ selectedRowKey' = NoCell.key

UpdateQuickFilter(value) ==
    /\ Control /\ quickFilter' = value /\ DropSelection
    /\ UNCHANGED <<sortRules, filterRules, filterJoin>>

\* addFilterRule: a rule without a value, which is not active yet.
AddFilterRule(col) ==
    /\ Control /\ DropSelection
    /\ filterRules' = Append(filterRules,
                        [col |-> col, op |-> "equals", value |-> Blank, enabled |-> TRUE])
    /\ UNCHANGED <<sortRules, quickFilter, filterJoin>>

UpdateFilterRule(k, op, value, enabled) ==
    /\ Control /\ DropSelection
    /\ filterRules' = [filterRules EXCEPT ![k] =
                        [@ EXCEPT !.op = op, !.value = value, !.enabled = enabled]]
    /\ UNCHANGED <<sortRules, quickFilter, filterJoin>>

RemoveFilterRule(k) ==
    /\ Control /\ DropSelection
    /\ filterRules' = Picked(filterRules, DOMAIN filterRules \ {k})
    /\ UNCHANGED <<sortRules, quickFilter, filterJoin>>

\* setFilterJoin leaves the selection alone.
SetFilterJoin ==
    /\ Control /\ filterJoin' = IF filterJoin = "and" THEN "or" ELSE "and"
    /\ UNCHANGED <<sortRules, quickFilter, filterRules, selectionVars>>

ClearResultFilters ==
    /\ Control /\ DropSelection
    /\ quickFilter' = Null /\ filterRules' = << >> /\ filterJoin' = "and"
    /\ UNCHANGED sortRules

RulesFor(cols) == Picked(sortRules, {k \in DOMAIN sortRules : sortRules[k].col \in cols})
Rule(col, dir) == [col |-> col, dir |-> dir]

\* cycleResultSortRules: ascending, descending, not at all.
CycleSortRules(col, additive) ==
    LET now    == RulesFor({col})
        others == RulesFor(Cols \ {col})
    IN  CASE ~additive /\ now = << >> -> <<Rule(col, "asc")>>
          [] ~additive /\ now # << >> ->
                IF now[1].dir = "asc" THEN <<Rule(col, "desc")>> ELSE << >>
          [] additive /\ now = << >> -> Append(sortRules, Rule(col, "asc"))
          [] additive /\ now # << >> ->
                IF now[1].dir = "desc" THEN others
                ELSE [k \in DOMAIN sortRules |->
                        IF sortRules[k].col = col THEN Rule(col, "desc") ELSE sortRules[k]]

\* toggleSort keeps the selection, which goes with its row.
ToggleSort(col, additive) ==
    /\ Control /\ sortRules' = CycleSortRules(col, additive)
    /\ UNCHANGED <<quickFilter, filterRules, filterJoin, selectionVars>>

-----------------------------------------------------------------------------
ShownKeys == LET shown == DisplayRows(staged) IN {shown[k].key : k \in DOMAIN shown}

Staging ==
    \/ PressAddRow
    \/ \E key \in ShownKeys : PressDeleteRow(key)
    \/ \E key \in ShownKeys, col \in Cols, value \in Typed : TypeIntoCell(key, col, value)
    \/ \E value \in {Blank, Null} : DeleteKey(value)
    \/ \E block \in Blocks : PasteKey(block)

Selecting ==
    \/ \E key \in ShownKeys : SelectGridRow(key)
    \/ \E key \in ShownKeys, col \in Cols : SelectGridCell(key, col)
    \/ \E down \in {-1, 1} : MoveSelectedCell(down, 0)
    \/ \E right \in {-1, 1} : MoveSelectedCell(0, right)

Controlling ==
    \/ \E value \in Typed \cup {Null} : UpdateQuickFilter(value)
    \/ \E col \in Cols \cup {AnyCol} : Len(filterRules) < 2 /\ AddFilterRule(col)
    \/ \E k \in DOMAIN filterRules, op \in Ops, value \in Typed, enabled \in BOOLEAN :
          UpdateFilterRule(k, op, value, enabled)
    \/ \E k \in DOMAIN filterRules : RemoveFilterRule(k)
    \/ SetFilterJoin \/ ClearResultFilters
    \/ \E col \in Cols, additive \in BOOLEAN : ToggleSort(col, additive)

ViewNext == Selecting \/ (steps < MaxSteps /\ (Staging \/ Controlling))

ViewSpec == ViewInit /\ [][ViewNext]_viewVars

-----------------------------------------------------------------------------
\* Every variable keeps its type, and no column has two sort rules: the header of
\* a column shows one direction and one priority.
ViewTypeOK ==
    /\ DOMAIN staged.edits \subseteq (0..Count - 1) \X Cols
    /\ staged.deleted \subseteq 0..Count - 1
    /\ \A r \in Range(staged.newRows) : DOMAIN r = Cols
    /\ \A k, l \in DOMAIN sortRules : sortRules[k].col = sortRules[l].col => k = l
    /\ selectedCell # NoCell => selectedRowKey \in {selectedCell.key, NoCell.key}

\* The windowed view shows what laying the rows out would show: the same row at
\* every position, the same rows in every range, every row found by its key.
WindowedShowsTheSame ==
    Windowed =>
        LET rows == BuildRows(staged)
            n    == Len(rows)
            Part(low, high) == SubSeq(rows, Clamp(low, 0, n) + 1, Clamp(high, 0, n))
        IN  /\ WindowedCount(staged) = n
            /\ \A at \in 0..n - 1 : WindowedRowAt(staged, at) = <<rows[at + 1]>>
            /\ \A low \in 0..n, high \in 0..n + 1 :
                  WindowedRowsInRange(staged, low, high) = Part(low, high)
            /\ \A at \in 0..n - 1 : WindowedIndexForKey(staged, rows[at + 1].key) = at
            /\ \A i \in staged.deleted : WindowedIndexForKey(staged, <<"o", i>>) = -1

\* A cell shown as edited differs from what was read, so "pending changes" means
\* that there is something to save.
EditedMeansChanged ==
    \A x \in DOMAIN staged.edits :
        x[1] \notin staged.deleted /\ staged.edits[x] # Original[x[1] + 1][x[2]]

\* What the grid shows makes sense, by either of the two ways it is computed.
ViewIsSound == ViewTypeOK /\ WindowedShowsTheSame /\ EditedMeansChanged

\* A block pasted on a cell fills the rows on screen from there down, however
\* they are sorted and filtered, makes new rows of the rest, and changes nothing
\* else.
PasteFillsWhatIsShown ==
    selectedCell # NoCell /\ SelectedDisplayRow # << >> =>
        \A block \in Blocks :
            LET shown  == DisplayRows(staged)
                start  == LaidOutIndexForKey(staged, selectedCell.key)
                col    == selectedCell.col
                before == BuildRows(staged)
                after  == BuildRows(PasteTable(selectedCell.key, col, block))
                Hit(row) == {k \in DOMAIN block : start + k \in DOMAIN shown
                                                 /\ shown[start + k].key = row.key}
                Filled(row, k) == [c \in Cols |->
                    IF c - col + 1 \in DOMAIN block[k] THEN block[k][c - col + 1]
                    ELSE row.cells[c]]
                extra  == Len(block) - (Len(shown) - start)
            IN  /\ Len(after) = Len(before) + (IF extra > 0 THEN extra ELSE 0)
                /\ \A i \in DOMAIN before :
                      after[i].cells = IF Hit(before[i]) = {} THEN before[i].cells
                                       ELSE Filled(before[i], CHOOSE k \in Hit(before[i]) : TRUE)
                /\ \A i \in Len(before) + 1..Len(after) :
                      after[i].cells = PastedRow(col, block[Len(block) - (Len(after) - i)])
=============================================================================
