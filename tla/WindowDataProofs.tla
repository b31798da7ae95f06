------------------------- MODULE WindowDataProofs ---------------------------
(***************************************************************************)
(* Proofs about the parts of the window that hold the user's work and show *)
(* its data: the edits staged over a result, the editor's tabs, the rows shown *)
(* of a result and the graph of commits, whatever is done to them and in    *)
(* whichever order, for any number of rows, tabs, connections and commits.  *)
(***************************************************************************)
EXTENDS GridEdits, EditorWorkspaces, GitGraph, ResultView, PositionsProofs,
        SequenceTheorems, TLAPS

-----------------------------------------------------------------------------
(* The staged edits.                                                       *)

\* What is staged for some positions of the grid.
GridPlaces == Nat
\* What is staged: something at each of some positions.
Staged(T) == UNION {[D -> T] : D \in SUBSET GridPlaces}

\* What may be staged: changed cells, new rows and rows to delete.
Drafts ==
    [cells : Staged([to : Values, of : Keys]), newRows : Seq(Values \cup {Empty}),
     deleted : Staged(Keys)]
\* What a save updates: the row of a key, the value it takes, the row it was made on.
Updates == [key : Keys \cup {Gone}, to : Values, of : Keys]
\* A save: what it was asked to update and to delete, and where.
Saves ==
    [phase : {"asking", "applying"}, on : Databases, crossed : BOOLEAN,
     updates : Staged(Updates), deletes : SUBSET [key : Keys \cup {Gone}, of : Keys]]
\* A save that names the rows its changes were made on.
Named(save) ==
    ~save.crossed =>
        /\ \A i \in DOMAIN save.updates : save.updates[i].key = save.updates[i].of
        /\ \A d \in save.deletes : d.key = d.of
\* The saves there may be.
SoundSaves == {save \in Saves : Named(save)}

\* A run in flight.
RunsThere == [preview : BOOLEAN, on : Databases, shown : BOOLEAN]

\* Every variable keeps its type.
GridTyped ==
    /\ table \in [Databases -> [Keys -> Values \cup {Gone}]] /\ here \in Databases
    /\ result \in Seq(Row)
    /\ draft \in Drafts /\ undo \in Seq(Drafts) /\ Len(undo) <= UndoDepth
    /\ runs \in Seq(RunsThere) /\ saves \in Seq(SoundSaves)

\* The flags are flags.
GridFlags ==
    /\ keyed \in BOOLEAN /\ lastRunSql \in BOOLEAN /\ tableView \in BOOLEAN /\ editMode \in BOOLEAN
    /\ crossed \in BOOLEAN /\ dropped \in BOOLEAN

\* No row of a draft is both changed and deleted, and every one is still where it
\* was when the change was staged.
Apart(d) == \A i \in DOMAIN d.deleted : i \notin DOMAIN d.cells
\* Each staged change is of the row that is at its position.
Stays(d) ==
    /\ \A i \in DOMAIN d.cells : KeyAt(i) = d.cells[i].of /\ result[i].value # d.cells[i].to
    /\ \A i \in DOMAIN d.deleted : KeyAt(i) = d.deleted[i]

\* Of what is staged and what undo would bring back: no row is changed and deleted,
\* and unless a run's answer crossed it, each change is still at its row; nothing is
\* staged while a run is in flight.
DraftsInv ==
    /\ Apart(draft) /\ \A i \in 1 .. Len(undo) : Apart(undo[i])
    /\ ~crossed => Stays(draft) /\ \A i \in 1 .. Len(undo) : Stays(undo[i])
    /\ ~crossed /\ runs # << >> => draft = NoEdits /\ undo = << >>

\* The inductive invariant of the grid.
GridIInv == GridTyped /\ GridFlags /\ DraftsInv /\ UndoLeadsBack

\* Nothing staged, one position more, one less, and what is staged at them.
LEMMA StagedNone == ASSUME NEW T PROVE << >> \in Staged(T) /\ DOMAIN << >> = {}
<1>1. << >> \in [{} -> T] /\ {} \in SUBSET GridPlaces
  OBVIOUS
<1> QED
  BY <1>1 DEF Staged

\* What is staged is a function of some positions.
LEMMA StagedMeans ==
    ASSUME NEW T, NEW f
    PROVE  f \in Staged(T) <=> DOMAIN f \subseteq GridPlaces /\ f \in [DOMAIN f -> T]
  BY DEF Staged

\* With one position more, it has what was put there and keeps the rest.
LEMMA WithOne ==
    ASSUME NEW T, NEW f \in Staged(T), NEW i \in GridPlaces, NEW x \in T
    PROVE  /\ With(f, i, x) \in Staged(T)
           /\ With(f, i, x)[i] = x
           /\ \A j \in DOMAIN f \ {i} : With(f, i, x)[j] = f[j]
<1>1. DOMAIN f \subseteq GridPlaces /\ f \in [DOMAIN f -> T]
  BY StagedMeans
<1>2. With(f, i, x) \in [DOMAIN f \cup {i} -> T] /\ DOMAIN f \cup {i} \subseteq GridPlaces
  BY <1>1 DEF With
<1> QED
  BY <1>1, <1>2 DEF With, Staged

\* With one position less, it keeps the rest.
LEMMA WithoutOne ==
    ASSUME NEW T, NEW f \in Staged(T), NEW i
    PROVE  /\ Without(f, i) \in Staged(T) /\ DOMAIN Without(f, i) = DOMAIN f \ {i}
           /\ \A j \in DOMAIN f \ {i} : Without(f, i)[j] = f[j]
<1>1. DOMAIN f \subseteq GridPlaces /\ f \in [DOMAIN f -> T]
  BY StagedMeans
<1>2. Without(f, i) \in [DOMAIN f \ {i} -> T] /\ DOMAIN f \ {i} \subseteq GridPlaces
  BY <1>1 DEF Without
<1> QED
  BY <1>1, <1>2 DEF Without, Staged

\* A changed cell: the value it takes, and the row it is of.
Cells == [to : Values, of : Keys]

\* The parts of a draft, and the rows on screen.
LEMMA DraftParts ==
    ASSUME NEW d \in Drafts
    PROVE  d.cells \in Staged(Cells) /\ d.deleted \in Staged(Keys) /\ d.newRows \in Seq(Values \cup {Empty})
  BY DEF Drafts, Cells

\* The rows on screen are rows.
LEMMA ResultRows ==
    ASSUME GridTyped, NEW i \in DOMAIN result
    PROVE  result[i] \in Row /\ result[i].key \in Keys /\ result[i].value \in Values /\ i \in Nat
<1>1. result[i] \in Row /\ i \in Nat
  BY DEF GridTyped
<1> QED
  BY <1>1 DEF Row

\* An empty draft is one, of no row.
LEMMA NothingStaged == NoEdits \in Drafts /\ Apart(NoEdits) /\ Stays(NoEdits) /\ Stays(NoEdits)'
<1>1. << >> \in Seq(Values \cup {Empty})
  OBVIOUS
<1>2. NoEdits \in Drafts
  BY <1>1, StagedNone DEF NoEdits, Drafts
<1>3. NoEdits.cells = << >> /\ NoEdits.deleted = << >> /\ DOMAIN << >> = {}
  BY StagedNone DEF NoEdits
<1> QED
  BY <1>2, <1>3 DEF Apart, Stays

\* The invariant holds when the grid opens.
LEMMA GridInitially == GridInit => GridIInv
<1> SUFFICES ASSUME GridInit PROVE GridIInv
  OBVIOUS
<1>1. << >> \in Seq(Drafts) /\ Len(<< >>) = 0 /\ 0 <= UndoDepth
  BY GridConstants
<1>2. << >> \in Seq(Row) /\ << >> \in Seq(RunsThere) /\ << >> \in Seq(SoundSaves)
  OBVIOUS
<1>3. GridTyped
  BY <1>1, <1>2, NothingStaged DEF GridInit, GridTyped
<1>4. GridFlags
  BY DEF GridInit, GridFlags
<1>5. DraftsInv
  BY <1>1, NothingStaged DEF GridInit, DraftsInv
<1>6. UndoLeadsBack
  BY <1>1 DEF GridInit, UndoLeadsBack
<1> QED
  BY <1>3, <1>4, <1>5, <1>6 DEF GridIInv

\* A draft that is staged is undone to the one before it.
LEMMA UpdateKeeps ==
    ASSUME GridIInv, NEW d \in Drafts, Apart(d), ~crossed /\ runs = << >> => Stays(d),
           UpdateEditDraft(d), editMode' \in BOOLEAN
    PROVE  GridIInv'
<1> USE DEF GridIInv
<1>1. /\ UNCHANGED <<table, here, result, keyed, lastRunSql, tableView, runs, saves>>
      /\ draft' = d /\ d # draft
      /\ crossed' = (crossed \/ runs # << >>) /\ dropped' = (dropped \/ Len(undo) = UndoDepth)
  BY DEF UpdateEditDraft, shownVars
<1> DEFINE n == Len(undo)
<1>2. /\ undo \in Seq(Drafts) /\ draft \in Drafts /\ n \in Nat /\ UndoDepth \in Nat \ {0} /\ n <= UndoDepth
      /\ \A i \in 1 .. n : undo[i] \in Drafts
  BY GridConstants DEF GridTyped
<1>5. ~crossed' => /\ ~crossed /\ runs = << >> /\ runs' = << >> /\ Stays(d) /\ Stays(draft)
                   /\ \A i \in 1 .. Len(undo) : Stays(undo[i])
  BY <1>1 DEF DraftsInv
<1>6. ASSUME \A i \in 1 .. Len(undo') : undo'[i] = draft \/ \E j \in 1 .. Len(undo) : undo'[i] = undo[j]
      PROVE  DraftsInv'
  <2>1. Apart(draft') /\ \A i \in 1 .. Len(undo') : Apart(undo'[i])
    BY <1>1, <1>6 DEF DraftsInv
  <2>2. ~crossed' => Stays(draft)' /\ \A i \in 1 .. Len(undo') : Stays(undo[i])'
    <3>1. ~crossed' => Stays(draft') /\ \A i \in 1 .. Len(undo') : Stays(undo'[i])
      BY <1>1, <1>5, <1>6
    <3> QED
      BY <1>1, <3>1 DEF Stays, KeyAt
  <2> QED
    BY <1>5, <2>1, <2>2 DEF DraftsInv, Apart
<1>3. CASE n < UndoDepth
  <2>1. undo' = Append(undo, draft) /\ dropped' = dropped
    BY <1>1, <1>2, <1>3 DEF UpdateEditDraft, GridFlags
  <2>2. /\ undo' \in Seq(Drafts) /\ Len(undo') = n + 1
        /\ \A i \in 1 .. n : undo'[i] = undo[i]
        /\ undo'[n + 1] = draft
    BY <1>2, <2>1
  <2> HIDE DEF n
  <2>3. GridTyped'
    BY <1>1, <1>2, <1>3, <2>2 DEF GridTyped
  <2>4. GridFlags'
    BY <1>1 DEF GridFlags
  <2>5. \A i \in 1 .. Len(undo') : undo'[i] = draft \/ \E j \in 1 .. Len(undo) : undo'[i] = undo[j]
    BY <1>2, <2>2 DEF n
  <2>6. DraftsInv'
    BY <1>6, <2>5
  <2>7. UndoLeadsBack'
    <3>1. DOMAIN undo' = 1 .. n + 1 /\ DOMAIN undo = 1 .. n /\ n = Len(undo)
      BY <1>2, <2>2 DEF n
    <3>2. ASSUME NEW i \in DOMAIN undo'
          PROVE  undo'[i] # IF i < Len(undo') THEN undo'[i + 1] ELSE draft'
      <4>1. CASE i = n + 1
        BY <1>1, <1>2, <2>2, <4>1
      <4>2. CASE i = n
        <5>1. n \in DOMAIN undo /\ undo'[i] = undo[n] /\ undo'[i + 1] = draft /\ i < Len(undo')
          BY <1>2, <2>2, <3>1, <4>2
        <5>2. undo[n] # IF n < Len(undo) THEN undo[n + 1] ELSE draft
          BY <5>1 DEF UndoLeadsBack
        <5>3. ~(n < Len(undo))
          BY <1>2, <3>1
        <5> QED
          BY <5>1, <5>2, <5>3
      <4>3. CASE i < n
        <5>1. i \in DOMAIN undo /\ i \in Nat /\ i + 1 \in 1 .. n
          BY <1>2, <3>1, <4>3
        <5> QED
          BY <1>2, <2>2, <3>1, <4>3, <5>1 DEF UndoLeadsBack
      <4> QED
        BY <1>2, <3>1, <4>1, <4>2, <4>3
    <3>3. ~dropped' => IF undo' = << >> THEN draft' = NoEdits ELSE undo'[1] = NoEdits
      <4>1. undo' # << >>
        BY <1>2, <2>2
      <4>2. CASE n = 0
        <5>1. undo = << >>
          BY <1>2, <4>2 DEF n
        <5> QED
          BY <2>1, <2>2, <4>1, <4>2, <5>1 DEF UndoLeadsBack
      <4>3. CASE n # 0
        <5>1. undo # << >> /\ undo'[1] = undo[1]
          BY <1>2, <2>2, <4>3 DEF n
        <5> QED
          BY <2>1, <4>1, <5>1 DEF UndoLeadsBack
      <4> QED
        BY <4>2, <4>3
    <3> QED
      BY <3>2, <3>3 DEF UndoLeadsBack
  <2> QED
    BY <2>3, <2>4, <2>6, <2>7
<1>4. CASE n = UndoDepth
  <2>1. undo' = Append(Tail(undo), draft) /\ dropped'
    <3>1. ~(Len(undo) < UndoDepth)
      BY <1>2, <1>4
    <3>2. undo' = Append(Tail(undo), draft)
      BY <3>1 DEF UpdateEditDraft
    <3> QED
      BY <1>1, <1>4, <3>2
  <2>2. /\ Tail(undo) \in Seq(Drafts) /\ Len(Tail(undo)) = n - 1
        /\ \A i \in 1 .. n - 1 : Tail(undo)[i] = undo[i + 1]
    BY <1>2, <1>4
  <2>3. /\ undo' \in Seq(Drafts) /\ Len(undo') = n
        /\ \A i \in 1 .. n - 1 : undo'[i] = undo[i + 1]
        /\ undo'[n] = draft
    BY <1>2, <1>4, <2>1, <2>2
  <2> HIDE DEF n
  <2>4. GridTyped'
    BY <1>1, <1>2, <1>4, <2>3 DEF GridTyped
  <2>5. GridFlags'
    BY <1>1 DEF GridFlags
  <2>6. \A i \in 1 .. Len(undo') : undo'[i] = draft \/ \E j \in 1 .. Len(undo) : undo'[i] = undo[j]
    <3>1. ASSUME NEW i \in 1 .. n PROVE undo'[i] = draft \/ \E j \in 1 .. n : undo'[i] = undo[j]
      <4>1. CASE i = n
        BY <2>3, <4>1
      <4>2. CASE i # n
        <5>1. i \in 1 .. n - 1 /\ i + 1 \in 1 .. n
          BY <1>2, <4>2
        <5> QED
          BY <2>3, <5>1
      <4> QED
        BY <4>1, <4>2
    <3> QED
      BY <2>3, <3>1 DEF n
  <2>7. DraftsInv'
    BY <1>6, <2>6
  <2>8. UndoLeadsBack'
    <3>1. DOMAIN undo' = 1 .. n /\ DOMAIN undo = 1 .. n /\ n = Len(undo)
      BY <1>2, <2>3 DEF n
    <3>2. ASSUME NEW i \in DOMAIN undo'
          PROVE  undo'[i] # IF i < Len(undo') THEN undo'[i + 1] ELSE draft'
      <4>1. CASE i = n
        BY <1>1, <1>2, <2>3, <4>1
      <4>2. CASE i = n - 1
        <5>1. undo'[i] = undo[n] /\ undo'[i + 1] = draft /\ n \in DOMAIN undo /\ i < Len(undo')
          BY <1>2, <2>3, <3>1, <4>2
        <5>2. undo[n] # IF n < Len(undo) THEN undo[n + 1] ELSE draft
          BY <5>1 DEF UndoLeadsBack
        <5>3. ~(n < Len(undo))
          BY <1>2, <3>1
        <5> QED
          BY <5>1, <5>2, <5>3
      <4>3. CASE i < n - 1
        <5>1. i + 1 \in DOMAIN undo /\ i + 1 < n /\ undo'[i] = undo[i + 1] /\ undo'[i + 1] = undo[i + 1 + 1]
              /\ i < Len(undo')
          BY <1>2, <2>3, <3>1, <4>3
        <5> QED
          BY <1>2, <3>1, <5>1 DEF UndoLeadsBack
      <4> QED
        BY <1>2, <3>1, <4>1, <4>2, <4>3
    <3> QED
      BY <2>1, <3>2 DEF UndoLeadsBack
  <2> QED
    BY <2>4, <2>5, <2>7, <2>8
<1> QED
  BY <1>2, <1>3, <1>4

\* A change of what is staged keeps the invariant.
LEMMA EditStep ==
    ASSUME GridIInv, NEW i \in Nat, NEW v \in Values, EditCell(i, v)
    PROVE  GridIInv'
<1> USE DEF GridIInv
<1> DEFINE d == ApplyCellValue(draft, i, v)
<1>1. /\ i \in DOMAIN result /\ i \notin DOMAIN draft.deleted
      /\ UpdateEditDraft(d) /\ editMode' = TRUE
  BY DEF EditCell, Visible
<1>2. draft \in Drafts /\ result[i].key \in Keys /\ result[i].value \in Values
  BY <1>1, ResultRows DEF GridTyped
<1>3. CASE v = result[i].value
  <2>1. d = [draft EXCEPT !.cells = Without(draft.cells, i)]
    BY <1>3 DEF ApplyCellValue
  <2>2. /\ Without(draft.cells, i) \in Staged(Cells)
        /\ DOMAIN Without(draft.cells, i) = DOMAIN draft.cells \ {i}
        /\ \A j \in DOMAIN draft.cells \ {i} : Without(draft.cells, i)[j] = draft.cells[j]
    <3> HIDE DEF GridIInv, d
    <3>1. draft.cells \in Staged(Cells)
      BY <1>2, DraftParts
    <3> QED
      BY <3>1, WithoutOne
  <2>3. d \in Drafts /\ d.cells = Without(draft.cells, i) /\ d.deleted = draft.deleted
    BY <1>2, <2>1, <2>2 DEF Drafts, Cells
  <2> HIDE DEF d
  <2>4. Apart(d) /\ (~crossed /\ runs = << >> => Stays(d))
    BY <2>2, <2>3 DEF Apart, Stays, DraftsInv
  <2> QED
    BY <1>1, <2>3, <2>4, UpdateKeeps
<1>4. CASE v # result[i].value
  <2> DEFINE x == [to |-> v, of |-> result[i].key]
  <2>1. d = [draft EXCEPT !.cells = With(draft.cells, i, x)]
    BY <1>4 DEF ApplyCellValue
  <2>2. x \in Cells /\ x.to = v /\ x.of = result[i].key
    BY <1>2 DEF Cells
  <2> HIDE DEF x
  <2>3. /\ With(draft.cells, i, x) \in Staged(Cells)
        /\ DOMAIN With(draft.cells, i, x) = DOMAIN draft.cells \cup {i}
        /\ With(draft.cells, i, x)[i] = x
        /\ \A j \in DOMAIN draft.cells \ {i} : With(draft.cells, i, x)[j] = draft.cells[j]
    <3> HIDE DEF GridIInv, d
    <3>1. draft.cells \in Staged(Cells)
      BY <1>2, DraftParts
    <3>2. x \in Cells /\ i \in GridPlaces
      BY <2>2 DEF GridPlaces
    <3>3. DOMAIN With(draft.cells, i, x) = DOMAIN draft.cells \cup {i}
      BY DEF With
    <3> QED
      BY <3>1, <3>2, <3>3, WithOne
  <2>4. d \in Drafts /\ d.cells = With(draft.cells, i, x) /\ d.deleted = draft.deleted
    BY <1>2, <2>1, <2>3 DEF Drafts, Cells
  <2> HIDE DEF d
  <2>5. Apart(d)
    BY <1>1, <2>3, <2>4 DEF Apart, DraftsInv
  <2>6. ~crossed /\ runs = << >> => Stays(d)
    BY <1>1, <1>4, <2>2, <2>3, <2>4 DEF Stays, DraftsInv, KeyAt
  <2> QED
    BY <1>1, <2>4, <2>5, <2>6, UpdateKeeps
<1> QED
  BY <1>3, <1>4

\* Marking a row for deletion keeps it (deleteSelectedRows).
LEMMA DeleteStep ==
    ASSUME GridIInv, NEW i \in Nat, DeleteRow(i)
    PROVE  GridIInv'
<1> USE DEF GridIInv
<1> DEFINE d == [draft EXCEPT !.deleted = With(draft.deleted, i, result[i].key),
                              !.cells = Without(draft.cells, i)]
<1>1. /\ i \in DOMAIN result
      /\ UpdateEditDraft(d) /\ editMode' = editMode
  BY DEF DeleteRow, Visible
<1>2. draft \in Drafts /\ result[i].key \in Keys /\ i \in Nat
  BY <1>1, ResultRows DEF GridTyped
<1>3. /\ Without(draft.cells, i) \in Staged(Cells)
      /\ DOMAIN Without(draft.cells, i) = DOMAIN draft.cells \ {i}
      /\ \A j \in DOMAIN draft.cells \ {i} : Without(draft.cells, i)[j] = draft.cells[j]
  <2> HIDE DEF GridIInv, d
  <2>1. draft.cells \in Staged(Cells)
    BY <1>2, DraftParts
  <2> QED
    BY <2>1, <1>2, WithoutOne
<1>4. /\ With(draft.deleted, i, result[i].key) \in Staged(Keys)
      /\ DOMAIN With(draft.deleted, i, result[i].key) = DOMAIN draft.deleted \cup {i}
      /\ With(draft.deleted, i, result[i].key)[i] = result[i].key
      /\ \A j \in DOMAIN draft.deleted \ {i} : With(draft.deleted, i, result[i].key)[j] = draft.deleted[j]
  <2> HIDE DEF GridIInv, d
  <2>1. draft.deleted \in Staged(Keys)
    BY <1>2, DraftParts
  <2>2. result[i].key \in Keys /\ i \in GridPlaces
    BY <1>2 DEF GridPlaces
  <2>3. DOMAIN With(draft.deleted, i, result[i].key) = DOMAIN draft.deleted \cup {i}
    BY DEF With
  <2> QED
    BY <2>1, <2>2, <2>3, WithOne
<1>5. /\ d \in Drafts /\ d.cells = Without(draft.cells, i)
      /\ d.deleted = With(draft.deleted, i, result[i].key)
  BY <1>2, <1>3, <1>4 DEF Drafts, Cells
<1> HIDE DEF d
<1>6. Apart(d)
  BY <1>1, <1>3, <1>4, <1>5 DEF Apart, DraftsInv
<1>7. ~crossed /\ runs = << >> => Stays(d)
  BY <1>1, <1>3, <1>4, <1>5 DEF Stays, DraftsInv, KeyAt
<1>8. editMode' \in BOOLEAN
  BY <1>1 DEF GridFlags
<1> QED
  BY <1>1, <1>5, <1>6, <1>7, <1>8, UpdateKeeps

\* New rows are of no position.
LEMMA NewRowsStep ==
    ASSUME GridIInv,
           AddNewRow \/ \E j \in Nat : DropNewRow(j) \/ \E v \in Values : EditNewRow(j, v)
    PROVE  GridIInv'
<1> USE DEF GridIInv
<1> DEFINE N == Seq(Values \cup {Empty})
<1>1. draft \in Drafts /\ draft.newRows \in N
  BY DEF GridTyped, Drafts
<1>2. PICK rows : /\ rows \in N
                  /\ UpdateEditDraft([draft EXCEPT !.newRows = rows])
                  /\ editMode' \in {TRUE, editMode}
  <2>1. CASE AddNewRow
    <3>1. Append(draft.newRows, Empty) \in N
      BY <1>1
    <3> QED
      BY <2>1, <3>1 DEF AddNewRow
  <2>2. ASSUME NEW j \in Nat, DropNewRow(j)
        PROVE  RemoveAt(draft.newRows, j) \in N /\ UpdateEditDraft([draft EXCEPT !.newRows = RemoveAt(draft.newRows, j)])
               /\ editMode' = editMode
    <3>1. j \in 1 .. Len(draft.newRows) /\ Len(draft.newRows) \in Nat
      BY <1>1, <2>2 DEF DropNewRow
    <3>2. SubSeq(draft.newRows, 1, j - 1) \in N /\ SubSeq(draft.newRows, j + 1, Len(draft.newRows)) \in N
      BY <1>1, <3>1
    <3>3. RemoveAt(draft.newRows, j) \in N
      BY <3>2 DEF RemoveAt
    <3> QED
      BY <2>2, <3>3 DEF DropNewRow
  <2>3. ASSUME NEW j \in Nat, NEW v \in Values, EditNewRow(j, v)
        PROVE  [draft.newRows EXCEPT ![j] = v] \in N
               /\ UpdateEditDraft([draft EXCEPT !.newRows = [draft.newRows EXCEPT ![j] = v]])
               /\ editMode' = editMode
    BY <1>1, <2>3 DEF EditNewRow
  <2> QED
    BY <2>1, <2>2, <2>3
<1> DEFINE d == [draft EXCEPT !.newRows = rows]
<1>3. d \in Drafts /\ d.cells = draft.cells /\ d.deleted = draft.deleted
  BY <1>1, <1>2 DEF Drafts
<1>4. UpdateEditDraft(d) /\ editMode' \in BOOLEAN
  BY <1>2 DEF GridFlags
<1> HIDE DEF d
<1>5. Apart(d) /\ (~crossed /\ runs = << >> => Stays(d))
  BY <1>3 DEF Apart, Stays, DraftsInv
<1> QED
  BY <1>3, <1>4, <1>5, UpdateKeeps

\* So does undoing the last change (undoLastEdit).
LEMMA UndoStep == GridIInv /\ UndoLastEdit => GridIInv'
<1> SUFFICES ASSUME GridIInv, UndoLastEdit PROVE GridIInv'
  OBVIOUS
<1> USE DEF GridIInv
<1> DEFINE n == Len(undo)
<1>1. undo # << >> /\ undo \in Seq(Drafts) /\ n \in Nat /\ n # 0 /\ n <= UndoDepth /\ UndoDepth \in Nat
  BY GridConstants DEF UndoLastEdit, GridTyped
<1>2. /\ draft' = undo[n] /\ undo' = Front(undo)
      /\ UNCHANGED <<table, here, result, keyed, lastRunSql, tableView, runs, editMode,
                     saves, crossed, dropped, changes>>
  BY DEF UndoLastEdit, Last, shownVars
<1>3. /\ undo' \in Seq(Drafts) /\ Len(undo') = n - 1 /\ undo[n] \in Drafts
      /\ \A i \in 1 .. n - 1 : undo'[i] = undo[i]
  <2> HIDE DEF GridIInv
  <2>1. n - 1 \in 0 .. Len(undo) /\ n \in 1 .. Len(undo)
    BY <1>1
  <2>2. undo' = SubSeq(undo, 1, n - 1)
    BY <1>2 DEF Front
  <2> HIDE DEF n
  <2> QED
    BY <1>1, <2>1, <2>2
<1>4. DOMAIN undo' = 1 .. n - 1 /\ DOMAIN undo = 1 .. n /\ n = Len(undo)
  BY <1>1, <1>3
<1> HIDE DEF n
<1>5. GridTyped' /\ GridFlags'
  BY <1>1, <1>2, <1>3 DEF GridTyped, GridFlags
<1>6. DraftsInv'
  BY <1>1, <1>2, <1>3, <1>4 DEF DraftsInv, Apart, Stays, KeyAt
<1>7. UndoLeadsBack'
  <2>1. ASSUME NEW i \in DOMAIN undo'
        PROVE  undo'[i] # IF i < Len(undo') THEN undo'[i + 1] ELSE draft'
    <3>1. i \in 1 .. n - 1 /\ i \in DOMAIN undo /\ i < Len(undo) /\ undo[i] # undo[i + 1] /\ undo'[i] = undo[i]
      BY <1>1, <1>3, <1>4 DEF UndoLeadsBack
    <3>2. CASE i = n - 1
      BY <1>1, <1>2, <1>3, <3>1, <3>2
    <3>3. CASE i < n - 1
      BY <1>1, <1>3, <3>1, <3>3
    <3> QED
      BY <1>1, <3>1, <3>2, <3>3
  <2>2. ~dropped' => IF undo' = << >> THEN draft' = NoEdits ELSE undo'[1] = NoEdits
    <3>1. CASE n = 1
      BY <1>1, <1>2, <1>3, <3>1 DEF UndoLeadsBack
    <3>2. CASE n # 1
      <4>1. undo' # << >> /\ undo'[1] = undo[1]
        BY <1>1, <1>3, <3>2
      <4> QED
        BY <1>1, <1>2, <4>1 DEF UndoLeadsBack
    <3> QED
      BY <3>1, <3>2
  <2> QED
    BY <2>1, <2>2 DEF UndoLeadsBack
<1> QED
  BY <1>5, <1>6, <1>7

\* A run drops what is staged.
LEMMA ResetKeeps ==
    ASSUME ResetEdits
    PROVE  /\ draft' \in Drafts /\ undo' \in Seq(Drafts) /\ Len(undo') = 0
           /\ crossed' = FALSE /\ dropped' = FALSE /\ DraftsInv' /\ UndoLeadsBack'
<1>1. draft' = NoEdits /\ undo' = << >> /\ crossed' = FALSE /\ dropped' = FALSE
  BY DEF ResetEdits
<1>2. << >> \in Seq(Drafts) /\ Len(<< >>) = 0 /\ DOMAIN << >> = {}
  OBVIOUS
<1>3. DraftsInv'
  BY <1>1, <1>2, NothingStaged DEF DraftsInv, Apart
<1>4. UndoLeadsBack'
  BY <1>1, <1>2 DEF UndoLeadsBack
<1> QED
  BY <1>1, <1>2, <1>3, <1>4, NothingStaged

\* What is staged, and what can be undone, stays as it is.
LEMMA DraftsStay ==
    ASSUME GridIInv,
           UNCHANGED <<draft, undo, crossed, dropped, result>>, runs = << >> => runs' = << >>
    PROVE  DraftsInv' /\ UndoLeadsBack'
  BY DEF GridIInv, DraftsInv, Apart, Stays, KeyAt, UndoLeadsBack

\* One element less: the others stay elements.
LEMMA OneLess ==
    ASSUME NEW T, NEW s \in Seq(T), NEW k \in DOMAIN s
    PROVE  RemoveAt(s, k) \in Seq(T) /\ s # << >>
<1>1. k \in 1 .. Len(s) /\ Len(s) \in Nat
  OBVIOUS
<1>2. SubSeq(s, 1, k - 1) \in Seq(T) /\ SubSeq(s, k + 1, Len(s)) \in Seq(T)
  BY <1>1
<1> QED
  BY <1>1, <1>2 DEF RemoveAt

\* Whose rows are on screen changes no other thing about the runs.
LEMMA ShowingRuns ==
    ASSUME NEW rs \in Seq(RunsThere), NEW r
    PROVE  Showing(rs, r) \in Seq(RunsThere) /\ DOMAIN Showing(rs, r) = DOMAIN rs
<1> DEFINE One(q) == [rs[q] EXCEPT !.shown = (q = r)]
<1>1. DOMAIN rs = 1 .. Len(rs) /\ Len(rs) \in Nat /\ \A q \in DOMAIN rs : rs[q] \in RunsThere
  OBVIOUS
<1>2. \A q \in DOMAIN rs : One(q) \in RunsThere
  BY <1>1 DEF RunsThere
<1>3. Showing(rs, r) = [q \in 1 .. Len(rs) |-> One(q)]
  BY <1>1 DEF Showing
<1> HIDE DEF One
<1> QED
  BY <1>1, <1>2, <1>3

\* Whether a statement is of the table alone is yes or no.
LEMMA OfTableOrNot == \A sql : OfTable(sql) \in BOOLEAN
  BY DEF OfTable

\* A run that is put in flight is a run.
LEMMA RunIsThere ==
    ASSUME GridTyped, NEW sql, NEW c \in Databases
    PROVE  Append(runs, Run(sql, c)) \in Seq(RunsThere)
<1>1. Run(sql, c) \in RunsThere
  BY DEF GridTyped, Run, RunsThere
<1> QED
  BY <1>1 DEF GridTyped

\* What a run gives is rows.
LEMMA AnswersAreRows ==
    ASSUME GridTyped, NEW r \in DOMAIN runs, NEW a \in Answers(runs[r])
    PROVE  a.rows \in Seq(Row) /\ a.keyed \in BOOLEAN
<1> DEFINE run == runs[r]
           given == IF run.shown THEN result ELSE << >>
           left  == {k \in Keys : table[run.on][k] # Gone} \ {x.key : x \in Range(given)}
           At(k) == [key |-> k, value |-> table[run.on][k]]
<1>1. run \in RunsThere /\ given \in Seq(Row) /\ table[run.on] \in [Keys -> Values \cup {Gone}]
  <2>1. run \in RunsThere /\ run.on \in Databases /\ run.shown \in BOOLEAN
    <3>1. runs[r] \in RunsThere
      BY DEF GridTyped
    <3> QED
      BY <3>1 DEF RunsThere
  <2>2. << >> \in Seq(Row) /\ result \in Seq(Row)
    BY DEF GridTyped
  <2>3. table[run.on] \in [Keys -> Values \cup {Gone}]
    BY <2>1 DEF GridTyped
  <2> QED
    BY <2>1, <2>2, <2>3
<1>2. CASE ~run.preview
  BY <1>2, GridConstants DEF Answers, Answer
<1>3. CASE run.preview
  <2>1. PICK order \in SetToSeqs(left) :
            a = [rows |-> given \o [i \in DOMAIN order |-> At(order[i])], keyed |-> TRUE]
    BY <1>3 DEF Answers
  <2>2. \A k \in left : At(k) \in Row
    BY <1>1 DEF Row
  <2>3. IsFiniteSet(left)
    BY GridConstants, FS_Subset
  <2> HIDE DEF left, given, At
  <2>4. Cardinality(left) \in Nat /\ order \in [1 .. Cardinality(left) -> left]
    BY <2>3, FS_CardinalityType DEF SetToSeqs
  <2>5. [i \in DOMAIN order |-> At(order[i])] \in [1 .. Cardinality(left) -> Row]
    BY <2>2, <2>4
  <2>6. [i \in DOMAIN order |-> At(order[i])] \in Seq(Row)
    BY <2>4, <2>5
  <2> QED
    BY <1>1, <2>1, <2>6
<1> QED
  BY <1>2, <1>3

\* A run, a result restored or a discard drops what is staged.
LEMMA RunStep ==
    ASSUME GridIInv,
           DiscardEdits \/ \E sql \in Statements :
               \/ OpenTableData(sql) \/ (\E c \in Databases : RunStatement(sql, c))
               \/ \E a \in OtherAnswers : RestoreHistoryResult(sql, a)
    PROVE  GridIInv'
<1> USE DEF GridIInv
<1>1. CASE ResetEdits
  <2>1. /\ UNCHANGED <<table, here, saves>>
        /\ editMode' \in {editMode, FALSE}
        /\ runs' = runs \/ runs' = Showing(runs, 0)
              \/ \E sql \in Statements, c \in Databases : runs' = Append(runs, Run(sql, c))
        /\ lastRunSql' = lastRunSql \/ \E sql \in Statements : lastRunSql' = OfTable(sql)
        /\ tableView' \in BOOLEAN
        /\ UNCHANGED <<result, keyed>> \/ \E a \in OtherAnswers : result' = a.rows /\ keyed' = a.keyed
    BY DEF DiscardEdits, OpenTableData, RunStatement, RestoreHistoryResult, Execute, shownVars, GridTyped, GridFlags
  <2>2. /\ draft' \in Drafts /\ undo' \in Seq(Drafts) /\ Len(undo') = 0
        /\ crossed' = FALSE /\ dropped' = FALSE /\ DraftsInv' /\ UndoLeadsBack'
    BY <1>1, ResetKeeps
  <2>3. runs' \in Seq(RunsThere)
    <3>1. GridTyped
      OBVIOUS
    <3> HIDE DEF GridIInv
    <3>2. CASE runs' = runs \/ runs' = Showing(runs, 0)
      BY <3>1, <3>2, ShowingRuns DEF GridTyped
    <3>3. ASSUME NEW sql \in Statements, NEW c \in Databases, runs' = Append(runs, Run(sql, c))
          PROVE  runs' \in Seq(RunsThere)
      BY <3>1, <3>3, RunIsThere
    <3> QED
      BY <2>1, <3>2, <3>3
  <2>4. result' \in Seq(Row) /\ keyed' \in BOOLEAN
    BY <2>1, GridConstants DEF GridTyped, GridFlags, Answer
  <2>5. GridTyped'
    BY <2>1, <2>2, <2>3, <2>4, GridConstants DEF GridTyped
  <2>6. GridFlags'
    BY <2>1, <2>2, <2>4, OfTableOrNot DEF GridFlags
  <2> QED
    BY <2>2, <2>5, <2>6
<1>2. CASE ~ResetEdits
  <2>1. /\ UNCHANGED <<table, here, result, keyed, lastRunSql, runs, editMode, saves, draft, undo, crossed, dropped>>
        /\ tableView' \in BOOLEAN
    BY <1>2 DEF DiscardEdits, OpenTableData, RunStatement, RestoreHistoryResult, Execute
  <2>2. GridTyped' /\ GridFlags'
    BY <2>1 DEF GridTyped, GridFlags
  <2> QED
    BY <2>1, <2>2, DraftsStay
<1> QED
  BY <1>1, <1>2

\* The rows of a run take the place of the result.
LEMMA RowsStep ==
    ASSUME GridIInv, NEW r, NEW n \in Nat, RowsShown(r, n)
    PROVE  GridIInv'
<1> USE DEF GridIInv
<1>1. /\ UNCHANGED <<table, here, lastRunSql, tableView, editMode, draft, undo, crossed, dropped, saves>>
      /\ r \in DOMAIN runs
  BY DEF RowsShown, draftVars
<1>2. runs # << >>
  BY <1>1
<1>3. PICK a \in Answers(runs[r]) :
        /\ n <= Len(a.rows) /\ result' = SubSeq(a.rows, 1, n) /\ keyed' = a.keyed
        /\ runs' = Showing(runs, r) \/ runs' = RemoveAt(Showing(runs, r), r)
  BY DEF RowsShown
<1>4. a.rows \in Seq(Row) /\ a.keyed \in BOOLEAN
  <2> HIDE DEF GridIInv
  <2>1. GridTyped
    BY DEF GridIInv
  <2> QED
    BY <1>1, <2>1, AnswersAreRows
<1>5. result' \in Seq(Row)
  BY <1>3, <1>4
<1>6. runs' \in Seq(RunsThere)
  <2>1. Showing(runs, r) \in Seq(RunsThere) /\ r \in DOMAIN Showing(runs, r)
    BY <1>1, ShowingRuns DEF GridTyped
  <2> HIDE DEF GridIInv
  <2> QED
    BY <1>3, <2>1, OneLess
<1>7. GridTyped'
  BY <1>1, <1>5, <1>6 DEF GridTyped
<1>8. GridFlags' /\ UndoLeadsBack'
  <2>1. GridFlags'
    BY <1>1, <1>3, <1>4 DEF GridFlags
  <2>2. UndoLeadsBack'
    BY <1>1 DEF UndoLeadsBack
  <2> QED
    BY <2>1, <2>2
<1>9. DraftsInv'
  <2>1. CASE crossed
    BY <1>1, <2>1 DEF DraftsInv, Apart
  <2>2. CASE ~crossed
    <3>1. draft' = NoEdits /\ undo' = << >> /\ Len(<< >>) = 0
      BY <1>1, <1>2, <2>2 DEF DraftsInv
    <3> QED
      BY <3>1, NothingStaged DEF DraftsInv, Apart
  <2> QED
    BY <2>1, <2>2
<1> QED
  BY <1>7, <1>8, <1>9

\* What is on screen stays when a run fails.
LEMMA RunFailsStep ==
    ASSUME GridIInv, NEW r, RunFails(r)
    PROVE  GridIInv'
<1> USE DEF GridIInv
<1>1. /\ UNCHANGED <<table, here, result, keyed, lastRunSql, tableView, editMode, draft, undo, crossed, dropped, saves>>
      /\ r \in DOMAIN runs /\ runs' = RemoveAt(runs, r)
  BY DEF RunFails, draftVars, shownVars
<1>2. runs' \in Seq(RunsThere) /\ runs # << >>
  BY <1>1, OneLess DEF GridTyped
<1>3. GridTyped' /\ GridFlags'
  BY <1>1, <1>2 DEF GridTyped, GridFlags
<1> QED
  BY <1>1, <1>2, <1>3, DraftsStay

\* The mode and the connection are no part of what is staged.
LEMMA GridStaysStep ==
    ASSUME GridIInv, ToggleEditMode \/ \E c \in Databases : ShowConnection(c)
    PROVE  GridIInv'
<1> USE DEF GridIInv
<1>1. /\ UNCHANGED <<table, result, keyed, lastRunSql, tableView, runs, draft, undo, crossed, dropped, saves>>
      /\ here' \in Databases /\ editMode' \in BOOLEAN
  BY DEF ToggleEditMode, ShowConnection, draftVars, shownVars, GridFlags, GridTyped
<1>2. GridTyped' /\ GridFlags'
  BY <1>1 DEF GridTyped, GridFlags
<1> QED
  BY <1>1, <1>2, DraftsStay

\* A save that is asked about names the rows on screen.
LEMMA CommitStep == GridIInv /\ CommitEdits => GridIInv'
<1> SUFFICES ASSUME GridIInv, CommitEdits PROVE GridIInv'
  OBVIOUS
<1> USE DEF GridIInv
<1> DEFINE ups == [i \in DOMAIN draft.cells |->
                     [key |-> KeyAt(i), to |-> draft.cells[i].to, of |-> draft.cells[i].of]]
           dels == {[key |-> KeyAt(i), of |-> draft.deleted[i]] : i \in DOMAIN draft.deleted}
           save == [phase |-> "asking", on |-> here, crossed |-> crossed,
                    updates |-> ups, deletes |-> dels]
<1>1. /\ UNCHANGED <<table, here, result, keyed, lastRunSql, tableView, runs, editMode,
                     draft, undo, crossed, dropped>>
      /\ saves' = Append(saves, save)
  BY DEF CommitEdits, draftVars, shownVars
<1>2. \A i : KeyAt(i) \in Keys \cup {Gone}
  BY ResultRows DEF KeyAt
<1>3. ups \in Staged(Updates)
  <2>1. draft.cells \in Staged(Cells)
    BY DraftParts DEF GridTyped
  <2>2. DOMAIN draft.cells \subseteq GridPlaces /\ draft.cells \in [DOMAIN draft.cells -> Cells]
    BY <2>1, StagedMeans
  <2>3. ups \in [DOMAIN draft.cells -> Updates]
    <3> HIDE DEF GridIInv
    <3> QED
      BY <1>2, <2>2 DEF Cells, Updates
  <2> QED
    BY <2>2, <2>3 DEF Staged
<1>4. dels \subseteq [key : Keys \cup {Gone}, of : Keys]
  <2>1. draft.deleted \in Staged(Keys)
    BY DraftParts DEF GridTyped
  <2>2. draft.deleted \in [DOMAIN draft.deleted -> Keys]
    BY <2>1, StagedMeans
  <2> QED
    BY <1>2, <2>2
<1>5. ~crossed => /\ \A i \in DOMAIN ups : ups[i].key = ups[i].of
                  /\ \A d \in dels : d.key = d.of
  <2>1. ~crossed => Stays(draft)
    BY DEF DraftsInv
  <2> HIDE DEF GridIInv
  <2> QED
    BY <2>1 DEF Stays
<1> HIDE DEF ups, dels
<1>6. save \in SoundSaves
  <2>1. save \in Saves
    BY <1>3, <1>4 DEF Saves, GridTyped, GridFlags
  <2>2. Named(save)
    BY <1>5 DEF Named
  <2> QED
    BY <2>1, <2>2 DEF SoundSaves
<1> HIDE DEF save
<1>7. GridTyped' /\ GridFlags'
  BY <1>1, <1>6 DEF GridTyped, GridFlags
<1> QED
  BY <1>1, <1>7, DraftsStay

\* A dialog that is answered, and a save that fails, leave the grid as it is.
LEMMA AnsweredStep ==
    ASSUME GridIInv, NEW k, ApplyFails(k) \/ \E b \in BOOLEAN : AnswerDialog(k, b)
    PROVE  GridIInv'
<1> USE DEF GridIInv
<1>1. /\ UNCHANGED <<table, here, result, keyed, lastRunSql, tableView, runs, editMode,
                     draft, undo, crossed, dropped>>
      /\ k \in DOMAIN saves
      /\ saves' = RemoveAt(saves, k) \/ saves' = [saves EXCEPT ![k].phase = "applying"]
  BY DEF ApplyFails, AnswerDialog, draftVars, shownVars
<1>2. [saves[k] EXCEPT !.phase = "applying"] \in SoundSaves
  <2>1. saves[k] \in Saves /\ Named(saves[k])
    BY <1>1 DEF GridTyped, SoundSaves
  <2> HIDE DEF GridIInv
  <2>2. [saves[k] EXCEPT !.phase = "applying"] \in Saves
    BY <2>1 DEF Saves
  <2>3. Named([saves[k] EXCEPT !.phase = "applying"])
    BY <2>1 DEF Named, Saves
  <2> QED
    BY <2>2, <2>3 DEF SoundSaves
<1>3. saves' \in Seq(SoundSaves)
  <2>1. saves \in Seq(SoundSaves)
    BY DEF GridTyped
  <2> HIDE DEF GridIInv
  <2>2. [saves EXCEPT ![k].phase = "applying"] = [saves EXCEPT ![k] = [saves[k] EXCEPT !.phase = "applying"]]
    OBVIOUS
  <2>3. [saves EXCEPT ![k] = [saves[k] EXCEPT !.phase = "applying"]] \in Seq(SoundSaves)
    BY <1>1, <1>2, <2>1
  <2> QED
    BY <1>1, <2>1, <2>2, <2>3, OneLess
<1>4. GridTyped' /\ GridFlags'
  BY <1>1, <1>3 DEF GridTyped, GridFlags
<1> QED
  BY <1>1, <1>4, DraftsStay

\* A save that is applied drops what is staged.
LEMMA AppliedStep ==
    ASSUME GridIInv, NEW k, NEW sql \in Statements, Applied(k, sql)
    PROVE  GridIInv'
<1> USE DEF GridIInv
<1> DEFINE Row2(key) == NewValue(saves[k], key, table[saves[k].on][key])
<1>1. /\ ResetEdits /\ UNCHANGED <<here, result, keyed>> /\ editMode' = FALSE
      /\ k \in DOMAIN saves /\ saves' = RemoveAt(saves, k)
      /\ table' = [table EXCEPT ![saves[k].on] = [key \in Keys |-> Row2(key)]]
      /\ runs' = runs \/ \E c \in Databases : runs' = Append(runs, Run(sql, c))
      /\ lastRunSql' = lastRunSql \/ lastRunSql' = OfTable(sql)
      /\ tableView' \in BOOLEAN
  BY DEF Applied, Execute, GridTyped, GridFlags
<1>2. /\ draft' \in Drafts /\ undo' \in Seq(Drafts) /\ Len(undo') = 0
      /\ crossed' = FALSE /\ dropped' = FALSE /\ DraftsInv' /\ UndoLeadsBack'
  BY <1>1, ResetKeeps
<1>3. \A key \in Keys : Row2(key) \in Values \cup {Gone}
  <2>1. saves[k] \in Saves /\ table[saves[k].on] \in [Keys -> Values \cup {Gone}]
    BY <1>1 DEF GridTyped, SoundSaves, Saves
  <2>2. saves[k].updates \in Staged(Updates)
    BY <2>1 DEF Saves
  <2>3. \A i \in DOMAIN saves[k].updates : saves[k].updates[i].to \in Values
    <3>1. saves[k].updates \in [DOMAIN saves[k].updates -> Updates]
      BY <2>2, StagedMeans
    <3> HIDE DEF GridIInv
    <3> QED
      BY <3>1 DEF Updates
  <2> HIDE DEF GridIInv
  <2> QED
    BY <2>1, <2>3 DEF NewValue
<1> HIDE DEF Row2
<1>4. table' \in [Databases -> [Keys -> Values \cup {Gone}]]
  <2>1. [key \in Keys |-> Row2(key)] \in [Keys -> Values \cup {Gone}]
    BY <1>3
  <2> QED
    BY <1>1, <2>1 DEF GridTyped
<1>5. runs' \in Seq(RunsThere) /\ saves' \in Seq(SoundSaves)
  BY <1>1, RunIsThere, OneLess DEF GridTyped
<1>6. GridTyped'
  BY <1>1, <1>2, <1>4, <1>5, GridConstants DEF GridTyped
<1>7. GridFlags'
  BY <1>1, <1>2, OfTableOrNot DEF GridFlags
<1> QED
  BY <1>2, <1>6, <1>7

\* Every step of the grid keeps the invariant.
LEMMA GridStep == GridIInv /\ [GridNext]_gridVars => GridIInv'
<1> SUFFICES ASSUME GridIInv, [GridNext]_gridVars PROVE GridIInv'
  OBVIOUS
<1>1. CASE GridNext
  <2>1. 1 .. MaxRows \subseteq Nat /\ 1 .. MaxChanges \subseteq Nat /\ 0 .. MaxRows \subseteq Nat
    BY GridConstants, FS_CardinalityType DEF MaxRows
  <2>2. ASSUME NEW i \in 1 .. MaxRows, DeleteRow(i) PROVE GridIInv'
    BY <2>1, <2>2, DeleteStep
  <2>3. ASSUME NEW i \in 1 .. MaxRows, NEW v \in Values, EditCell(i, v) PROVE GridIInv'
    BY <2>1, <2>3, EditStep
  <2>4. ASSUME NEW j \in 1 .. MaxChanges, DropNewRow(j) \/ \E v \in Values : EditNewRow(j, v)
        PROVE  GridIInv'
    BY <2>1, <2>4, NewRowsStep
  <2>5. ASSUME NEW r, RunFails(r) \/ \E n \in 0 .. MaxRows : RowsShown(r, n) PROVE GridIInv'
    BY <2>1, <2>5, RowsStep, RunFailsStep
  <2>6. ASSUME NEW k, ApplyFails(k) \/ (\E sql \in Statements : Applied(k, sql)) \/ \E b \in BOOLEAN : AnswerDialog(k, b)
        PROVE  GridIInv'
    BY <2>6, AnsweredStep, AppliedStep
  <2>7. CASE CommitEdits \/ ToggleEditMode \/ \E c \in Databases : ShowConnection(c)
    BY <2>7, CommitStep, GridStaysStep
  <2>8. CASE DiscardEdits \/ \E sql \in Statements : \/ OpenTableData(sql) \/ (\E c \in Databases : RunStatement(sql, c))
                                                     \/ \E a \in OtherAnswers : RestoreHistoryResult(sql, a)
    BY <2>8, RunStep
  <2> QED
    BY <1>1, <2>2, <2>3, <2>4, <2>5, <2>6, <2>7, <2>8, NewRowsStep, UndoStep DEF GridNext
<1>2. CASE UNCHANGED gridVars
  <2>1. DraftsInv' /\ UndoLeadsBack'
    BY <1>2, DraftsStay DEF gridVars, shownVars, draftVars
  <2>2. GridTyped' /\ GridFlags'
    BY <1>2 DEF gridVars, shownVars, draftVars, GridTyped, GridFlags, GridIInv
  <2> QED
    BY <2>1, <2>2 DEF GridIInv
<1> QED
  BY <1>1, <1>2

\* So it holds in every state.
LEMMA GridInvariant == GridSpec => []GridIInv
  BY GridInitially, GridStep, PTL DEF GridSpec

\* The typing of the proof implies the model's own.
LEMMA DraftsAreDrafts == ASSUME NEW d \in Drafts PROVE IsDraft(d)
<1>1. d.cells \in Staged(Cells) /\ d.deleted \in Staged(Keys) /\ d.newRows \in Seq(Values \cup {Empty})
  BY DraftParts
<1>2. /\ DOMAIN d.cells \subseteq GridPlaces /\ d.cells \in [DOMAIN d.cells -> Cells]
      /\ DOMAIN d.deleted \subseteq GridPlaces /\ d.deleted \in [DOMAIN d.deleted -> Keys]
  BY <1>1, StagedMeans
<1>3. Range(d.newRows) \subseteq Values \cup {Empty}
  BY <1>1 DEF Range
<1> QED
  BY <1>2, <1>3 DEF IsDraft, GridPlaces, Cells

\* However edits, undo, runs and saves interleave, for any table and any depth of the
\* undo stack: a row is not both deleted and changed, and what was staged while no run
\* was in flight names the rows the user saw (use-result-grid-editing.ts).
THEOREM EditsStaySound == GridSpec => []EditsAreSound
<1>1. GridIInv => EditsAreSound
  <2> SUFFICES ASSUME GridIInv PROVE EditsAreSound
    OBVIOUS
  <2>1. draft \in Drafts /\ undo \in Seq(Drafts) /\ \A i \in DOMAIN undo : undo[i] \in Drafts
    BY DEF GridIInv, GridTyped
  <2>2. IsDraft(draft) /\ \A i \in DOMAIN undo : IsDraft(undo[i])
    BY <2>1, DraftsAreDrafts
  <2>3. \A i \in DOMAIN result : result[i] \in Row
    BY ResultRows DEF GridIInv
  <2>4. /\ \A r \in DOMAIN runs : runs[r] \in RunsThere
        /\ \A k \in DOMAIN saves : saves[k] \in Saves /\ Named(saves[k])
    BY DEF GridIInv, GridTyped, SoundSaves
  <2>5. GridTypeOK
    <3>1. \A k \in DOMAIN saves : saves[k].phase \in {"asking", "applying"}
      BY <2>4 DEF Saves
    <3> QED
      BY <2>2, <2>3, <2>4, <3>1 DEF GridIInv, GridTyped, GridFlags, GridTypeOK, RunsThere
  <2>6. DeletedRowsHaveNoEdits /\ EditsStayWithTheirRows
    BY DEF GridIInv, DraftsInv, Apart, Stays, DeletedRowsHaveNoEdits, EditsStayWithTheirRows
  <2>7. SavesNameTheirRows
    BY <2>4 DEF SavesNameTheirRows, Named
  <2> QED
    BY <2>5, <2>6, <2>7 DEF EditsAreSound
<1> QED
  BY <1>1, GridInvariant, PTL

\* Every draft that can be undone to differs from the next, and unless the stack has
\* dropped its oldest they lead back to nothing staged (updateEditDraft and undoLastEdit).
THEOREM UndoAlwaysLeadsBack == GridSpec => []UndoLeadsBack
  BY GridInvariant, PTL DEF GridIInv

-----------------------------------------------------------------------------
(* The editor's tabs and workspaces.                                       *)

-----------------------------------------------------------------------------
(* Groups and workspaces that make sense, as sets.                         *)

\* The fields of a group.
GroupType ==
    [tabs : Seq(Tabs), open : SUBSET Tabs, active : Tabs \cup {NoTab},
     text : [Tabs \cup {NoTab} -> Texts]]

\* The tab shown is an open one, or none is open.
ShowsAnOpenTab(g) ==
    /\ g.open \subseteq Range(g.tabs)
    /\ g.active \in g.open \/ (g.active = NoTab /\ g.open = {})

\* No text is kept under an id that is no tab.
ParksNothing(g) ==
    \A t \in Tabs \cup {NoTab} : ~Contains(g.tabs, t) => g.text[t] = BlankText

\* A group that makes sense, though it may hold no tab yet.
TidyGroups ==
    {g \in GroupType : IsInjective(g.tabs) /\ ShowsAnOpenTab(g) /\ ParksNothing(g)}
\* A group of a workspace has tabs.
SoundGroups == {g \in TidyGroups : g.tabs # <<>>}

\* A workspace, whose second group nobody closes, and so never counts as blank.
SoundWorkspaces ==
    {w \in [primary : SoundGroups, secondary : SoundGroups] : w.secondary.open # {}}
\* What a connection's workspace may be.
Held == SoundWorkspaces \cup {NoWorkspace}

\* The variables that are no workspace keep their type.
EditorTyped ==
    /\ activeConnection \in WorkspaceIds
    /\ timer \in BOOLEAN /\ storageWorks \in BOOLEAN
    /\ importing \in WorkspaceIds \cup {NoTab}
    /\ launches \in 1..MaxLaunches /\ edits \in 0..MaxEdits

\* Every workspace, on screen, remembered or stored, makes sense.
WorkspacesInv ==
    /\ workspaces \in [WorkspaceIds -> Held] /\ blanks \in [WorkspaceIds -> Held]
    /\ stored \in [WorkspaceIds -> Held]
    /\ seed \in {NoWorkspace, FirstRun}

\* The seed is pending only until one workspace took it.
SeedInv ==
    /\ seed # NoWorkspace => adopters = {}
    /\ adopters = {} \/ \E c \in WorkspaceIds : adopters = {c}

\* What is stored while no save is pending.
IdleStored == storageWorks /\ ~timer => stored = workspaces

\* The inductive invariant of the editor.
EditorIInv == EditorTyped /\ WorkspacesInv /\ SeedInv /\ IdleStored

-----------------------------------------------------------------------------
\* What the assumptions say of the ids and texts.
LEMMA Ids ==
    /\ NoTab \notin Tabs /\ TableTabs \subseteq Tabs
    /\ BlankText \in Texts /\ Preview \in Texts /\ SampleSql \in Texts /\ SQL \subseteq Texts
    /\ \A i \in 1..Len(SqlTabs) : SqlTabs[i] \in Tabs
    /\ Len(SqlTabs) \in Nat /\ Len(SqlTabs) >= 2 /\ DOMAIN SqlTabs = 1..Len(SqlTabs)
BY EditorConstants DEF Tabs, Texts, Range

\* The tabs of a group are its sequence's elements.
LEMMA ATabOfIts ==
    ASSUME NEW g \in GroupType, NEW t
    PROVE  Contains(g.tabs, t) <=> t \in Range(g.tabs)
<1>1. g.tabs \in Seq(Tabs)
  BY DEF GroupType
<1> QED
  BY <1>1 DEF Contains, Range

\* createSqlTabId hands out an id that no tab of the group has.
LEMMA NewTabIdIsNew ==
    ASSUME NEW g, HasRoom(g)
    PROVE  /\ NewTabId(g) \in 1..Len(SqlTabs)
           /\ SqlTabs[NewTabId(g)] \in Tabs
           /\ ~Contains(g.tabs, SqlTabs[NewTabId(g)])
           /\ \A i \in 1..Len(SqlTabs) : ~Contains(g.tabs, SqlTabs[i]) => NewTabId(g) <= i
<1> DEFINE Free == {i \in 1..Len(SqlTabs) : ~Contains(g.tabs, SqlTabs[i])}
<1>1. NewTabId(g) = IF Free # {} THEN Min(Free) ELSE 0
  BY DEF NewTabId, SelectInSeq
<1>2. Free # {}
  BY <1>1 DEF HasRoom
<1>3. Free \in SUBSET Nat
  BY Ids
<1>4. Min(Free) \in Free /\ \A i \in Free : Min(Free) <= i
  BY <1>2, <1>3, LeastIsThere
<1> QED
  BY <1>1, <1>2, <1>4, Ids

\* A group with a tab more is sound, and shows it.
LEMMA AddedTab ==
    ASSUME NEW g \in TidyGroups, NEW t \in Tabs, ~Contains(g.tabs, t), NEW sql \in Texts
    PROVE  /\ AddTab(g, t, sql) \in SoundGroups
           /\ AddTab(g, t, sql).open # {}
           /\ AddTab(g, t, sql).tabs = Append(g.tabs, t)
           /\ AddTab(g, t, sql).text = [g.text EXCEPT ![t] = sql]
<1> DEFINE h == AddTab(g, t, sql)
<1>1. /\ g.tabs \in Seq(Tabs) /\ g.open \subseteq Tabs
      /\ g.text \in [Tabs \cup {NoTab} -> Texts] /\ g.open \subseteq Range(g.tabs)
      /\ IsInjective(g.tabs) /\ ParksNothing(g)
  BY DEF TidyGroups, GroupType, ShowsAnOpenTab
<1>2. h.tabs = Append(g.tabs, t) /\ h.open = g.open \cup {t} /\ h.active = t
      /\ h.text = [g.text EXCEPT ![t] = sql]
  BY DEF AddTab
<1>3. h \in GroupType
  BY <1>1 DEF AddTab, GroupType
<1>4. /\ Len(h.tabs) = Len(g.tabs) + 1 /\ h.tabs[Len(g.tabs) + 1] = t /\ h.tabs \in Seq(Tabs)
      /\ \A i \in 1..Len(g.tabs) : h.tabs[i] = g.tabs[i]
      /\ Len(g.tabs) \in Nat
  BY <1>1, <1>2
<1>5. IsInjective(h.tabs)
  <2>1. \A i \in 1..Len(g.tabs) : g.tabs[i] # t
    BY DEF Contains
  <2>2. DOMAIN h.tabs = 1..(Len(g.tabs) + 1) /\ DOMAIN g.tabs = 1..Len(g.tabs)
    BY <1>1, <1>4
  <2>3. ASSUME NEW a \in DOMAIN h.tabs, NEW b \in DOMAIN h.tabs, h.tabs[a] = h.tabs[b]
        PROVE  a = b
    <3>1. CASE a = Len(g.tabs) + 1 \/ b = Len(g.tabs) + 1
      BY <1>4, <2>1, <2>2, <2>3, <3>1
    <3>2. CASE a \in 1..Len(g.tabs) /\ b \in 1..Len(g.tabs)
      BY <1>1, <1>4, <2>2, <2>3, <3>2 DEF IsInjective
    <3> QED
      BY <1>4, <2>2, <3>1, <3>2
  <2> HIDE DEF h
  <2> QED
    BY <2>3 DEF IsInjective
<1>6. Range(g.tabs) \subseteq Range(h.tabs) /\ t \in Range(h.tabs)
  BY <1>1, <1>4 DEF Range
<1>7. ShowsAnOpenTab(h)
  BY <1>1, <1>2, <1>6 DEF ShowsAnOpenTab
<1>8. ParksNothing(h)
  <2> SUFFICES ASSUME NEW u \in Tabs \cup {NoTab}, ~Contains(h.tabs, u) PROVE h.text[u] = BlankText
    BY DEF ParksNothing
  <2>1. u # t
    BY <1>4 DEF Contains
  <2>2. ~Contains(g.tabs, u)
    BY <1>4 DEF Contains
  <2> QED
    BY <1>1, <1>2, <2>1, <2>2 DEF ParksNothing
<1>9. h.tabs # <<>>
  BY <1>4
<1> QED
  BY <1>2, <1>3, <1>5, <1>7, <1>8, <1>9 DEF TidyGroups, SoundGroups

\* So is one with a new SQL tab, whose other tabs keep their text.
LEMMA AddedSqlTab ==
    ASSUME NEW g \in TidyGroups, HasRoom(g), NEW sql \in Texts
    PROVE  /\ AddSqlTab(g, sql) \in SoundGroups /\ AddSqlTab(g, sql).open # {}
           /\ \A t \in Range(g.tabs) : AddSqlTab(g, sql).text[t] = g.text[t]
<1>1. SqlTabs[NewTabId(g)] \in Tabs /\ ~Contains(g.tabs, SqlTabs[NewTabId(g)])
  BY NewTabIdIsNew
<1>2. /\ AddSqlTab(g, sql) \in SoundGroups /\ AddSqlTab(g, sql).open # {}
      /\ AddSqlTab(g, sql).text = [g.text EXCEPT ![SqlTabs[NewTabId(g)]] = sql]
  BY <1>1, AddedTab DEF AddSqlTab
<1>3. g \in GroupType
  BY DEF TidyGroups
<1>4. ASSUME NEW t \in Range(g.tabs) PROVE AddSqlTab(g, sql).text[t] = g.text[t]
  <2>1. t # SqlTabs[NewTabId(g)]
    BY <1>1, <1>3, ATabOfIts
  <2>2. g.text \in [Tabs \cup {NoTab} -> Texts] /\ g.tabs \in Seq(Tabs)
    BY <1>3 DEF GroupType
  <2>3. t \in Tabs
    BY <2>2 DEF Range
  <2> QED
    BY <1>2, <2>1, <2>2, <2>3
<1> QED
  BY <1>2, <1>4

\* A group without tabs has room for the first.
LEMMA EmptyIsTidy == EmptyGroup \in TidyGroups /\ HasRoom(EmptyGroup) /\ NewTabId(EmptyGroup) = 1
<1>1. EmptyGroup \in GroupType
  BY Ids DEF EmptyGroup, GroupType
<1>2. IsInjective(EmptyGroup.tabs) /\ ShowsAnOpenTab(EmptyGroup)
  BY DEF EmptyGroup, IsInjective, ShowsAnOpenTab
<1>3. ParksNothing(EmptyGroup)
  BY DEF EmptyGroup, ParksNothing
<1>4. \A t : ~Contains(EmptyGroup.tabs, t)
  BY DEF EmptyGroup, Contains
<1>5. HasRoom(EmptyGroup)
  <2> DEFINE Free == {i \in 1..Len(SqlTabs) : ~Contains(EmptyGroup.tabs, SqlTabs[i])}
  <2>1. NewTabId(EmptyGroup) = IF Free # {} THEN Min(Free) ELSE 0
    BY DEF NewTabId, SelectInSeq
  <2>2. 1 \in Free /\ Free \in SUBSET Nat
    BY <1>4, Ids
  <2>3. Min(Free) \in Free
    BY <2>2, LeastIsThere
  <2> HIDE DEF Free
  <2>4. Free \subseteq 1..Len(SqlTabs)
    BY DEF Free
  <2> QED
    BY <2>1, <2>2, <2>3, <2>4, Ids DEF HasRoom
<1>6. NewTabId(EmptyGroup) = 1
  BY <1>4, <1>5, NewTabIdIsNew, Ids
<1> QED
  BY <1>1, <1>2, <1>3, <1>5, <1>6 DEF TidyGroups

\* The group of one blank tab is sound.
LEMMA BlankGroupIsSound == BlankGroup \in SoundGroups /\ BlankGroup.open # {}
BY EmptyIsTidy, AddedSqlTab, Ids DEF BlankGroup

\* The first-run tabs: the first holds the text and is active, the other is blank.
LEMMA SampleGroupIsSound ==
    ASSUME NEW sql \in Texts
    PROVE  /\ SampleGroup(sql) \in SoundGroups /\ SampleGroup(sql).open # {}
           /\ \A t \in Tabs \cup {NoTab} : t # SampleGroup(sql).active => SampleGroup(sql).text[t] = BlankText
<1> DEFINE g == AddSqlTab(EmptyGroup, sql)
           h == AddSqlTab(g, BlankText)
           s == SqlTabs[1]
<1>1. s \in Tabs
  BY Ids
<1>2. ~Contains(EmptyGroup.tabs, s)
  BY DEF EmptyGroup, Contains
<1>3. /\ g \in SoundGroups /\ g.tabs = Append(<<>>, s)
      /\ g.text = [EmptyGroup.text EXCEPT ![s] = sql]
  <2>1. EmptyGroup.tabs = <<>> /\ EmptyGroup \in TidyGroups /\ g = AddTab(EmptyGroup, s, sql)
    BY EmptyIsTidy DEF EmptyGroup, AddSqlTab
  <2> QED
    BY <1>1, <1>2, <2>1, AddedTab
<1> HIDE DEF g
<1>4. SqlTabs[2] # s /\ 2 \in 1..Len(SqlTabs) /\ 1 \in 1..Len(SqlTabs)
  BY EditorConstants, Ids DEF IsInjective
<1>5. \A t : Contains(g.tabs, t) <=> t = s
  <2>1. g.tabs = <<s>>
    BY <1>3, <1>1
  <2> QED
    BY <2>1 DEF Contains
<1>6. HasRoom(g)
  <2> DEFINE Free == {i \in 1..Len(SqlTabs) : ~Contains(g.tabs, SqlTabs[i])}
  <2>1. NewTabId(g) = IF Free # {} THEN Min(Free) ELSE 0
    BY DEF NewTabId, SelectInSeq
  <2>2. 2 \in Free /\ Free \in SUBSET Nat
    BY <1>4, <1>5, Ids
  <2>3. Min(Free) \in Free
    BY <2>2, LeastIsThere
  <2> HIDE DEF Free
  <2>4. Free \subseteq 1..Len(SqlTabs)
    BY DEF Free
  <2> QED
    BY <2>1, <2>2, <2>3, <2>4, Ids DEF HasRoom
<1> DEFINE n == SqlTabs[NewTabId(g)]
<1>7. n \in Tabs /\ ~Contains(g.tabs, n) /\ n # s
  BY <1>5, <1>6, NewTabIdIsNew
<1>8. g \in TidyGroups /\ h = AddTab(g, n, BlankText)
  BY <1>3 DEF SoundGroups, AddSqlTab
<1> HIDE DEF n
<1>9. /\ h \in SoundGroups /\ h.tabs = Append(g.tabs, n)
      /\ h.text = [g.text EXCEPT ![n] = BlankText] /\ h.open = g.open \cup {n}
  <2>1. h.open = g.open \cup {n}
    BY <1>8 DEF AddTab
  <2> HIDE DEF h
  <2>2. BlankText \in Texts
    BY Ids
  <2> QED
    BY <1>7, <1>8, <2>1, <2>2, AddedTab
<1>10. g.open = {} \cup {s}
  BY EmptyIsTidy DEF g, AddSqlTab, AddTab, EmptyGroup
<1> HIDE DEF h
<1>11. SampleGroup(sql) = [h EXCEPT !.active = s]
  BY DEF SampleGroup, g, h
<1>12. h \in GroupType
  BY <1>9 DEF SoundGroups, TidyGroups
<1> DEFINE r == [h EXCEPT !.active = s]
<1>13. r \in GroupType /\ r.tabs = h.tabs /\ r.open = h.open /\ r.text = h.text /\ r.active = s
  BY <1>1, <1>12 DEF GroupType
<1> HIDE DEF r
<1>14. IsInjective(h.tabs) /\ h.open \subseteq Range(h.tabs) /\ ParksNothing(h) /\ h.tabs # <<>>
  BY <1>9 DEF SoundGroups, TidyGroups, ShowsAnOpenTab
<1>15. ShowsAnOpenTab(r)
  BY <1>9, <1>10, <1>13, <1>14 DEF ShowsAnOpenTab
<1>16. ParksNothing(r)
  BY <1>13, <1>14 DEF ParksNothing
<1>17. r \in SoundGroups /\ r.open # {}
  BY <1>13, <1>14, <1>15, <1>16, <1>9, <1>10 DEF SoundGroups, TidyGroups
<1>18. ASSUME NEW t \in Tabs \cup {NoTab}, t # s PROVE r.text[t] = BlankText
  <2>1. EmptyGroup.text[t] = BlankText /\ EmptyGroup.text = [u \in Tabs \cup {NoTab} |-> BlankText]
    BY DEF EmptyGroup
  <2> QED
    BY <1>3, <1>9, <1>13, <1>18, <2>1
<1> QED
  BY <1>11, <1>13, <1>17, <1>18 DEF r

-----------------------------------------------------------------------------
(* Every operation on a group takes a sound one to a sound one.            *)

\* What is known of a sound group.
LEMMA GroupFields ==
    ASSUME NEW g \in SoundGroups
    PROVE  /\ g \in GroupType /\ g \in TidyGroups
           /\ g.tabs \in Seq(Tabs) /\ g.tabs # <<>> /\ IsInjective(g.tabs)
           /\ DOMAIN g.tabs = 1..Len(g.tabs) /\ Len(g.tabs) \in Nat
           /\ g.open \subseteq Range(g.tabs) /\ g.open \subseteq Tabs /\ Range(g.tabs) \subseteq Tabs
           /\ g.active \in Tabs \cup {NoTab} /\ g.text \in [Tabs \cup {NoTab} -> Texts]
           /\ ShowsAnOpenTab(g) /\ ParksNothing(g)
<1>1. g \in GroupType /\ g \in TidyGroups /\ g.tabs # <<>> /\ IsInjective(g.tabs)
      /\ ShowsAnOpenTab(g) /\ ParksNothing(g)
  BY DEF SoundGroups, TidyGroups
<1>2. /\ g.tabs \in Seq(Tabs) /\ g.open \subseteq Tabs
      /\ g.active \in Tabs \cup {NoTab} /\ g.text \in [Tabs \cup {NoTab} -> Texts]
  BY <1>1 DEF GroupType
<1>3. Range(g.tabs) \subseteq Tabs
  BY <1>2 DEF Range
<1> QED
  BY <1>1, <1>2, <1>3 DEF ShowsAnOpenTab

\* A group of which other tabs are open, or another tab is active.
LEMMA Reopened ==
    ASSUME NEW g \in SoundGroups, NEW open \in SUBSET Range(g.tabs), NEW active,
           active \in open \/ (active = NoTab /\ open = {})
    PROVE  [g EXCEPT !.open = open, !.active = active] \in SoundGroups
<1> DEFINE h == [g EXCEPT !.open = open, !.active = active]
<1>1. open \in SUBSET Tabs /\ active \in Tabs \cup {NoTab}
  BY GroupFields
<1>2. g \in GroupType
  BY GroupFields
<1>3. h \in GroupType /\ h.tabs = g.tabs /\ h.text = g.text /\ h.open = open /\ h.active = active
  BY <1>1, <1>2 DEF GroupType
<1> HIDE DEF h
<1>4. ShowsAnOpenTab(h)
  BY <1>3 DEF ShowsAnOpenTab
<1>5. ParksNothing(h)
  BY <1>3, GroupFields DEF ParksNothing
<1>6. h \in SoundGroups
  BY <1>3, <1>4, <1>5, GroupFields DEF SoundGroups, TidyGroups
<1> QED
  BY <1>6 DEF h

\* A group in which the text of one of its tabs is another.
LEMMA Rewritten ==
    ASSUME NEW g \in SoundGroups, NEW t \in Range(g.tabs), NEW sql \in Texts
    PROVE  [g EXCEPT !.text[t] = sql] \in SoundGroups
<1> DEFINE h == [g EXCEPT !.text[t] = sql]
<1>1. g \in GroupType /\ t \in Tabs
  BY GroupFields
<1>2. h \in GroupType /\ h.tabs = g.tabs /\ h.open = g.open /\ h.active = g.active
      /\ h.text = [g.text EXCEPT ![t] = sql]
  BY <1>1 DEF GroupType
<1> HIDE DEF h
<1>3. ShowsAnOpenTab(h)
  BY <1>2, GroupFields DEF ShowsAnOpenTab
<1>4. Contains(g.tabs, t)
  BY <1>1, ATabOfIts
<1>5. ParksNothing(h)
  BY <1>2, <1>4, GroupFields DEF ParksNothing
<1>6. h \in SoundGroups
  BY <1>2, <1>3, <1>5, GroupFields DEF SoundGroups, TidyGroups
<1> QED
  BY <1>6 DEF h

\* Selecting a tab (selectEditorTabInGroup).
LEMMA SelectedTab ==
    ASSUME NEW g \in SoundGroups, NEW t
    PROVE  /\ SelectTab(g, t) \in SoundGroups
           /\ SelectTab(g, t).text = g.text
<1>1. CASE t \in g.open
  <2>1. SelectTab(g, t) = [g EXCEPT !.open = g.open, !.active = t]
    <3>1. g \in GroupType
      BY GroupFields
    <3>2. [g EXCEPT !.active = t] = [g EXCEPT !.open = g.open, !.active = t]
      BY <3>1 DEF GroupType
    <3> QED
      BY <1>1, <3>2 DEF SelectTab
  <2>2. g.open \in SUBSET Range(g.tabs)
    BY GroupFields
  <2>3. [g EXCEPT !.open = g.open, !.active = t] \in SoundGroups
    BY <1>1, <2>2, Reopened
  <2> QED
    BY <2>1, <2>3, <1>1 DEF SelectTab
<1>2. CASE t \notin g.open
  BY <1>2 DEF SelectTab
<1> QED
  BY <1>1, <1>2

\* Opening a table: a closed tab of it is loaded anew (showTableTabInEditorGroup).
LEMMA ShownTable ==
    ASSUME NEW g \in SoundGroups, NEW t \in TableTabs
    PROVE  /\ ShowTableTab(g, t) \in SoundGroups
           /\ \A u \in Range(g.tabs) : ShowTableTab(g, t).text[u] # g.text[u] =>
                u = t /\ t \notin g.open /\ ShowTableTab(g, t).active = t
<1>1. t \in Tabs /\ Preview \in Texts
  BY Ids
<1>2. CASE t \in g.open
  <2>1. ShowTableTab(g, t) = SelectTab(g, t)
    BY <1>2 DEF ShowTableTab, SelectTab
  <2> QED
    BY <2>1, SelectedTab
<1>3. CASE t \notin g.open /\ Contains(g.tabs, t)
  <2> DEFINE h == [g EXCEPT !.open = g.open \cup {t}, !.active = t]
             r == [h EXCEPT !.text[t] = Preview]
  <2>1. t \in Range(g.tabs) /\ g.open \cup {t} \in SUBSET Range(g.tabs)
    BY <1>3, GroupFields, ATabOfIts
  <2>2. h \in SoundGroups
    BY <2>1, Reopened
  <2>3. g \in GroupType
    BY GroupFields
  <2>4. h.tabs = g.tabs /\ h.text = g.text /\ h.active = t
    BY <2>3 DEF GroupType
  <2>5. ShowTableTab(g, t) = r
    BY <1>3, <2>3 DEF ShowTableTab, GroupType
  <2> HIDE DEF h
  <2>6. r \in SoundGroups
    BY <1>1, <2>1, <2>2, <2>4, Rewritten
  <2>7. h \in GroupType
    BY <2>2, GroupFields
  <2>8. r.text = [h.text EXCEPT ![t] = Preview] /\ r.active = t
    BY <2>4, <2>7 DEF GroupType
  <2>9. g.text \in [Tabs \cup {NoTab} -> Texts] /\ Range(g.tabs) \subseteq Tabs
    BY GroupFields
  <2> HIDE DEF r
  <2> QED
    BY <1>3, <2>4, <2>5, <2>6, <2>8, <2>9
<1>4. CASE t \notin g.open /\ ~Contains(g.tabs, t)
  <2>1. ShowTableTab(g, t) = AddTab(g, t, Preview)
    BY <1>4 DEF ShowTableTab
  <2>2. g \in TidyGroups
    BY GroupFields
  <2>3. AddTab(g, t, Preview) \in SoundGroups /\ AddTab(g, t, Preview).text = [g.text EXCEPT ![t] = Preview]
    BY <1>1, <1>4, <2>2, AddedTab
  <2>4. t \notin Range(g.tabs)
    BY <1>4, GroupFields, ATabOfIts
  <2>5. g.text \in [Tabs \cup {NoTab} -> Texts] /\ Range(g.tabs) \subseteq Tabs
    BY GroupFields
  <2> QED
    BY <2>1, <2>3, <2>4, <2>5
<1> QED
  BY <1>2, <1>3, <1>4

\* The tab beside an open one is another open one, and there is none only when no
\* other is open.
LEMMA NeighbourIsOpen ==
    ASSUME NEW g \in SoundGroups, NEW t \in g.open
    PROVE  \/ Neighbour(g, t) \in g.open \ {t}
           \/ Neighbour(g, t) = NoTab /\ g.open = {t}
<1> DEFINE place  == CHOOSE i \in DOMAIN g.tabs : g.tabs[i] = t
           shown  == {i \in DOMAIN g.tabs : g.tabs[i] \in g.open}
           after  == {i \in shown : i > place}
           before == {i \in shown : i < place}
<1>1. t \in Range(g.tabs) /\ g.tabs \in Seq(Tabs) /\ DOMAIN g.tabs = 1..Len(g.tabs) /\ Len(g.tabs) \in Nat
  BY GroupFields
<1>2. place \in DOMAIN g.tabs /\ g.tabs[place] = t
  BY <1>1 DEF Range
<1>3. Neighbour(g, t) = IF after # {} THEN g.tabs[Min(after)]
                        ELSE IF before # {} THEN g.tabs[Max(before)] ELSE NoTab
  BY DEF Neighbour
<1>4. IsInjective(g.tabs) /\ g.open \subseteq Range(g.tabs)
  BY GroupFields
<1> HIDE DEF place
<1>5. \A i \in shown : i # place => g.tabs[i] \in g.open \ {t}
  BY <1>2, <1>4 DEF IsInjective
<1>6. after \in SUBSET Nat /\ before \in SUBSET (1..Len(g.tabs))
  BY <1>1
<1>7. CASE after # {}
  <2>1. Min(after) \in after
    BY <1>6, <1>7, LeastIsThere
  <2>2. Min(after) \in shown /\ Min(after) # place
    BY <1>1, <1>2, <2>1
  <2> QED
    BY <1>3, <1>5, <1>7, <2>2
<1>8. CASE after = {} /\ before # {}
  <2>1. Max(before) \in before
    BY <1>1, <1>6, <1>8, GreatestIsThere
  <2>2. Max(before) \in shown /\ Max(before) # place
    BY <1>1, <1>2, <2>1
  <2> QED
    BY <1>3, <1>5, <1>8, <2>2
<1>9. CASE after = {} /\ before = {}
  <2>1. \A i \in shown : i = place
    BY <1>1, <1>2, <1>9
  <2>2. ASSUME NEW u \in g.open PROVE u = t
    <3>1. PICK i \in DOMAIN g.tabs : g.tabs[i] = u
      BY <1>4 DEF Range
    <3> QED
      BY <1>2, <2>1, <3>1
  <2> QED
    BY <1>3, <1>9, <2>2
<1> QED
  BY <1>7, <1>8, <1>9

\* Closing a tab (closeSqlTabInEditorGroup).
LEMMA ClosedTab ==
    ASSUME NEW g \in SoundGroups, NEW t \in g.open
    PROVE  CloseTab(g, t) \in SoundGroups /\ CloseTab(g, t).text = g.text
<1> DEFINE a == IF g.active = t THEN Neighbour(g, t) ELSE g.active
<1>1. g \in GroupType /\ g.open \ {t} \in SUBSET Range(g.tabs)
  BY GroupFields
<1>2. CloseTab(g, t) = [g EXCEPT !.open = g.open \ {t}, !.active = a]
  BY <1>1 DEF CloseTab, GroupType
<1>3. a \in g.open \ {t} \/ (a = NoTab /\ g.open \ {t} = {})
  <2>1. CASE g.active = t
    BY <2>1, NeighbourIsOpen
  <2>2. CASE g.active # t
    BY <2>2, GroupFields DEF ShowsAnOpenTab
  <2> QED
    BY <2>1, <2>2
<1> HIDE DEF a
<1>4. [g EXCEPT !.open = g.open \ {t}, !.active = a] \in SoundGroups
  BY <1>1, <1>3, Reopened
<1> QED
  BY <1>1, <1>2, <1>4 DEF GroupType

\* Closing all tabs but one (closeOtherSqlTabsInEditorGroup).
LEMMA ClosedOthers ==
    ASSUME NEW g \in SoundGroups, NEW t
    PROVE  CloseOtherTabs(g, t) \in SoundGroups /\ CloseOtherTabs(g, t).text = g.text
<1>1. CASE t \in g.open
  <2>1. CloseOtherTabs(g, t) = [g EXCEPT !.open = {t}, !.active = t]
    BY <1>1 DEF CloseOtherTabs
  <2>2. {t} \in SUBSET Range(g.tabs) /\ g \in GroupType
    BY <1>1, GroupFields
  <2>3. [g EXCEPT !.open = {t}, !.active = t] \in SoundGroups
    BY <2>2, Reopened
  <2> QED
    BY <2>1, <2>2, <2>3 DEF GroupType
<1>2. CASE t \notin g.open
  BY <1>2 DEF CloseOtherTabs
<1> QED
  BY <1>1, <1>2

\* Reopening the first closed tab (reopenSqlTabInEditorGroup).
LEMMA ReopenedTab ==
    ASSUME NEW g \in SoundGroups, ClosedTabs(g) # {}
    PROVE  ReopenTab(g) \in SoundGroups /\ ReopenTab(g).text = g.text
<1> DEFINE t == g.tabs[Min(ClosedTabs(g))]
<1>1. ClosedTabs(g) \in SUBSET Nat /\ ClosedTabs(g) \subseteq DOMAIN g.tabs
  BY GroupFields DEF ClosedTabs
<1>2. Min(ClosedTabs(g)) \in DOMAIN g.tabs
  BY <1>1, LeastIsThere
<1>3. t \in Range(g.tabs)
  BY <1>2 DEF Range
<1>4. g \in GroupType /\ g.open \cup {t} \in SUBSET Range(g.tabs)
  BY <1>3, GroupFields
<1>5. ReopenTab(g) = [g EXCEPT !.open = g.open \cup {t}, !.active = t]
  BY <1>4 DEF ReopenTab, GroupType
<1> HIDE DEF t
<1>6. [g EXCEPT !.open = g.open \cup {t}, !.active = t] \in SoundGroups
  BY <1>4, Reopened
<1> QED
  BY <1>4, <1>5, <1>6 DEF GroupType

\* Writing a text: into the active tab, or into a new one when none is open
\* (setEditorGroupQuery).
LEMMA TextSet ==
    ASSUME NEW g \in SoundGroups, CanHold(g), NEW sql \in Texts
    PROVE  /\ SetText(g, sql) \in SoundGroups
           /\ \A u \in Range(g.tabs) : SetText(g, sql).text[u] # g.text[u] => u = g.active
<1>1. CASE g.active = NoTab
  <2>1. HasRoom(g) /\ SetText(g, sql) = AddSqlTab(g, sql)
    BY <1>1 DEF CanHold, SetText
  <2>2. g \in TidyGroups
    BY GroupFields
  <2> QED
    BY <2>1, <2>2, AddedSqlTab
<1>2. CASE g.active # NoTab
  <2>1. g.active \in Range(g.tabs) /\ g \in GroupType
    BY <1>2, GroupFields DEF ShowsAnOpenTab
  <2>2. SetText(g, sql) = [g EXCEPT !.text[g.active] = sql]
    BY <1>2 DEF SetText
  <2>3. [g EXCEPT !.text[g.active] = sql] \in SoundGroups
    BY <2>1, Rewritten
  <2>4. [g EXCEPT !.text[g.active] = sql].text = [g.text EXCEPT ![g.active] = sql]
    BY <2>1 DEF GroupType
  <2>5. g.text \in [Tabs \cup {NoTab} -> Texts] /\ Range(g.tabs) \subseteq Tabs
    BY GroupFields
  <2> QED
    BY <2>2, <2>3, <2>4, <2>5
<1> QED
  BY <1>1, <1>2

\* Reading a sound group back from storage changes nothing.
LEMMA RevivedGroup ==
    ASSUME NEW g \in SoundGroups
    PROVE  ReviveGroup(g) = g
<1>1. g.open \cap Range(g.tabs) = g.open /\ g \in GroupType /\ ShowsAnOpenTab(g)
  BY GroupFields
<1>2. g.active \notin g.open => g.open = {} /\ g.active = NoTab
  BY <1>1 DEF ShowsAnOpenTab
<1>3. ReviveGroup(g) = [g EXCEPT !.open = g.open, !.active = g.active]
  <2>1. g.active \in g.open => ReviveGroup(g) = [g EXCEPT !.open = g.open, !.active = g.active]
    BY <1>1 DEF ReviveGroup, GroupType
  <2>2. g.active \notin g.open => ReviveGroup(g) = [g EXCEPT !.open = g.open, !.active = g.active]
    BY <1>1, <1>2 DEF ReviveGroup, GroupType
  <2> QED
    BY <2>1, <2>2
<1> QED
  BY <1>1, <1>3 DEF GroupType

\* So reading back what was stored gives what was stored (loadPersistedWorkspaces).
LEMMA LoadedAsStored ==
    ASSUME NEW map \in [WorkspaceIds -> Held]
    PROVE  LoadWorkspaces(map) = map
<1>1. ASSUME NEW w \in SoundWorkspaces
      PROVE  w.primary \in SoundGroups /\ w.secondary \in SoundGroups /\ w.secondary.open # {}
             /\ w = [primary |-> w.primary, secondary |-> w.secondary]
  BY DEF SoundWorkspaces
<1>2. ASSUME NEW w \in SoundWorkspaces PROVE Revive(w) = w \/ w = NoWorkspace
  <2>1. w.primary.tabs # <<>> /\ w.secondary.tabs # <<>>
    BY <1>1, GroupFields
  <2>2. ReviveGroup(w.primary) = w.primary /\ ReviveGroup(w.secondary) = w.secondary
    BY <1>1, RevivedGroup
  <2>3. w # NoWorkspace => Revive(w) = [primary |-> w.primary, secondary |-> w.secondary]
    BY <2>1, <2>2 DEF Revive
  <2> QED
    BY <1>1, <2>3
<1>3. Revive(NoWorkspace) = NoWorkspace
  BY DEF Revive
<1>4. ASSUME NEW w \in SoundWorkspaces PROVE ~IsBlankWorkspace(w)
  BY <1>1 DEF IsBlankWorkspace, HoldsNothing
<1>5. ASSUME NEW c \in WorkspaceIds PROVE LoadWorkspaces(map)[c] = map[c]
  <2>1. map[c] \in SoundWorkspaces \/ map[c] = NoWorkspace
    BY DEF Held
  <2>2. Revive(map[c]) = map[c]
    BY <1>2, <1>3, <2>1
  <2>3. map[c] # NoWorkspace => ~IsBlankWorkspace(map[c])
    BY <1>4, <2>1
  <2> QED
    BY <2>2, <2>3 DEF LoadWorkspaces
<1>6. LoadWorkspaces(map) = [c \in WorkspaceIds |-> LoadWorkspaces(map)[c]]
  BY DEF LoadWorkspaces
<1> QED
  BY <1>5, <1>6

-----------------------------------------------------------------------------
(* Workspaces.                                                             *)

\* The workspaces a window begins with are sound.
LEMMA NewWorkspaces ==
    /\ BlankWorkspace \in SoundWorkspaces /\ FirstRun \in SoundWorkspaces
    /\ NoWorkspace \notin SoundWorkspaces
<1>1. BlankWorkspace \in SoundWorkspaces
  BY BlankGroupIsSound DEF BlankWorkspace, SoundWorkspaces
<1>2. SampleGroup(SampleSql) \in SoundGroups /\ SampleGroup(BlankText) \in SoundGroups
      /\ SampleGroup(BlankText).open # {}
  BY SampleGroupIsSound, Ids
<1>3. FirstRun \in SoundWorkspaces
  BY <1>2 DEF FirstRun, SoundWorkspaces
<1>4. NoWorkspace \notin SoundWorkspaces
  <2>1. "primary" \notin DOMAIN NoWorkspace
    BY DEF NoWorkspace
  <2>2. \A w \in SoundWorkspaces : "primary" \in DOMAIN w
    BY DEF SoundWorkspaces
  <2> QED
    BY <2>1, <2>2
<1> QED
  BY <1>1, <1>3, <1>4

\* The workspace shown for a connection is sound.
LEMMA StatesAreSound ==
    ASSUME NEW all \in [WorkspaceIds -> Held], NEW cached \in [WorkspaceIds -> Held],
           NEW pending \in {NoWorkspace, FirstRun}, NEW c \in WorkspaceIds
    PROVE  /\ States(all, cached, pending, c) \in SoundWorkspaces
           /\ States(all, cached, pending, c).primary \in SoundGroups
<1>1. all[c] \in Held /\ cached[c] \in Held
  OBVIOUS
<1>2. States(all, cached, pending, c) \in SoundWorkspaces
  BY <1>1, NewWorkspaces DEF States, Held
<1> QED
  BY <1>2 DEF SoundWorkspaces

\* So is the group in it that the operations work on.
LEMMA GroupsAreSound ==
    ASSUME EditorIInv, NEW c \in WorkspaceIds
    PROVE  Group(c) \in SoundGroups /\ Shown \in SoundGroups
<1>1. activeConnection \in WorkspaceIds
  BY DEF EditorIInv, EditorTyped
<1> QED
  BY <1>1, StatesAreSound DEF EditorIInv, WorkspacesInv, Group, Shown

\* What a group's change leaves of the workspaces.
LEMMA PutStep ==
    ASSUME EditorIInv, NEW c \in WorkspaceIds, NEW g \in SoundGroups, Put(c, g)
    PROVE  /\ workspaces' \in [WorkspaceIds -> Held]
           /\ workspaces'[c] \in SoundWorkspaces /\ workspaces'[c].primary = g
           /\ \A d \in WorkspaceIds : d # c => workspaces'[d] = workspaces[d]
           /\ edits' \in 0..MaxEdits /\ timer' = TRUE
<1> DEFINE w == States(workspaces, blanks, seed, c)
           v == [w EXCEPT !.primary = g]
<1>1. workspaces \in [WorkspaceIds -> Held]
  BY DEF EditorIInv, WorkspacesInv
<1>2. w \in SoundWorkspaces
  BY StatesAreSound DEF EditorIInv, WorkspacesInv
<1>3. workspaces' = [workspaces EXCEPT ![c] = v] /\ timer' = TRUE
  BY DEF Put
<1>4. edits' \in 0..MaxEdits
  BY EditorConstants DEF Put, EditorIInv, EditorTyped
<1> HIDE DEF w
<1>5. v \in SoundWorkspaces /\ v.primary = g
  BY <1>2 DEF SoundWorkspaces
<1> HIDE DEF v
<1> QED
  BY <1>1, <1>3, <1>4, <1>5 DEF Held

\* Showing a workspace remembers it, and takes the seed once.
LEMMA ShowsStep ==
    ASSUME NEW all \in [WorkspaceIds -> Held], NEW cached \in [WorkspaceIds -> Held],
           NEW pending \in {NoWorkspace, FirstRun}, NEW took, NEW c \in WorkspaceIds,
           pending # NoWorkspace => took = {},
           took = {} \/ \E d \in WorkspaceIds : took = {d},
           Shows(c, all, cached, pending, took)
    PROVE  /\ blanks' \in [WorkspaceIds -> Held] /\ seed' \in {NoWorkspace, FirstRun}
           /\ SeedInv'
<1>1. CASE Adopts(all, cached, c)
  <2>1. /\ blanks' = [cached EXCEPT ![c] = States(all, cached, pending, c)]
        /\ seed' = NoWorkspace
        /\ adopters' = IF pending # NoWorkspace THEN took \cup {c} ELSE took
    BY <1>1 DEF Shows
  <2>2. States(all, cached, pending, c) \in Held
    BY StatesAreSound DEF Held
  <2>3. blanks' \in [WorkspaceIds -> Held]
    BY <2>1, <2>2
  <2>4. adopters' = {} \/ \E d \in WorkspaceIds : adopters' = {d}
    BY <2>1
  <2> QED
    BY <2>1, <2>3, <2>4 DEF SeedInv
<1>2. CASE ~Adopts(all, cached, c)
  BY <1>2 DEF Shows, SeedInv
<1> QED
  BY <1>1, <1>2

\* The invariant holds when the window opens.
LEMMA EditorInitially == EditorInit => EditorIInv
<1> SUFFICES ASSUME EditorInit PROVE EditorIInv
  OBVIOUS
<1>1. EditorTyped
  BY EditorConstants DEF EditorInit, EditorTyped, WorkspaceIds
<1>2. WorkspacesInv
  BY NewWorkspaces DEF EditorInit, WorkspacesInv, Held
<1>3. SeedInv
  BY DEF EditorInit, SeedInv, WorkspaceIds
<1>4. IdleStored
  BY DEF EditorInit, IdleStored
<1> QED
  BY <1>1, <1>2, <1>3, <1>4 DEF EditorIInv

\* Putting a sound group in the workspace shown keeps it.
LEMMA UpdateStep ==
    ASSUME EditorIInv, NEW g \in SoundGroups, Update(g)
    PROVE  EditorIInv'
<1>1. activeConnection \in WorkspaceIds /\ Put(activeConnection, g)
  BY DEF Update, EditorIInv, EditorTyped
<1>2. workspaces' \in [WorkspaceIds -> Held] /\ edits' \in 0..MaxEdits /\ timer' = TRUE
  BY <1>1, PutStep
<1>3. EditorTyped'
  BY <1>2 DEF Update, EditorIInv, EditorTyped
<1>4. WorkspacesInv'
  BY <1>2 DEF Update, EditorIInv, WorkspacesInv
<1>5. SeedInv'
  BY DEF Update, EditorIInv, SeedInv
<1>6. IdleStored'
  BY <1>2 DEF IdleStored
<1> QED
  BY <1>3, <1>4, <1>5, <1>6 DEF EditorIInv

\* What the user does to the group shown.
GroupSteps ==
    \/ \E sql \in SQL : SetQuery(sql) \/ NewTab(sql)
    \/ NewTab(BlankText) \/ Reopen
    \/ \E t \in Tabs : Select(t) \/ Close(t) \/ CloseOthers(t) \/ Duplicate(t)
    \/ \E t \in TableTabs : OpenTable(t)
    \/ \E t \in Tabs, sql \in SQL : ReplaceIn(t, sql)

\* Each of them puts a sound group in place of a sound group, and changes the text of
\* no tab but the active one, the table tab it opens, or the one a search replaces in.
LEMMA GroupStep ==
    ASSUME EditorIInv, GroupSteps
    PROVE  \E g \in SoundGroups :
               /\ Update(g)
               /\ \A t \in Range(Shown.tabs) : g.text[t] # Shown.text[t] =>
                    \/ t = Shown.active
                    \/ t \in TableTabs \ Shown.open /\ g.active = t
                    \/ \E sql \in SQL : ReplaceIn(t, sql)
<1>1. activeConnection \in WorkspaceIds
  BY DEF EditorIInv, EditorTyped
<1>2. Shown \in SoundGroups /\ Shown \in TidyGroups
  BY <1>1, GroupsAreSound, GroupFields
<1>3. ASSUME NEW sql \in SQL \cup {BlankText}, NewTab(sql)
      PROVE  AddSqlTab(Shown, sql) \in SoundGroups /\ Update(AddSqlTab(Shown, sql))
             /\ \A t \in Range(Shown.tabs) : AddSqlTab(Shown, sql).text[t] = Shown.text[t]
  <2>1. HasRoom(Shown) /\ sql \in Texts /\ Update(AddSqlTab(Shown, sql))
    BY <1>3, Ids DEF NewTab
  <2> QED
    BY <1>2, <2>1, AddedSqlTab
<1>4. ASSUME NEW sql \in SQL, SetQuery(sql)
      PROVE  SetText(Shown, sql) \in SoundGroups /\ Update(SetText(Shown, sql))
             /\ \A t \in Range(Shown.tabs) : SetText(Shown, sql).text[t] # Shown.text[t] => t = Shown.active
  <2>1. CanHold(Shown) /\ sql \in Texts /\ Update(SetText(Shown, sql))
    BY <1>4, Ids DEF SetQuery
  <2> QED
    BY <1>2, <2>1, TextSet
<1>5. ASSUME Reopen
      PROVE  ReopenTab(Shown) \in SoundGroups /\ Update(ReopenTab(Shown)) /\ ReopenTab(Shown).text = Shown.text
  BY <1>2, <1>5, ReopenedTab DEF Reopen
<1>6. ASSUME NEW t \in Tabs, Select(t)
      PROVE  SelectTab(Shown, t) \in SoundGroups /\ Update(SelectTab(Shown, t)) /\ SelectTab(Shown, t).text = Shown.text
  BY <1>2, <1>6, SelectedTab DEF Select
<1>7. ASSUME NEW t \in Tabs, Close(t)
      PROVE  CloseTab(Shown, t) \in SoundGroups /\ Update(CloseTab(Shown, t)) /\ CloseTab(Shown, t).text = Shown.text
  BY <1>2, <1>7, ClosedTab DEF Close
<1>8. ASSUME NEW t \in Tabs, CloseOthers(t)
      PROVE  CloseOtherTabs(Shown, t) \in SoundGroups /\ Update(CloseOtherTabs(Shown, t))
             /\ CloseOtherTabs(Shown, t).text = Shown.text
  BY <1>2, <1>8, ClosedOthers DEF CloseOthers
<1>9. ASSUME NEW t \in Tabs, Duplicate(t)
      PROVE  /\ AddSqlTab(Shown, Shown.text[t]) \in SoundGroups /\ Update(AddSqlTab(Shown, Shown.text[t]))
             /\ \A u \in Range(Shown.tabs) : AddSqlTab(Shown, Shown.text[t]).text[u] = Shown.text[u]
  <2>1. HasRoom(Shown) /\ Update(AddSqlTab(Shown, Shown.text[t]))
    BY <1>9 DEF Duplicate
  <2>2. Shown.text[t] \in Texts
    BY <1>2, GroupFields
  <2> QED
    BY <1>2, <2>1, <2>2, AddedSqlTab
<1>10. ASSUME NEW t \in TableTabs, OpenTable(t)
       PROVE  /\ ShowTableTab(Shown, t) \in SoundGroups /\ Update(ShowTableTab(Shown, t))
              /\ \A u \in Range(Shown.tabs) : ShowTableTab(Shown, t).text[u] # Shown.text[u] =>
                    u = t /\ t \notin Shown.open /\ ShowTableTab(Shown, t).active = t
  BY <1>2, <1>10, ShownTable DEF OpenTable
<1>11. ASSUME NEW t \in Tabs, NEW sql \in SQL, ReplaceIn(t, sql)
       PROVE  /\ [Shown EXCEPT !.text[t] = sql] \in SoundGroups /\ Update([Shown EXCEPT !.text[t] = sql])
              /\ \A u \in Range(Shown.tabs) : [Shown EXCEPT !.text[t] = sql].text[u] # Shown.text[u] => u = t
  <2>1. t \in Shown.open /\ Update([Shown EXCEPT !.text[t] = sql]) /\ sql \in Texts
    BY <1>11, Ids DEF ReplaceIn
  <2>2. t \in Range(Shown.tabs) /\ Shown \in GroupType /\ Range(Shown.tabs) \subseteq Tabs
    BY <1>2, <2>1, GroupFields
  <2>3. [Shown EXCEPT !.text[t] = sql] \in SoundGroups
    BY <1>2, <2>1, <2>2, Rewritten
  <2>4. [Shown EXCEPT !.text[t] = sql].text = [Shown.text EXCEPT ![t] = sql]
    BY <2>2 DEF GroupType
  <2>5. Shown.text \in [Tabs \cup {NoTab} -> Texts]
    BY <2>2 DEF GroupType
  <2> QED
    BY <2>1, <2>2, <2>3, <2>4, <2>5
<1> DEFINE Good(g) ==
        /\ g \in SoundGroups /\ Update(g)
        /\ \A t \in Range(Shown.tabs) : g.text[t] # Shown.text[t] =>
             \/ t = Shown.active
             \/ t \in TableTabs \ Shown.open /\ g.active = t
             \/ \E sql \in SQL : ReplaceIn(t, sql)
<1>12. ASSUME NEW sql \in SQL, SetQuery(sql) PROVE Good(SetText(Shown, sql))
  BY <1>4, <1>12
<1>13. ASSUME NEW sql \in SQL \cup {BlankText}, NewTab(sql) PROVE Good(AddSqlTab(Shown, sql))
  BY <1>3, <1>13
<1>14. ASSUME Reopen PROVE Good(ReopenTab(Shown))
  BY <1>5, <1>14
<1>15. ASSUME NEW t \in Tabs, Select(t) PROVE Good(SelectTab(Shown, t))
  BY <1>6, <1>15
<1>16. ASSUME NEW t \in Tabs, Close(t) PROVE Good(CloseTab(Shown, t))
  BY <1>7, <1>16
<1>17. ASSUME NEW t \in Tabs, CloseOthers(t) PROVE Good(CloseOtherTabs(Shown, t))
  BY <1>8, <1>17
<1>18. ASSUME NEW t \in Tabs, Duplicate(t) PROVE Good(AddSqlTab(Shown, Shown.text[t]))
  BY <1>9, <1>18
<1>19. ASSUME NEW t \in TableTabs, OpenTable(t) PROVE Good(ShowTableTab(Shown, t))
  BY <1>10, <1>19
<1>20. ASSUME NEW t \in Tabs, NEW sql \in SQL, ReplaceIn(t, sql)
       PROVE  Good([Shown EXCEPT !.text[t] = sql])
  BY <1>11, <1>20
<1> HIDE DEF Good
<1>21. \E g : Good(g)
  BY <1>12, <1>13, <1>14, <1>15, <1>16, <1>17, <1>18, <1>19, <1>20 DEF GroupSteps
<1> QED
  BY <1>21 DEF Good

\* So does switching to another connection.
LEMMA SwitchStep ==
    ASSUME EditorIInv, NEW c \in WorkspaceIds, SwitchConnection(c)
    PROVE  EditorIInv'
<1>1. blanks' \in [WorkspaceIds -> Held] /\ seed' \in {NoWorkspace, FirstRun} /\ SeedInv'
  BY ShowsStep DEF SwitchConnection, EditorIInv, WorkspacesInv, SeedInv
<1>2. EditorTyped'
  BY DEF SwitchConnection, EditorIInv, EditorTyped
<1>3. WorkspacesInv'
  BY <1>1 DEF SwitchConnection, EditorIInv, WorkspacesInv
<1>4. IdleStored'
  BY DEF SwitchConnection, EditorIInv, IdleStored
<1> QED
  BY <1>1, <1>2, <1>3, <1>4 DEF EditorIInv

\* And loading an item of the history, into the workspace left (loadHistoryItem).
LEMMA LoadStep ==
    ASSUME EditorIInv, NEW c \in Profiles, NEW sql \in SQL, LoadHistoryItem(c, sql)
    PROVE  EditorIInv'
<1>1. activeConnection \in WorkspaceIds /\ c \in WorkspaceIds
  BY DEF EditorIInv, EditorTyped, WorkspaceIds
<1>2. Shown \in SoundGroups /\ sql \in Texts /\ CanHold(Shown) /\ Put(activeConnection, SetText(Shown, sql))
  BY <1>1, GroupsAreSound, Ids DEF LoadHistoryItem
<1>3. SetText(Shown, sql) \in SoundGroups
  BY <1>2, TextSet
<1>4. workspaces' \in [WorkspaceIds -> Held] /\ edits' \in 0..MaxEdits /\ timer' = TRUE
  BY <1>1, <1>2, <1>3, PutStep
<1>5. Shows(c, workspaces', blanks, seed, adopters)
  BY DEF LoadHistoryItem
<1>6. blanks' \in [WorkspaceIds -> Held] /\ seed' \in {NoWorkspace, FirstRun} /\ SeedInv'
  BY <1>1, <1>4, <1>5, ShowsStep DEF EditorIInv, WorkspacesInv, SeedInv
<1>7. EditorTyped'
  BY <1>1, <1>4 DEF LoadHistoryItem, EditorIInv, EditorTyped
<1>8. WorkspacesInv'
  BY <1>4, <1>6 DEF LoadHistoryItem, EditorIInv, WorkspacesInv
<1>9. IdleStored'
  BY <1>4 DEF IdleStored
<1> QED
  BY <1>6, <1>7, <1>8, <1>9 DEF EditorIInv

\* And a file read into the workspace that was shown when it was picked.
LEMMA FileReadStep ==
    ASSUME EditorIInv, NEW sql \in SQL, FileRead(sql)
    PROVE  EditorIInv'
<1>1. importing \in WorkspaceIds
  BY DEF EditorIInv, EditorTyped, FileRead
<1>2. Group(importing) \in SoundGroups /\ sql \in Texts /\ CanHold(Group(importing))
      /\ Put(importing, SetText(Group(importing), sql))
  BY <1>1, GroupsAreSound, Ids DEF FileRead
<1>3. SetText(Group(importing), sql) \in SoundGroups
  BY <1>2, TextSet
<1>4. workspaces' \in [WorkspaceIds -> Held] /\ edits' \in 0..MaxEdits /\ timer' = TRUE
  BY <1>1, <1>2, <1>3, PutStep
<1>5. EditorTyped'
  BY <1>4 DEF FileRead, EditorIInv, EditorTyped
<1>6. WorkspacesInv'
  BY <1>4 DEF FileRead, EditorIInv, WorkspacesInv
<1>7. SeedInv'
  BY DEF FileRead, EditorIInv, SeedInv
<1>8. IdleStored'
  BY <1>4 DEF IdleStored
<1> QED
  BY <1>5, <1>6, <1>7, <1>8 DEF EditorIInv

\* And picking the file, and the timer's save.
LEMMA PickOrPersistStep ==
    ASSUME EditorIInv, PickFile \/ Persist
    PROVE  EditorIInv'
<1>1. EditorTyped'
  BY DEF PickFile, Persist, EditorIInv, EditorTyped
<1>2. WorkspacesInv'
  BY DEF PickFile, Persist, EditorIInv, WorkspacesInv
<1>3. SeedInv'
  BY DEF PickFile, Persist, EditorIInv, SeedInv
<1>4. IdleStored'
  BY DEF PickFile, Persist, EditorIInv, IdleStored
<1> QED
  BY <1>1, <1>2, <1>3, <1>4 DEF EditorIInv

\* And a launch, which begins with what is stored.
LEMMA RelaunchStep ==
    ASSUME EditorIInv, NEW c \in WorkspaceIds, NEW map \in [WorkspaceIds -> Held], Relaunch(c, map)
    PROVE  EditorIInv' /\ workspaces' = map
<1>1. workspaces' = map
  BY LoadedAsStored DEF Relaunch, Launched
<1>2. Shows(c, map, [d \in WorkspaceIds |-> NoWorkspace], FirstRun, {})
  BY LoadedAsStored DEF Relaunch, Launched
<1>3. [d \in WorkspaceIds |-> NoWorkspace] \in [WorkspaceIds -> Held]
  BY DEF Held
<1>4. blanks' \in [WorkspaceIds -> Held] /\ seed' \in {NoWorkspace, FirstRun} /\ SeedInv'
  BY <1>2, <1>3, ShowsStep
<1>5. EditorTyped'
  BY EditorConstants DEF Relaunch, Launched, EditorIInv, EditorTyped
<1>6. WorkspacesInv'
  BY <1>1, <1>4 DEF Relaunch, WorkspacesInv
<1>7. IdleStored'
  BY DEF Relaunch, Launched, IdleStored
<1> QED
  BY <1>1, <1>4, <1>5, <1>6, <1>7 DEF EditorIInv

\* And leaving the application, which stores what is on screen, or a crash.
LEMMA ExitOrCrashStep ==
    ASSUME EditorIInv, NEW c \in WorkspaceIds, Exit(c) \/ Crash(c)
    PROVE  EditorIInv' /\ (Exit(c) /\ storageWorks => workspaces' = workspaces)
<1>1. workspaces \in [WorkspaceIds -> Held] /\ stored \in [WorkspaceIds -> Held]
  BY DEF EditorIInv, WorkspacesInv
<1>2. Exit(c) => EditorIInv' /\ (storageWorks => workspaces' = workspaces)
  BY <1>1, RelaunchStep DEF Exit
<1>3. Crash(c) => EditorIInv'
  BY <1>1, RelaunchStep DEF Crash
<1>4. CASE Exit(c)
  BY <1>2, <1>4
<1>5. CASE Crash(c) /\ ~Exit(c)
  BY <1>3, <1>5
<1> QED
  BY <1>4, <1>5

\* Every step of the editor keeps the invariant.
LEMMA EditorStep == EditorIInv /\ [EditorNext]_editorVars => EditorIInv'
<1> SUFFICES ASSUME EditorIInv, [EditorNext]_editorVars PROVE EditorIInv'
  OBVIOUS
<1>1. CASE GroupSteps
  BY <1>1, GroupStep, UpdateStep
<1>2. ASSUME NEW sql \in SQL, FileRead(sql) PROVE EditorIInv'
  BY <1>2, FileReadStep
<1>3. CASE PickFile \/ Persist
  BY <1>3, PickOrPersistStep
<1>4. ASSUME NEW c \in WorkspaceIds, SwitchConnection(c) PROVE EditorIInv'
  BY <1>4, SwitchStep
<1>5. ASSUME NEW c \in WorkspaceIds, Exit(c) \/ Crash(c) PROVE EditorIInv'
  BY <1>5, ExitOrCrashStep
<1>6. ASSUME NEW c \in Profiles, NEW sql \in SQL, LoadHistoryItem(c, sql) PROVE EditorIInv'
  BY <1>6, LoadStep
<1>7. CASE UNCHANGED editorVars
  <2>1. EditorTyped' /\ WorkspacesInv'
    BY <1>7 DEF editorVars, EditorIInv, EditorTyped, WorkspacesInv
  <2>2. SeedInv' /\ IdleStored'
    BY <1>7 DEF editorVars, EditorIInv, SeedInv, IdleStored
  <2> QED
    BY <2>1, <2>2 DEF EditorIInv
<1>8. EditorNext => \/ GroupSteps \/ PickFile \/ Persist
                    \/ \E sql \in SQL : FileRead(sql)
                    \/ \E c \in WorkspaceIds : SwitchConnection(c) \/ Exit(c) \/ Crash(c)
                    \/ \E c \in Profiles, sql \in SQL : LoadHistoryItem(c, sql)
  BY DEF EditorNext, GroupSteps
<1> QED
  BY <1>1, <1>2, <1>3, <1>4, <1>5, <1>6, <1>7, <1>8

\* So it holds in every state.
THEOREM EditorInvariant == EditorSpec => []EditorIInv
  BY EditorInitially, EditorStep, PTL DEF EditorSpec

\* And it implies what the editor promises.
LEMMA EditorMeans == EditorIInv => EditorIsSound
<1> SUFFICES ASSUME EditorIInv PROVE EditorIsSound
  OBVIOUS
<1>1. \A w \in Kept \ {NoWorkspace} : w \in SoundWorkspaces
  <2>1. seed \in Held
    BY NewWorkspaces DEF EditorIInv, WorkspacesInv, Held
  <2> QED
    BY <2>1 DEF EditorIInv, WorkspacesInv, Held, Kept
<1>2. \A g \in Groups : g \in SoundGroups
  BY <1>1 DEF Groups, SoundWorkspaces
<1>3. ASSUME NEW g \in Groups
      PROVE  /\ IsGroup(g) /\ g.open \subseteq Range(g.tabs)
             /\ g.active \in g.open \/ (g.active = NoTab /\ g.open = {})
             /\ \A t \in DOMAIN g.text : ~Contains(g.tabs, t) => g.text[t] = BlankText
  <2>1. g \in SoundGroups
    BY <1>2
  <2>2. DOMAIN g = {"tabs", "open", "active", "text"}
    BY <2>1, GroupFields DEF GroupType
  <2>3. IsGroup(g)
    BY <2>1, <2>2, GroupFields DEF IsGroup
  <2> QED
    BY <2>1, <2>3, GroupFields DEF ShowsAnOpenTab, ParksNothing
<1>4. EditorTypeOK
  <2>1. adopters \subseteq WorkspaceIds
    BY DEF EditorIInv, SeedInv
  <2> QED
    BY <1>3, <2>1 DEF EditorIInv, EditorTyped, EditorTypeOK
<1>5. AnOpenTabIsActive /\ NoSqlIsParked
  BY <1>3 DEF AnOpenTabIsActive, NoSqlIsParked
<1>6. SeedIsTakenOnce
  <2>1. CASE adopters = {}
    BY <2>1, FS_EmptySet DEF SeedIsTakenOnce
  <2>2. ASSUME NEW c \in WorkspaceIds, adopters = {c} PROVE SeedIsTakenOnce
    <3>1. Cardinality({c}) = 1
      BY FS_Singleton
    <3> QED
      BY <2>2, <3>1 DEF SeedIsTakenOnce
  <2> QED
    BY <2>1, <2>2 DEF EditorIInv, SeedInv
<1> QED
  BY <1>4, <1>5, <1>6 DEF EditorIsSound

\* Whatever is typed, opened, closed, loaded, stored and read back: in every workspace
\* the tab shown is an open one, no text is hidden under an id that is no tab, and the
\* first-run tabs are taken once (editor-tabs.ts and use-editor-groups.ts).
THEOREM EditorsStaySound == EditorSpec => []EditorIsSound
  BY EditorInvariant, EditorMeans, PTL

\* A crash while no save is pending loses nothing: what the next launch reads back is
\* what is on screen, if storing works at all (updateEditorGroupState, its debounced
\* save, and loadPersistedWorkspaces).
THEOREM IdleIsSaved == EditorSpec => []SavedWhenIdle
<1>1. ASSUME EditorIInv PROVE SavedWhenIdle
  <2>1. workspaces \in [WorkspaceIds -> Held]
    BY <1>1 DEF EditorIInv, WorkspacesInv
  <2>2. LoadWorkspaces(workspaces) = workspaces
    BY <2>1, LoadedAsStored
  <2> QED
    BY <1>1, <2>2 DEF EditorIInv, IdleStored, SavedWhenIdle
<1> QED
  BY EditorInvariant, <1>1, PTL

\* Leaving the application and starting it again gives every workspace back as it was
\* (exitApplication, which flushes, and loadPersistedWorkspaces).
THEOREM ExitsKeepWorkspaces == EditorSpec => ExitKeepsEveryWorkspace
<1>1. EditorIInv /\ [EditorNext]_editorVars =>
        [launches' # launches /\ storageWorks /\ (\E c \in WorkspaceIds : Exit(c))
            => workspaces' = workspaces]_editorVars
  BY ExitOrCrashStep
<1> QED
  BY EditorInvariant, <1>1, PTL DEF EditorSpec, ExitKeepsEveryWorkspace

-----------------------------------------------------------------------------
(* The text of the tabs in the background.                                 *)

\* What BackgroundTextIsKept allows a step to do to the text of t in c.
MayChange(c, t) ==
    Group(c)'.text[t] # Group(c).text[t] =>
        \/ t = Group(c).active
        \/ t \in TableTabs \ Group(c).open /\ Group(c)'.active = t
        \/ c = activeConnection /\ \E sql \in SQL : ReplaceIn(t, sql)

\* A change of one workspace leaves the groups of the others.
LEMMA PutGroups ==
    ASSUME EditorIInv, NEW c \in WorkspaceIds, NEW g \in SoundGroups, Put(c, g),
           UNCHANGED <<blanks, seed>>
    PROVE  Group(c)' = g /\ \A d \in WorkspaceIds : d # c => Group(d)' = Group(d)
<1>1. /\ workspaces'[c] \in SoundWorkspaces /\ workspaces'[c].primary = g
      /\ \A d \in WorkspaceIds : d # c => workspaces'[d] = workspaces[d]
  BY PutStep
<1>2. workspaces'[c] # NoWorkspace
  BY <1>1, NewWorkspaces
<1>3. Group(c)' = g
  BY <1>1, <1>2 DEF Group, States
<1>4. ASSUME NEW d \in WorkspaceIds, d # c PROVE Group(d)' = Group(d)
  BY <1>1, <1>4 DEF Group, States
<1> QED
  BY <1>3, <1>4

\* Showing a workspace: the others that nobody has seen lose the seed, whose one text
\* is in its active tab.
LEMMA ShownGroups ==
    ASSUME EditorIInv, NEW all \in [WorkspaceIds -> Held], NEW c \in WorkspaceIds,
           Shows(c, all, blanks, seed, adopters), NEW d \in WorkspaceIds,
           NEW t \in Range(States(all, blanks, seed, d).primary.tabs),
           States(all, blanks', seed', d).primary.text[t] # States(all, blanks, seed, d).primary.text[t]
    PROVE  t = States(all, blanks, seed, d).primary.active
<1>1. blanks \in [WorkspaceIds -> Held] /\ seed \in {NoWorkspace, FirstRun}
  BY DEF EditorIInv, WorkspacesInv
<1>2. Adopts(all, blanks, c)
  BY DEF Shows
<1>3. blanks' = [blanks EXCEPT ![c] = States(all, blanks, seed, c)] /\ seed' = NoWorkspace
  BY <1>2 DEF Shows
<1>4. all[c] = NoWorkspace /\ blanks[c] = NoWorkspace
  BY <1>2 DEF Adopts
<1>5. States(all, blanks, seed, c) # NoWorkspace
  BY <1>1, StatesAreSound, NewWorkspaces
<1>6. CASE d = c
  <2>1. States(all, blanks', seed', c) = blanks'[c]
    BY <1>1, <1>3, <1>4, <1>5 DEF States
  <2> QED
    BY <1>1, <1>3, <1>6, <2>1
<1>7. CASE d # c
  <2>1. blanks'[d] = blanks[d]
    BY <1>1, <1>3, <1>7
  <2>2. all[d] = NoWorkspace /\ blanks[d] = NoWorkspace /\ seed # NoWorkspace
    BY <1>3, <2>1 DEF States
  <2>3. States(all, blanks, seed, d) = FirstRun /\ States(all, blanks', seed', d) = BlankWorkspace
    BY <1>1, <1>3, <2>1, <2>2 DEF States
  <2>4. FirstRun.primary = SampleGroup(SampleSql) /\ BlankWorkspace.primary = BlankGroup
    BY DEF FirstRun, BlankWorkspace
  <2>5. SampleSql \in Texts
    BY Ids
  <2>6. /\ SampleGroup(SampleSql) \in SoundGroups
        /\ \A u \in Tabs \cup {NoTab} : u # SampleGroup(SampleSql).active => SampleGroup(SampleSql).text[u] = BlankText
    BY <2>5, SampleGroupIsSound
  <2>7. t \in Tabs
    BY <2>3, <2>4, <2>6, GroupFields
  <2>8. BlankGroup.text[t] = BlankText
    <3>1. EmptyGroup \in TidyGroups /\ HasRoom(EmptyGroup)
      BY EmptyIsTidy
    <3>2. SqlTabs[NewTabId(EmptyGroup)] \in Tabs /\ ~Contains(EmptyGroup.tabs, SqlTabs[NewTabId(EmptyGroup)])
      BY <3>1, NewTabIdIsNew
    <3>3. BlankGroup.text = [EmptyGroup.text EXCEPT ![SqlTabs[NewTabId(EmptyGroup)]] = BlankText]
      BY <3>1, <3>2, AddedTab, Ids DEF BlankGroup, AddSqlTab
    <3>4. EmptyGroup.text = [u \in Tabs \cup {NoTab} |-> BlankText]
      BY DEF EmptyGroup
    <3> QED
      BY <2>7, <3>2, <3>3, <3>4
  <2> QED
    BY <2>3, <2>4, <2>6, <2>7, <2>8
<1> QED
  BY <1>6, <1>7

\* Every step changes the text of a background tab only as it may.
LEMMA BackgroundStep ==
    ASSUME EditorIInv, EditorNext, launches' = launches,
           NEW c \in WorkspaceIds, NEW t \in Range(Group(c).tabs)
    PROVE  MayChange(c, t)
<1>1. /\ activeConnection \in WorkspaceIds /\ Shown = Group(activeConnection)
      /\ workspaces \in [WorkspaceIds -> Held]
  BY DEF EditorIInv, EditorTyped, WorkspacesInv, Shown
<1>2. CASE GroupSteps
  <2>1. PICK g \in SoundGroups :
          /\ Update(g)
          /\ \A u \in Range(Shown.tabs) : g.text[u] # Shown.text[u] =>
               \/ u = Shown.active
               \/ u \in TableTabs \ Shown.open /\ g.active = u
               \/ \E sql \in SQL : ReplaceIn(u, sql)
    BY <1>2, GroupStep
  <2>2. Put(activeConnection, g) /\ UNCHANGED <<blanks, seed>>
    BY <2>1 DEF Update
  <2>3. /\ c = activeConnection => Group(c)' = g
        /\ c # activeConnection => Group(c)' = Group(c)
    <3>1. PICK m \in WorkspaceIds : m = activeConnection
      BY <1>1
    <3>2. Put(m, g)
      BY <2>2, <3>1
    <3>3. Group(m)' = g /\ \A d \in WorkspaceIds : d # m => Group(d)' = Group(d)
      BY <2>1, <2>2, <3>2, PutGroups
    <3> QED
      BY <3>1, <3>3
  <2>4. CASE c = activeConnection
    BY <1>1, <2>1, <2>3, <2>4 DEF MayChange
  <2>5. CASE c # activeConnection
    BY <2>3, <2>5 DEF MayChange
  <2> QED
    BY <2>4, <2>5
<1>3. ASSUME NEW sql \in SQL, FileRead(sql) PROVE MayChange(c, t)
  <2>1. importing \in WorkspaceIds /\ sql \in Texts /\ UNCHANGED <<blanks, seed>>
        /\ CanHold(Group(importing)) /\ Put(importing, SetText(Group(importing), sql))
    BY <1>3, Ids DEF EditorIInv, EditorTyped, FileRead
  <2>2. Group(importing) \in SoundGroups
    BY <2>1, GroupsAreSound
  <2>3. /\ SetText(Group(importing), sql) \in SoundGroups
        /\ \A u \in Range(Group(importing).tabs) :
             SetText(Group(importing), sql).text[u] # Group(importing).text[u] => u = Group(importing).active
    BY <2>1, <2>2, TextSet
  <2>4. /\ c # importing => Group(c)' = Group(c)
        /\ c = importing => Group(c)' = SetText(Group(importing), sql)
    <3> DEFINE g == SetText(Group(importing), sql)
    <3> HIDE DEF g
    <3>1. PICK m \in WorkspaceIds : m = importing
      BY <2>1
    <3>2. Put(m, g) /\ g \in SoundGroups
      BY <2>1, <2>3, <3>1 DEF g
    <3>3. Group(m)' = g /\ \A d \in WorkspaceIds : d # m => Group(d)' = Group(d)
      BY <2>1, <3>2, PutGroups
    <3> QED
      BY <3>1, <3>3 DEF g
  <2> QED
    BY <2>3, <2>4 DEF MayChange
<1>4. CASE PickFile \/ Persist
  BY <1>4 DEF PickFile, Persist, MayChange, Group
<1>5. ASSUME NEW d \in WorkspaceIds, SwitchConnection(d) PROVE MayChange(c, t)
  <2>1. Shows(d, workspaces, blanks, seed, adopters) /\ workspaces' = workspaces
    BY <1>5 DEF SwitchConnection
  <2>2. Group(c)'.text[t] # Group(c).text[t] => t = Group(c).active
    BY <1>1, <2>1, ShownGroups DEF Group
  <2> QED
    BY <2>2 DEF MayChange
<1>6. ASSUME NEW d \in WorkspaceIds, Exit(d) \/ Crash(d) PROVE FALSE
  BY <1>6 DEF Exit, Crash, Relaunch, EditorIInv, EditorTyped
<1>7. ASSUME NEW d \in Profiles, NEW sql \in SQL, LoadHistoryItem(d, sql) PROVE MayChange(c, t)
  <2>1. d \in WorkspaceIds /\ sql \in Texts /\ CanHold(Shown) /\ Put(activeConnection, SetText(Shown, sql))
        /\ Shows(d, workspaces', blanks, seed, adopters)
    BY <1>7, Ids DEF LoadHistoryItem, WorkspaceIds
  <2>2. Shown \in SoundGroups
    BY <1>1, GroupsAreSound
  <2>3. /\ SetText(Shown, sql) \in SoundGroups
        /\ \A u \in Range(Shown.tabs) : SetText(Shown, sql).text[u] # Shown.text[u] => u = Shown.active
    BY <2>1, <2>2, TextSet
  <2>4. /\ workspaces' \in [WorkspaceIds -> Held]
        /\ workspaces'[activeConnection] \in SoundWorkspaces
        /\ workspaces'[activeConnection].primary = SetText(Shown, sql)
        /\ \A e \in WorkspaceIds : e # activeConnection => workspaces'[e] = workspaces[e]
    BY <1>1, <2>1, <2>3, PutStep
  <2>5. CASE c = activeConnection
    <3>1. workspaces'[c] # NoWorkspace
      BY <2>4, <2>5, NewWorkspaces
    <3>2. Group(c)' = SetText(Shown, sql)
      BY <2>4, <2>5, <3>1 DEF Group, States
    <3> QED
      BY <1>1, <2>3, <2>5, <3>2 DEF MayChange
  <2>6. CASE c # activeConnection
    <3>1. States(workspaces', blanks, seed, c) = States(workspaces, blanks, seed, c)
      BY <2>4, <2>6 DEF States
    <3>2. Group(c)'.text[t] # Group(c).text[t] => t = Group(c).active
      BY <2>1, <2>4, <3>1, ShownGroups DEF Group
    <3> QED
      BY <3>2 DEF MayChange
  <2> QED
    BY <2>5, <2>6
<1>8. EditorNext => \/ GroupSteps \/ PickFile \/ Persist
                    \/ \E sql \in SQL : FileRead(sql)
                    \/ \E d \in WorkspaceIds : SwitchConnection(d) \/ Exit(d) \/ Crash(d)
                    \/ \E d \in Profiles, sql \in SQL : LoadHistoryItem(d, sql)
  BY DEF EditorNext, GroupSteps
<1> QED
  BY <1>2, <1>3, <1>4, <1>5, <1>6, <1>7, <1>8

\* The text of a tab nobody looks at is not overwritten, by whichever closure writes
\* late: not by an import, not by the history, not by another connection's workspace.
THEOREM BackgroundTextStays == EditorSpec => BackgroundTextIsKept
<1>1. EditorIInv /\ [EditorNext]_editorVars =>
        [launches' = launches /\ <<workspaces, blanks, seed>>' # <<workspaces, blanks, seed>> =>
            \A c \in WorkspaceIds : \A t \in Range(Group(c).tabs) :
                Group(c)'.text[t] # Group(c).text[t] =>
                    \/ t = Group(c).active
                    \/ t \in TableTabs \ Group(c).open /\ Group(c)'.active = t
                    \/ c = activeConnection /\ \E sql \in SQL : ReplaceIn(t, sql)
        ]_editorVars
  BY BackgroundStep DEF MayChange
<1> QED
  BY EditorInvariant, <1>1, PTL DEF EditorSpec, BackgroundTextIsKept

-----------------------------------------------------------------------------
(* The commit graph.                                                       *)

\* All the commits that a parent may be.
Commits == 1..(Logged + Beyond)

\* The commits looked at, with parents that come later, and the last one drawn.
GraphTyped ==
    /\ parents \in Seq(Seq(Commits))
    /\ \A c \in DOMAIN parents : \A i \in DOMAIN parents[c] : parents[c][i] > c
    /\ drawn \subseteq DOMAIN parents
    /\ lanes \in Seq(Nat)
    /\ row.commit \in DOMAIN parents \cup {0}

\* The inductive invariant of the graph.
GraphIInv == GraphTyped /\ GraphIsSound

\* So the lanes lead to the parents awaited that are not drawn.
LEMMA LeadingMeans ==
    /\ LanesLeadToParents <=> IsInjective(lanes) /\ Range(lanes) = Awaited \ drawn
    /\ \A x : x \in Awaited <=> \E c \in drawn : x \in Range(parents[c])
<1>1. LanesLeadToParents <=> IsInjective(lanes) /\ Range(lanes) = Awaited \ drawn
  BY DEF LanesLeadToParents
<1>2. \A x : x \in Awaited <=> \E c \in drawn : x \in Range(parents[c])
  BY Zenon DEF Awaited
<1> QED
  BY <1>1, <1>2

\* And after a step.
LEMMA LeadingMeansNext ==
    /\ LanesLeadToParents' <=> IsInjective(lanes') /\ Range(lanes') = Awaited' \ drawn'
    /\ \A x : x \in Awaited' <=> \E c \in drawn' : x \in Range(parents'[c])
<1>1. LanesLeadToParents' <=> IsInjective(lanes') /\ Range(lanes') = Awaited' \ drawn'
  BY DEF LanesLeadToParents
<1>2. \A x : x \in Awaited' <=> \E c \in drawn' : x \in Range(parents'[c])
  BY Zenon DEF Awaited
<1> QED
  BY <1>1, <1>2

\* What a commit's parents are: different commits that come after it.
LEMMA ParentsAre ==
    ASSUME NEW c \in Nat, NEW ps \in ParentLists(c)
    PROVE  /\ ps \in Seq(Commits) /\ IsInjective(ps)
           /\ \A i \in DOMAIN ps : ps[i] > c
<1> USE GraphConstants
<1>1. PICK n \in 0..MaxParents : ps \in [1..n -> (c + 1)..(Logged + Beyond)]
  BY DEF ParentLists
<1>2. n \in Nat /\ \A i \in 1..n : ps[i] \in Commits /\ ps[i] > c
  BY <1>1 DEF Commits
<1>3. ps \in [1..n -> Commits]
  BY <1>1, <1>2
<1>4. IsInjective(ps)
  BY DEF ParentLists
<1> QED
  BY <1>1, <1>2, <1>3, <1>4

\* dedupeLanes keeps every commit a lane leads to, and one lane to each.
LEMMA DedupedLanes ==
    ASSUME NEW ls \in Seq(Nat)
    PROVE  /\ DedupeLanes(ls) \in Seq(Nat)
           /\ IsInjective(DedupeLanes(ls))
           /\ Range(DedupeLanes(ls)) = Range(ls)
<1> DEFINE Firsts == {i \in DOMAIN ls : \A j \in 1..i-1 : ls[j] # ls[i]}
<1>1. DOMAIN ls = 1..Len(ls) /\ Len(ls) \in Nat
  OBVIOUS
<1>2. ASSUME NEW i \in Firsts, NEW j \in Firsts, ls[i] = ls[j] PROVE i = j
  <2>1. i \in Nat /\ j \in Nat /\ 1 <= i /\ 1 <= j
    BY <1>1
  <2>2. ~(i < j) /\ ~(j < i)
    BY <1>2, <2>1
  <2> QED
    BY <2>1, <2>2
<1>3. ASSUME NEW i \in DOMAIN ls PROVE \E j \in Firsts : ls[j] = ls[i]
  <2> DEFINE Same == {j \in DOMAIN ls : ls[j] = ls[i]}
  <2>1. Same \in SUBSET Nat /\ Same # {}
    BY <1>1
  <2>2. PICK j \in Same : \A k \in Same : j <= k
    <3> HIDE DEF Same
    <3> QED
      BY <2>1, LeastIsThere
  <2>3. ASSUME NEW k \in 1..j-1, ls[k] = ls[j] PROVE FALSE
    <3>1. j \in 1..Len(ls) /\ k \in DOMAIN ls /\ k \in Nat /\ ~(j <= k)
      BY <1>1, <2>2
    <3>2. k \in Same
      BY <3>1, <2>3
    <3> QED
      BY <3>1, <3>2, <2>2
  <2> QED
    BY <2>2, <2>3
<1>4. Firsts \in SUBSET DOMAIN ls
  OBVIOUS
<1>5. DedupeLanes(ls) = Picked(ls, Firsts)
  BY DEF DedupeLanes
<1> HIDE DEF Firsts
<1>6. /\ Picked(ls, Firsts) \in Seq(Nat)
      /\ Range(Picked(ls, Firsts)) = {ls[i] : i \in Firsts}
  BY <1>4, PickedIs
<1>7. {ls[i] : i \in Firsts} = Range(ls)
  BY <1>3, <1>4 DEF Range
<1>8. IsInjective(Picked(ls, Firsts))
  BY <1>2, <1>4, PickedInjective
<1> QED
  BY <1>5, <1>6, <1>7, <1>8

\* Below a commit the lanes lead where they led, but to its parents instead of to it.
LEMMA LanesBelow ==
    ASSUME NEW before \in Seq(Nat), IsInjective(before), NEW lane \in DOMAIN before,
           NEW ps \in Seq(Commits)
    PROVE  LET after == AfterCommit(before, lane, ps)
           IN  /\ after \in Seq(Nat) /\ IsInjective(after)
               /\ Range(after) = (Range(before) \ {before[lane]}) \cup Range(ps)
<1> USE GraphConstants
<1>1. DOMAIN before = 1 .. Len(before) /\ Len(before) \in Nat
  OBVIOUS
<1>2. CASE ps = << >>
  <2> DEFINE Others == DOMAIN before \ {lane}
  <2>1. Others \in SUBSET DOMAIN before /\ \A i, j \in Others : before[i] = before[j] => i = j
    BY DEF IsInjective
  <2>2. {before[i] : i \in Others} = Range(before) \ {before[lane]}
    BY DEF Range, IsInjective
  <2>3. Range(ps) = {}
    BY <1>2 DEF Range
  <2>4. AfterCommit(before, lane, ps) = Picked(before, Others)
    BY <1>2 DEF AfterCommit
  <2> HIDE DEF Others
  <2>5. /\ Picked(before, Others) \in Seq(Nat)
        /\ Range(Picked(before, Others)) = {before[i] : i \in Others}
        /\ IsInjective(Picked(before, Others))
    BY ONLY before \in Seq(Nat), <2>1, PickedIs, PickedInjective
  <2> QED
    BY <2>2, <2>3, <2>4, <2>5
<1>3. CASE ps # << >>
  <2> DEFINE led  == [before EXCEPT ![lane] = Head(ps)]
             New  == {i \in 2..Len(ps) : ps[i] \notin Range(led)}
             rest == Picked(ps, New)
             l    == SubSeq(led, 1, lane)
             r    == SubSeq(led, lane + 1, Len(led))
  <2>1. /\ Len(ps) \in Nat /\ DOMAIN ps = 1 .. Len(ps) /\ 1 \in DOMAIN ps /\ Head(ps) = ps[1]
        /\ \A i \in DOMAIN ps : ps[i] \in Nat
        /\ ps \in Seq(Nat)
    BY <1>3 DEF Commits
  <2>2. led \in Seq(Nat) /\ Len(led) = Len(before) /\ led[lane] = ps[1]
        /\ \A i \in DOMAIN before : i # lane => led[i] = before[i]
    BY <1>1, <2>1
  <2>3. Range(led) = (Range(before) \ {before[lane]}) \cup {ps[1]}
    <3>1. DOMAIN led = DOMAIN before
      BY <2>2, <1>1
    <3> HIDE DEF led
    <3>2. Range(led) = {led[i] : i \in DOMAIN before}
      BY <3>1 DEF Range
    <3>3. \A i \in DOMAIN before : i # lane => before[i] # before[lane]
      BY DEF IsInjective
    <3>4. Range(before) = {before[i] : i \in DOMAIN before}
      BY DEF Range
    <3>5. ASSUME NEW x \in Range(led)
          PROVE  x \in (Range(before) \ {before[lane]}) \cup {ps[1]}
      <4>1. PICK i \in DOMAIN before : x = led[i]
        BY <3>2
      <4>2. CASE i = lane
        BY <4>1, <4>2, <2>2
      <4>3. CASE i # lane
        BY <4>1, <4>3, <3>3, <3>4, <2>2
      <4> QED
        BY <4>2, <4>3
    <3>6. ASSUME NEW x \in Range(before) \ {before[lane]}
          PROVE  x \in Range(led)
      <4>1. PICK i \in DOMAIN before : x = before[i]
        BY <3>4
      <4>2. i # lane
        BY <4>1
      <4> QED
        BY <4>1, <4>2, <3>2, <2>2
    <3>7. ps[1] \in Range(led)
      BY <3>2, <2>2
    <3> QED
      BY <3>5, <3>6, <3>7
  <2> HIDE DEF led
  <2>4. l \in Seq(Nat) /\ r \in Seq(Nat) /\ Range(led) = Range(l) \cup Range(r)
    <3>1. lane \in 1 .. Len(led) /\ Len(led) \in Nat /\ \A i \in 1 .. Len(led) : led[i] \in Nat
      BY ONLY lane \in DOMAIN before, <1>1, <2>2
    <3> DEFINE n == Len(led)
    <3>0. PICK m \in Nat : m = lane + 1
      BY <3>1
    <3>2. /\ l \in Seq(Nat) /\ Len(l) = IF 1 <= lane THEN lane - 1 + 1 ELSE 0
          /\ \A i \in 1 .. lane - 1 + 1 : l[i] = led[1 + i - 1]
      <4>1. 1 \in Int /\ lane \in Int /\ \A i \in 1 .. lane : led[i] \in Nat
        BY <3>1
      <4> QED
        BY <4>1, SubSeqProperties
    <3>3. /\ r \in Seq(Nat) /\ Len(r) = IF m <= n THEN n - m + 1 ELSE 0
          /\ \A i \in 1 .. n - m + 1 : r[i] = led[m + i - 1]
      <4>1. m \in Int /\ n \in Int /\ \A i \in m .. n : led[i] \in Nat
        BY <3>0, <3>1
      <4>2. r = SubSeq(led, m, n)
        BY <3>0
      <4> HIDE DEF r, n
      <4> QED
        BY ONLY <4>1, <4>2, SubSeqProperties
    <3> HIDE DEF l, r
    <3>4. /\ DOMAIN l = 1 .. lane /\ \A i \in 1 .. lane : l[i] = led[i]
          /\ DOMAIN r = 1 .. n - lane /\ \A i \in 1 .. n - lane : r[i] = led[lane + i]
          /\ DOMAIN led = 1 .. n
      <4>1. DOMAIN l = 1 .. lane /\ \A i \in 1 .. lane : l[i] = led[i]
        BY ONLY <3>1, <3>2
      <4>2. lane \in Nat /\ n \in Nat /\ lane <= n /\ DOMAIN led = 1 .. n
        BY <2>2, <3>1
      <4> HIDE DEF n
      <4>3. n - m + 1 = n - lane /\ (m <= n <=> n - lane # 0) /\ n - lane \in Nat
        <5>1. lane \in Nat /\ n \in Nat /\ lane <= n
          BY <4>2
        <5> QED
          BY ONLY m \in Nat, <3>0, <5>1
      <4>4. Len(r) = n - lane /\ DOMAIN r = 1 .. n - lane
        <5>1. Len(r) = n - lane
          BY <3>3, <4>3
        <5>2. DOMAIN r = 1 .. Len(r)
          BY <3>3
        <5> QED
          BY <5>1, <5>2
      <4>5. ASSUME NEW i \in 1 .. n - lane PROVE r[i] = led[lane + i]
        <5>1. m + i - 1 = lane + i
          BY <3>0, <4>2
        <5>2. r[i] = led[m + i - 1]
          BY <3>3, <4>3
        <5> QED
          BY <5>1, <5>2
      <4> QED
        BY <4>1, <4>2, <4>4, <4>5
    <3>5. ASSUME NEW i \in 1 .. n
          PROVE  (\E k \in DOMAIN l : led[i] = l[k]) \/ (\E k \in DOMAIN r : led[i] = r[k])
      <4>1. i \in 1 .. lane \/ (i - lane \in 1 .. n - lane /\ lane + (i - lane) = i)
        BY <3>1
      <4> QED
        BY <4>1, <3>4
    <3>6. /\ \A k \in DOMAIN l : \E i \in DOMAIN led : l[k] = led[i]
          /\ \A k \in DOMAIN r : \E i \in DOMAIN led : r[k] = led[i]
      <4>1. /\ \A k \in 1 .. lane : k \in 1 .. n
            /\ \A k \in 1 .. n - lane : lane + k \in 1 .. n
        BY <3>1
      <4> HIDE DEF n
      <4>2. \A k \in DOMAIN l : \E i \in DOMAIN led : l[k] = led[i]
        BY <4>1, <3>4
      <4>3. \A k \in DOMAIN r : \E i \in DOMAIN led : r[k] = led[i]
        BY <4>1, <3>4
      <4> QED
        BY <4>2, <4>3
    <3>7. Range(led) = Range(l) \cup Range(r)
      <4> HIDE DEF n
      <4>1. \A x : x \in Range(led) => x \in Range(l) \/ x \in Range(r)
        BY <3>4, <3>5 DEF Range
      <4>2. \A x : x \in Range(l) \/ x \in Range(r) => x \in Range(led)
        BY <3>6 DEF Range
      <4> QED
        BY <4>1, <4>2
    <3> QED
      BY <3>2, <3>3, <3>7
  <2>5. New \in SUBSET DOMAIN ps
    BY <2>1
  <2>6. rest \in Seq(Nat) /\ Range(rest) = {ps[i] : i \in New}
    <3> HIDE DEF New
    <3> QED
      BY ONLY <2>1, <2>5, PickedIs
  <2>7. Range(led) \cup Range(rest) = (Range(before) \ {before[lane]}) \cup Range(ps)
    <3>1. ASSUME NEW i \in DOMAIN ps PROVE ps[i] \in Range(led) \cup Range(rest)
      <4>1. CASE i = 1
        BY <2>3, <4>1
      <4>2. CASE i # 1
        <5>1. i \in 2..Len(ps)
          BY <2>1, <4>2
        <5> QED
          BY <5>1, <2>6
      <4> QED
        BY <4>1, <4>2
    <3>2. Range(rest) \subseteq Range(ps) /\ ps[1] \in Range(ps)
      BY <2>1, <2>5, <2>6 DEF Range
    <3>3. \A x \in Range(ps) : x \in Range(led) \cup Range(rest)
      BY <3>1 DEF Range
    <3> HIDE DEF rest
    <3> QED
      BY <3>2, <3>3, <2>3
  <2>8. AfterCommit(before, lane, ps) = DedupeLanes(l \o rest \o r)
    BY <1>3 DEF AfterCommit, led
  <2> HIDE DEF l, r, rest
  <2>9. PICK a : a = l \o rest
    OBVIOUS
  <2>10. a \in Seq(Nat) /\ Range(a) = Range(l) \cup Range(rest)
    BY <2>4, <2>6, <2>9, JoinedRange
  <2>11. PICK b : b = a \o r
    OBVIOUS
  <2>12. b \in Seq(Nat) /\ Range(b) = Range(a) \cup Range(r)
    BY <2>4, <2>10, <2>11, JoinedRange
  <2>13. AfterCommit(before, lane, ps) = DedupeLanes(b)
    BY <2>8, <2>9, <2>11
  <2>14. Range(b) = (Range(before) \ {before[lane]}) \cup Range(ps)
    BY <2>4, <2>7, <2>10, <2>12
  <2> QED
    BY <2>12, <2>13, <2>14, DedupedLanes
<1> QED
  BY <1>2, <1>3

\* A step keeps the graph's types.
LEMMA GraphTypeStep ==
    ASSUME GraphIInv, NEW c, c = Len(parents) + 1, NEW ps \in ParentLists(c),
           DrawRow(c, ps) \/ LeaveOut(ps)
    PROVE  /\ parents' = Append(parents, ps) /\ parents' \in Seq(Seq(Commits))
           /\ c \in Nat /\ DOMAIN parents' = DOMAIN parents \cup {c} /\ c \notin DOMAIN parents
           /\ parents'[c] = ps /\ \A d \in DOMAIN parents : parents'[d] = parents[d]
           /\ \A d \in DOMAIN parents' : \A i \in DOMAIN parents'[d] : parents'[d][i] > d
           /\ ps \in Seq(Commits) /\ IsInjective(ps) /\ \A i \in DOMAIN ps : ps[i] > c
           /\ \A d \in DOMAIN parents : d \in Nat /\ d < c
<1>1. /\ parents \in Seq(Seq(Commits)) /\ Len(parents) \in Nat
      /\ DOMAIN parents = 1 .. Len(parents)
      /\ \A d \in DOMAIN parents : \A i \in DOMAIN parents[d] : parents[d][i] > d
  BY DEF GraphIInv, GraphTyped
<1>2. c \in Nat
  BY <1>1
<1>3. ps \in Seq(Commits) /\ IsInjective(ps) /\ \A i \in DOMAIN ps : ps[i] > c
  BY <1>2, ParentsAre
<1>4. parents' = Append(parents, ps)
  BY DEF DrawRow, LeaveOut
<1>5. /\ parents' \in Seq(Seq(Commits)) /\ Len(parents') = c
      /\ parents'[c] = ps /\ \A d \in 1 .. Len(parents) : parents'[d] = parents[d]
  BY <1>1, <1>3, <1>4
<1>6. DOMAIN parents' = DOMAIN parents \cup {c}
  <2>1. DOMAIN parents' = 1 .. c
    BY <1>2, <1>5
  <2> QED
    BY <1>1, <2>1
<1>7. /\ c \notin DOMAIN parents /\ \A d \in DOMAIN parents : d \in Nat /\ d < c
  BY <1>1
<1>8. \A d \in DOMAIN parents' : \A i \in DOMAIN parents'[d] : parents'[d][i] > d
  BY <1>1, <1>3, <1>5, <1>6
<1> QED
  BY <1>1, <1>2, <1>3, <1>4, <1>5, <1>6, <1>7, <1>8

\* A commit that is drawn takes its lane, gives it to its parents, and is joined to them.
LEMMA DrawStep ==
    ASSUME GraphIInv, NEW c, c = Len(parents) + 1, NEW ps \in ParentLists(c), DrawRow(c, ps)
    PROVE  GraphIInv'
<1> DEFINE before == IF c \in Range(lanes) THEN lanes ELSE Append(lanes, c)
           lane   == LaneOf(before, c)
           after  == AfterCommit(before, lane, ps)
           All    == {i \in DOMAIN ps : ps[i] \in Range(after)}
           joined == Picked(ps, All)
<1>1. /\ parents' = Append(parents, ps) /\ parents' \in Seq(Seq(Commits))
      /\ c \in Nat /\ DOMAIN parents' = DOMAIN parents \cup {c} /\ c \notin DOMAIN parents
      /\ parents'[c] = ps /\ \A d \in DOMAIN parents : parents'[d] = parents[d]
      /\ \A d \in DOMAIN parents' : \A i \in DOMAIN parents'[d] : parents'[d][i] > d
      /\ ps \in Seq(Commits) /\ IsInjective(ps) /\ \A i \in DOMAIN ps : ps[i] > c
      /\ \A d \in DOMAIN parents : d \in Nat /\ d < c
  BY GraphTypeStep
<1>2. /\ drawn' = drawn \cup {c} /\ lanes' = after
      /\ row' = [commit |-> c, lane |-> lane, before |-> before, after |-> after,
                 parentLanes |-> [i \in DOMAIN joined |-> LaneOf(after, joined[i])]]
  BY DEF DrawRow
<1>3. /\ drawn \subseteq DOMAIN parents /\ lanes \in Seq(Nat) /\ IsInjective(lanes)
      /\ Range(lanes) = Awaited \ drawn
  BY LeadingMeans DEF GraphIInv, GraphTyped, GraphIsSound
<1>4. before \in Seq(Nat) /\ IsInjective(before) /\ Range(before) = Range(lanes) \cup {c}
  <2>1. CASE c \in Range(lanes)
    BY <2>1, <1>3
  <2>2. CASE c \notin Range(lanes)
    <3>1. PICK b : b = Append(lanes, c)
      OBVIOUS
    <3>2. /\ b \in Seq(Nat) /\ Len(b) = Len(lanes) + 1 /\ b[Len(lanes) + 1] = c
          /\ \A i \in 1 .. Len(lanes) : b[i] = lanes[i]
      BY <1>1, <1>3, <3>1
    <3>3. DOMAIN b = DOMAIN lanes \cup {Len(lanes) + 1} /\ DOMAIN lanes = 1 .. Len(lanes)
      <4>1. DOMAIN b = 1 .. Len(lanes) + 1 /\ DOMAIN lanes = 1 .. Len(lanes) /\ Len(lanes) \in Nat
        BY <1>3, <3>2
      <4> QED
        BY <4>1
    <3>4. \A i \in DOMAIN lanes : lanes[i] # c
      BY <2>2 DEF Range
    <3>5. IsInjective(b)
      BY <3>2, <3>3, <3>4, <1>3 DEF IsInjective
    <3>6. Range(b) = Range(lanes) \cup {c}
      BY <3>2, <3>3 DEF Range
    <3> QED
      BY <2>2, <3>1, <3>2, <3>5, <3>6
  <2> QED
    BY <2>1, <2>2
<1> HIDE DEF before
<1>5. lane \in DOMAIN before /\ before[lane] = c
  <2>1. \E i \in DOMAIN before : before[i] = c
    BY <1>4 DEF Range
  <2> QED
    BY <2>1 DEF LaneOf
<1> HIDE DEF lane
<1>6. /\ after \in Seq(Nat) /\ IsInjective(after)
      /\ Range(after) = (Range(before) \ {c}) \cup Range(ps)
  BY <1>1, <1>4, <1>5, LanesBelow
<1> HIDE DEF after
<1>7. Range(ps) \cap (drawn \cup {c}) = {}
  <2>1. ASSUME NEW i \in DOMAIN ps PROVE ps[i] \notin drawn \cup {c}
    <3>0. Commits \subseteq Nat
      BY DEF Commits
    <3>1. ps[i] > c /\ ps[i] \in Nat
      <4>1. ps \in Seq(Commits) /\ \A k \in DOMAIN ps : ps[k] > c
        BY <1>1
      <4>2. ps[i] \in Commits
        BY <4>1
      <4> QED
        BY <4>1, <4>2, <3>0
    <3>2. \A d \in drawn : d \in Nat /\ d < c
      BY <1>1, <1>3
    <3> QED
      BY <3>1, <3>2, <1>1
  <2> QED
    BY <2>1 DEF Range
<1>8. LanesLeadToParents'
  <2>1. Awaited' = Awaited \cup Range(ps)
    <3>1. \A d \in drawn : parents'[d] = parents[d]
      BY <1>1, <1>3
    <3>2. PICK A, B : A = Awaited /\ B = Awaited'
      OBVIOUS
    <3>3. \A x : x \in B <=> \E d \in drawn \cup {c} : x \in Range(parents'[d])
      BY <3>2, <1>2, LeadingMeansNext
    <3>4. \A x : x \in A <=> \E d \in drawn : x \in Range(parents[d])
      BY <3>2, LeadingMeans
    <3>5. parents'[c] = ps
      BY <1>1
    <3>6. \A x : x \in B <=> x \in A \/ x \in Range(ps)
      BY <3>1, <3>3, <3>4, <3>5
    <3> QED
      BY <3>2, <3>6
  <2>2. Range(after) = (Awaited \cup Range(ps)) \ (drawn \cup {c})
    BY <1>3, <1>4, <1>6, <1>7
  <2> QED
    BY <2>1, <2>2, <1>2, <1>6, LeadingMeansNext
<1>9. EdgesAreDrawn'
  <2>1. All = DOMAIN ps
    BY <1>6 DEF Range
  <2>2. joined = ps
    BY <2>1, <1>1, PickedWhole
  <2> HIDE DEF joined, All
  <2>3. /\ row'.commit = c /\ row'.before = before /\ row'.lane = lane /\ row'.after = after
        /\ row'.parentLanes = [i \in DOMAIN ps |-> LaneOf(after, ps[i])]
    BY <1>2, <2>2
  <2>4. ASSUME NEW i \in DOMAIN ps PROVE after[LaneOf(after, ps[i])] = ps[i]
    <3>1. ps[i] \in Range(after)
      BY <1>6 DEF Range
    <3>2. \E k \in DOMAIN after : after[k] = ps[i]
      BY <3>1 DEF Range
    <3> QED
      BY <3>2 DEF LaneOf
  <2>5. DOMAIN row'.parentLanes = DOMAIN ps /\ Len(row'.parentLanes) = Len(ps)
    <3>1. DOMAIN ps = 1 .. Len(ps) /\ Len(ps) \in Nat
      BY <1>1
    <3> QED
      BY <3>1, <2>3
  <2> QED
    BY <2>3, <2>4, <2>5, <1>1, <1>5 DEF EdgesAreDrawn
<1>10. GraphTyped'
  <2>1. row'.commit = c
    BY <1>2
  <2> QED
    BY <2>1, <1>1, <1>2, <1>3, <1>6 DEF GraphTyped
<1> QED
  BY <1>8, <1>9, <1>10 DEF GraphIInv, GraphIsSound

\* A commit that the filters leave out changes nothing that is drawn.
LEMMA LeaveOutStep ==
    ASSUME GraphIInv, NEW c, c = Len(parents) + 1, NEW ps \in ParentLists(c), LeaveOut(ps)
    PROVE  GraphIInv'
<1>1. /\ parents' \in Seq(Seq(Commits))
      /\ DOMAIN parents' = DOMAIN parents \cup {c}
      /\ \A d \in DOMAIN parents : parents'[d] = parents[d] /\ d \in Nat
      /\ \A d \in DOMAIN parents' : \A i \in DOMAIN parents'[d] : parents'[d][i] > d
  BY GraphTypeStep
<1>2. /\ drawn' = drawn /\ lanes' = lanes /\ row' = row
  BY DEF LeaveOut
<1>3. /\ drawn \subseteq DOMAIN parents /\ lanes \in Seq(Nat)
      /\ row.commit \in DOMAIN parents \cup {0}
      /\ LanesLeadToParents /\ EdgesAreDrawn
  BY DEF GraphIInv, GraphTyped, GraphIsSound
<1>4. Awaited' = Awaited
  <2>1. \A d \in drawn : parents'[d] = parents[d]
    BY <1>1, <1>3
  <2>2. PICK A, B : A = Awaited /\ B = Awaited'
    OBVIOUS
  <2>3. \A x : x \in B <=> \E d \in drawn : x \in Range(parents'[d])
    BY <2>2, <1>2, LeadingMeansNext
  <2>4. \A x : x \in A <=> \E d \in drawn : x \in Range(parents[d])
    BY <2>2, LeadingMeans
  <2>5. \A x : x \in B <=> x \in A
    BY <2>1, <2>3, <2>4
  <2> QED
    BY <2>2, <2>5
<1>5. LanesLeadToParents'
  BY <1>2, <1>3, <1>4, LeadingMeans, LeadingMeansNext
<1>6. EdgesAreDrawn'
  <2>1. row.commit # 0 => parents'[row.commit] = parents[row.commit]
    BY <1>1, <1>3
  <2> QED
    BY <2>1, <1>2, <1>3 DEF EdgesAreDrawn
<1> QED
  BY <1>1, <1>2, <1>3, <1>5, <1>6 DEF GraphIInv, GraphTyped, GraphIsSound

(* Whatever the log, of any length and with any number of parents to a commit, and
   whichever of its commits are shown, the lanes lead to different commits, and exactly
   to the parents still to come, and every edge of a row ends at the parent it is for
   (buildGitGraphRows, git-graph.ts 27-71). *)
THEOREM GraphsStaySound == GraphSpec => []GraphIsSound
<1>1. GraphInit => GraphIInv
  <2> SUFFICES ASSUME GraphInit PROVE GraphIInv
    OBVIOUS
  <2>1. PICK none : none = << >>
    OBVIOUS
  <2>2. none \in Seq(Nat) /\ none \in Seq(Seq(Commits)) /\ DOMAIN none = {}
    BY <2>1
  <2>3. /\ parents = none /\ drawn = {} /\ lanes = none /\ row.commit = 0
    BY <2>1 DEF GraphInit, NoRow
  <2>4. GraphTyped
    BY <2>2, <2>3 DEF GraphTyped
  <2>5. LanesLeadToParents
    <3>1. \A x : x \notin Awaited
      BY <2>3, LeadingMeans
    <3>2. IsInjective(lanes) /\ \A x : x \notin Range(lanes)
      BY <2>2, <2>3 DEF IsInjective, Range
    <3> QED
      BY <3>1, <3>2, LeadingMeans
  <2>6. EdgesAreDrawn
    BY <2>3 DEF EdgesAreDrawn
  <2> QED
    BY <2>4, <2>5, <2>6 DEF GraphIInv, GraphIsSound
<1>2. GraphIInv /\ [GraphNext]_graphVars => GraphIInv'
  <2> SUFFICES ASSUME GraphIInv, [GraphNext]_graphVars PROVE GraphIInv'
    OBVIOUS
  <2>1. CASE GraphNext
    <3>1. PICK ps \in ParentLists(Len(parents) + 1) :
             DrawRow(Len(parents) + 1, ps) \/ LeaveOut(ps)
      BY <2>1 DEF GraphNext
    <3> QED
      BY <3>1, DrawStep, LeaveOutStep
  <2>2. CASE UNCHANGED graphVars
    BY <2>2 DEF graphVars, GraphIInv, GraphTyped, GraphIsSound, LanesLeadToParents,
       EdgesAreDrawn, Awaited
  <2> QED
    BY <2>1, <2>2
<1>3. GraphIInv => GraphIsSound
  BY DEF GraphIInv
<1> QED
  BY <1>1, <1>2, <1>3, PTL DEF GraphSpec

-----------------------------------------------------------------------------
(* The result view.                                                        *)

\* The rows of the result that are not deleted.
KeptRows(d) == 0 .. Count - 1 \ d.deleted

\* What may be staged.
ViewEdits == UNION {[D -> Nat] : D \in SUBSET ((0 .. Count - 1) \X Cols)}
\* What is staged in the grid: new rows, rows deleted and cells edited.
ViewDrafts ==
    [edits : ViewEdits, newRows : Seq([Cols -> Nat]), deleted : SUBSET (0 .. Count - 1)]

\* The keys and the rows of the grid.
RowKeys  == ({"o"} \X (0 .. Count - 1)) \cup ({"n"} \X Nat)
\* The rows of the grid.
GridRows == [key : RowKeys, cells : [Cols -> Nat], state : {"clean", "edited", "new"}]

\* The rows and columns of the result, and its cells.
LEMMA CountIs ==
    /\ Count \in Nat /\ Count > 0 /\ Len(Original[1]) \in Nat
    /\ \A i \in 1 .. Count, c \in Cols : Original[i][c] \in Nat
<1> USE ViewConstants
<1>1. Count \in Nat /\ Count > 0 /\ DOMAIN Original = 1 .. Count /\ Count = Len(Original)
  BY DEF Count
<1>2. \A i \in 1 .. Count : Original[i] \in Seq(Nat) /\ Len(Original[i]) = Len(Original[1])
  <2>1. Original \in Seq(Seq(Nat))
    OBVIOUS
  <2>2. \A i \in 1 .. Len(Original) : Original[i] \in Seq(Nat)
    BY ONLY <2>1
  <2> QED
    BY <1>1, <2>2
<1>3. Original[1] \in Seq(Nat)
  BY <1>1, <1>2
<1> QED
  BY <1>1, <1>2, <1>3 DEF Cols

\* Of the rows up to one, those that are kept and those that are deleted are all.
LEMMA KeptRanks ==
    ASSUME NEW d \in ViewDrafts
    PROVE  /\ KeptRows(d) \in SUBSET Nat /\ IsFiniteSet(KeptRows(d))
           /\ d.deleted \in SUBSET Nat /\ IsFiniteSet(d.deleted)
           /\ Cardinality(KeptRows(d)) = OriginalCount(d) /\ OriginalCount(d) \in 0 .. Count
           /\ \A i \in 0 .. Count - 1 : Rank(KeptRows(d), i) + Rank(d.deleted, i) = i + 1
<1>1. Count \in Nat
  BY CountIs
<1>2. d.deleted \in SUBSET (0 .. Count - 1)
  BY DEF ViewDrafts
<1>3. \A i \in Int : IsFiniteSet(0 .. i) /\ (i >= -1 => Cardinality(0 .. i) = i + 1)
  BY FS_Interval
<1>4. IsFiniteSet(KeptRows(d)) /\ IsFiniteSet(d.deleted)
  <2>1. PICK m \in Int : m = Count - 1
    BY <1>1
  <2>2. IsFiniteSet(0 .. m) /\ KeptRows(d) \subseteq 0 .. m /\ d.deleted \subseteq 0 .. m
    BY <1>2, <1>3, <2>1 DEF KeptRows
  <2> QED
    BY <2>2, FS_Subset
<1>5. \A i \in 0 .. Count - 1 : Rank(KeptRows(d), i) + Rank(d.deleted, i) = i + 1
  <2> SUFFICES ASSUME NEW i \in 0 .. Count - 1
               PROVE  Rank(KeptRows(d), i) + Rank(d.deleted, i) = i + 1
    OBVIOUS
  <2> DEFINE A == {j \in KeptRows(d) : j <= i}
             B == {j \in d.deleted : j <= i}
  <2>1. A \cup B = 0 .. i /\ A \cap B = {}
    BY <1>1, <1>2 DEF KeptRows
  <2>2. IsFiniteSet(A) /\ IsFiniteSet(B)
    BY <1>4, FS_Subset
  <2>3. Rank(KeptRows(d), i) = Cardinality(A) /\ Rank(d.deleted, i) = Cardinality(B)
    BY DEF Rank
  <2> HIDE DEF A, B
  <2>4. Cardinality(A) \in Nat /\ Cardinality(B) \in Nat
    BY <2>2, FS_CardinalityType
  <2>5. Cardinality(A \cup B) = Cardinality(A) + Cardinality(B) - Cardinality(A \cap B)
    BY <2>2, FS_Union
  <2>6. Cardinality(A \cap B) = 0
    BY <2>1, FS_EmptySet
  <2>7. Cardinality(A \cup B) = i + 1
    <3>1. i \in Int /\ i >= -1
      BY <1>1
    <3>2. Cardinality(0 .. i) = i + 1
      BY <3>1, <1>3
    <3> QED
      BY <3>2, <2>1
  <2> QED
    BY <2>3, <2>4, <2>5, <2>6, <2>7
<1>6. Cardinality(KeptRows(d)) = OriginalCount(d) /\ OriginalCount(d) \in 0 .. Count
  <2>1. KeptRows(d) \cup d.deleted = 0 .. Count - 1 /\ KeptRows(d) \cap d.deleted = {}
    BY <1>1, <1>2 DEF KeptRows
  <2>2. Cardinality(KeptRows(d) \cup d.deleted)
            = Cardinality(KeptRows(d)) + Cardinality(d.deleted) - Cardinality(KeptRows(d) \cap d.deleted)
    BY <1>4, FS_Union
  <2>3. Cardinality(KeptRows(d)) \in Nat /\ Cardinality(d.deleted) \in Nat
    BY <1>4, FS_CardinalityType
  <2>4. Cardinality(KeptRows(d) \cap d.deleted) = 0
    BY <2>1, FS_EmptySet
  <2>5. Cardinality(KeptRows(d) \cup d.deleted) = Count
    <3>1. PICK m \in Int : m = Count - 1 /\ m >= -1
      BY <1>1
    <3>2. Cardinality(0 .. m) = m + 1 /\ KeptRows(d) \cup d.deleted = 0 .. m
      BY <2>1, <3>1, <1>3
    <3>3. Cardinality(KeptRows(d) \cup d.deleted) = Cardinality(0 .. m)
      BY <3>2
    <3>4. m + 1 = Count
      BY <3>1, <1>1
    <3> QED
      BY <3>2, <3>3, <3>4
  <2> QED
    BY <1>1, <2>2, <2>3, <2>4, <2>5 DEF OriginalCount
<1>7. KeptRows(d) \in SUBSET Nat /\ d.deleted \in SUBSET Nat
  <2>1. 0 .. Count - 1 \subseteq Nat
    BY <1>1
  <2> QED
    BY <1>2, <2>1 DEF KeptRows
<1> QED
  BY <1>4, <1>5, <1>6, <1>7

\* The row of the result that is shown at a position: as many rows are deleted before
\* it as it is further down in the result.
ShownOriginal(d, at) == Ascending(KeptRows(d))[at + 1]

\* The row of the result shown at a position is one that no draft deletes.
LEMMA ShownOriginalIs ==
    ASSUME NEW d \in ViewDrafts, NEW at \in 0 .. OriginalCount(d) - 1
    PROVE  /\ ShownOriginal(d, at) \in KeptRows(d) /\ ShownOriginal(d, at) \in 0 .. Count - 1
           /\ ShownOriginal(d, at) \notin d.deleted
           /\ Rank(KeptRows(d), ShownOriginal(d, at)) = at + 1
           /\ at + Rank(d.deleted, ShownOriginal(d, at)) = ShownOriginal(d, at)
<1> DEFINE T == ShownOriginal(d, at)
<1>1. /\ KeptRows(d) \in SUBSET Nat /\ IsFiniteSet(KeptRows(d)) /\ Cardinality(KeptRows(d)) = OriginalCount(d)
      /\ OriginalCount(d) \in Nat /\ Count \in Nat
      /\ \A i \in 0 .. Count - 1 : Rank(KeptRows(d), i) + Rank(d.deleted, i) = i + 1
      /\ \A i \in Nat : Rank(d.deleted, i) \in Nat
  <2>1. /\ KeptRows(d) \in SUBSET Nat /\ IsFiniteSet(KeptRows(d)) /\ Cardinality(KeptRows(d)) = OriginalCount(d)
        /\ OriginalCount(d) \in 0 .. Count /\ Count \in Nat
        /\ \A i \in 0 .. Count - 1 : Rank(KeptRows(d), i) + Rank(d.deleted, i) = i + 1
    BY KeptRanks, CountIs
  <2>2. d.deleted \in SUBSET Nat /\ IsFiniteSet(d.deleted)
    BY KeptRanks
  <2>3. /\ \A i \in Nat : Rank(d.deleted, i) \in 0 .. Cardinality(d.deleted)
        /\ Cardinality(d.deleted) \in Nat
    BY <2>2, RankGrows
  <2> QED
    BY <2>1, <2>3
<1>2. at + 1 \in 1 .. Cardinality(KeptRows(d))
  BY <1>1
<1>3. \E i \in KeptRows(d) : Rank(KeptRows(d), i) = at + 1
  BY <1>1, <1>2, RankNumbers
<1>4. T = CHOOSE i \in KeptRows(d) : Rank(KeptRows(d), i) = at + 1
  BY <1>2 DEF ShownOriginal, Ascending
<1>5. T \in KeptRows(d) /\ Rank(KeptRows(d), T) = at + 1
  <2> HIDE DEF T
  <2> QED
    BY <1>3, <1>4
<1>6. T \in 0 .. Count - 1 /\ T \notin d.deleted
  BY <1>5 DEF KeptRows
<1> HIDE DEF T
<1>7. at + Rank(d.deleted, T) = T
  <2>1. Rank(KeptRows(d), T) + Rank(d.deleted, T) = T + 1 /\ Rank(d.deleted, T) \in Nat
    BY <1>1, <1>6
  <2> QED
    BY <2>1, <1>5, <1>6, <1>1
<1> QED
  BY <1>5, <1>6, <1>7 DEF T

\* Searched upwards from a position, the row shown there is found.
LEMMA SearchFinds ==
    ASSUME NEW d \in ViewDrafts, NEW at \in 0 .. OriginalCount(d) - 1
    PROVE  OriginalIndexForDisplayIndex(d, at) = ShownOriginal(d, at)
<1> DEFINE T == ShownOriginal(d, at)
           K(i) == Rank(KeptRows(d), i)
           R(i) == Rank(d.deleted, i)
           last == at = OriginalCount(d) - 1
<1>1. /\ Count \in Nat /\ OriginalCount(d) \in 0 .. Count
      /\ T \in 0 .. Count - 1 /\ T \notin d.deleted /\ K(T) = at + 1 /\ at + R(T) = T
      /\ \A i \in 0 .. Count - 1 : i \in KeptRows(d) <=> i \notin d.deleted
  BY KeptRanks, CountIs, ShownOriginalIs DEF KeptRows
<1>2. /\ \A i \in Nat : K(i) \in 0 .. OriginalCount(d) /\ R(i) \in Nat
      /\ \A i, j \in Nat : i <= j => R(i) <= R(j)
      /\ \A i, j \in Nat : i <= j => K(i) <= K(j)
      /\ \A i \in Nat, j \in KeptRows(d) : i < j => K(i) < K(j)
      /\ \A i \in 0 .. Count - 1 : K(i) + R(i) = i + 1
  <2>1. /\ KeptRows(d) \in SUBSET Nat /\ IsFiniteSet(KeptRows(d))
        /\ d.deleted \in SUBSET Nat /\ IsFiniteSet(d.deleted)
        /\ Cardinality(KeptRows(d)) = OriginalCount(d)
        /\ \A i \in 0 .. Count - 1 : K(i) + R(i) = i + 1
    BY KeptRanks
  <2>2. /\ \A i \in Nat : K(i) \in 0 .. OriginalCount(d)
        /\ \A i, j \in Nat : i <= j => K(i) <= K(j)
        /\ \A i \in Nat, j \in KeptRows(d) : i < j => K(i) < K(j)
    BY <2>1, RankGrows
  <2>3. /\ \A i \in Nat : R(i) \in 0 .. Cardinality(d.deleted)
        /\ \A i, j \in Nat : i <= j => R(i) <= R(j)
        /\ Cardinality(d.deleted) \in Nat
    BY <2>1, RankGrows
  <2>4. \A i \in Nat : R(i) \in Nat
    BY ONLY <2>3
  <2> HIDE DEF R, K
  <2> QED
    BY ONLY <2>1, <2>2, <2>3, <2>4
<1>3. CASE d.deleted = {}
  <2>1. R(T) = 0
    <3>1. {x \in d.deleted : x <= T} = {}
      BY <1>3
    <3> QED
      BY <3>1, FS_EmptySet DEF Rank
  <2>2. at = T
    BY <2>1, <1>1
  <2> QED
    BY <1>3, <2>2 DEF OriginalIndexForDisplayIndex
<1>4. CASE d.deleted # {}
  <2> DEFINE Next(i) == at + Cardinality({x \in d.deleted : x <= i})
             Down(i) == Next(i) + (IF Next(i) \in d.deleted THEN 1 ELSE 0)
             Search == CHOOSE F : F = [i \in Nat |->
                 IF i >= Count THEN Count
                 ELSE IF Next(i) = i /\ i \notin d.deleted THEN i ELSE F[Down(i)]]
  <2>1. OriginalIndexForDisplayIndex(d, at) = Search[at]
    BY <1>4 DEF OriginalIndexForDisplayIndex
  <2>2. \A i \in Nat : Next(i) = at + R(i)
    BY DEF Rank
  <2>3. K(Count - 1) = OriginalCount(d)
    <3>1. {j \in KeptRows(d) : j <= Count - 1} = KeptRows(d)
      BY <1>1 DEF KeptRows
    <3> QED
      BY <3>1, KeptRanks DEF Rank
  <2> HIDE DEF K, R, T, Next
  <2>4. ASSUME NEW i \in 0 .. T - 1
        PROVE  Down(i) \in i + 1 .. T /\ Next(i) # i
    <3>0. i \in Nat /\ i < T /\ i <= T /\ i \in 0 .. Count - 1 /\ T \in Nat /\ T \in KeptRows(d)
      BY <1>1
    <3>1. /\ K(i) < K(T) /\ R(i) <= R(T) /\ K(i) \in Nat /\ R(i) \in Nat /\ R(T) \in Nat
          /\ K(i) + R(i) = i + 1
      BY ONLY <3>0, <1>1, <1>2
    <3>2. Next(i) = at + R(i) /\ Next(i) \in i + 1 .. T
      BY <3>1, <2>2, <1>1
    <3>3. Next(i) \in d.deleted => Next(i) # T
      BY <1>1
    <3> QED
      BY <3>2, <3>3, <1>1
  <2>5. ASSUME NEW i \in T + 1 .. Count - 1
        PROVE  /\ ~(Next(i) = i /\ i \notin d.deleted)
               /\ Down(i) \in T .. i + 1
               /\ last => Down(i) = i + 1
               /\ ~last => Down(i) < Count
    <3>1. /\ K(i) \in 0 .. OriginalCount(d) /\ R(i) \in Nat /\ K(i) + R(i) = i + 1
          /\ K(T) <= K(i) /\ R(T) <= R(i) /\ R(T) \in Nat /\ i \in 0 .. Count - 1
          /\ i \notin d.deleted => K(T) < K(i)
      <4>1. i \in Nat /\ T < i /\ T <= i /\ i \in 0 .. Count - 1 /\ T \in Nat
        BY <1>1
      <4>2. i \notin d.deleted => i \in KeptRows(d)
        BY <4>1, <1>1
      <4> QED
        BY <4>1, <4>2, <1>2
    <3>2. Next(i) = at + R(i) /\ Next(i) \in T .. i
      BY <3>1, <2>2, <1>1
    <3>3. ~(Next(i) = i /\ i \notin d.deleted)
      BY <3>1, <3>2, <1>1
    <3>4. last => Next(i) = i
      BY <3>1, <3>2, <1>1
    <3>5. ~last /\ i = Count - 1 => Next(i) < i
      BY <3>1, <3>2, <2>3, <1>1
    <3> HIDE DEF last
    <3> QED
      BY <3>1, <3>2, <3>3, <3>4, <3>5, <1>1
  <2> DEFINE Found == [i \in Nat |->
                 IF i >= Count THEN Count ELSE IF i <= T \/ ~last THEN T ELSE Count]
  <2> HIDE DEF last
  <2>6. Found = [i \in Nat |->
                 IF i >= Count THEN Count
                 ELSE IF Next(i) = i /\ i \notin d.deleted THEN i ELSE Found[Down(i)]]
    <3> SUFFICES ASSUME NEW i \in Nat, i < Count
                 PROVE  Found[i] = IF Next(i) = i /\ i \notin d.deleted THEN i
                                   ELSE Found[Down(i)]
      BY <1>1
    <3>1. CASE i < T
      <4>1. Down(i) \in i + 1 .. T /\ Next(i) # i
        BY <3>1, <2>4, <1>1
      <4> HIDE DEF Down
      <4> QED
        BY <3>1, <4>1, <1>1
    <3>2. CASE i = T
      BY <3>2, <2>2, <1>1
    <3>3. CASE i > T
      <4>1. /\ ~(Next(i) = i /\ i \notin d.deleted)
            /\ Down(i) \in T .. i + 1
            /\ last => Down(i) = i + 1
            /\ ~last => Down(i) < Count
        BY <3>3, <2>5, <1>1
      <4> HIDE DEF Down
      <4> QED
        BY <3>3, <4>1, <1>1
    <3> QED
      BY <3>1, <3>2, <3>3, <1>1
  <2>7. Search = [i \in Nat |->
                 IF i >= Count THEN Count
                 ELSE IF Next(i) = i /\ i \notin d.deleted THEN i ELSE Search[Down(i)]]
    <3> HIDE DEF Found
    <3> QED
      BY <2>6
  <2> HIDE DEF Found, Search
  <2>8. \A i \in Nat : i < Count => Search[i] = IF Next(i) = i /\ i \notin d.deleted THEN i
                                               ELSE Search[Down(i)]
    BY <2>7, <1>1
  <2> HIDE DEF Down
  <2>9. Search[T] = T
    BY <2>8, <2>2, <1>1
  <2>10. \A k \in 0 .. T : k \in {m \in Nat : \A i \in 0 .. T : T - m <= i => Search[i] = T}
    <3> DEFINE S == {m \in Nat : \A i \in 0 .. T : T - m <= i => Search[i] = T}
    <3>1. 0 \in S
      BY <2>9, <1>1
    <3>2. ASSUME NEW m \in 0 .. T - 1, m \in S
          PROVE  m + 1 \in S
      <4> SUFFICES ASSUME NEW i \in 0 .. T, T - (m + 1) <= i
                   PROVE  Search[i] = T
        BY <1>1
      <4>1. CASE T - m <= i
        BY <4>1, <3>2
      <4>2. CASE T - m > i
        <5>1. i \in 0 .. T - 1 /\ i < Count /\ i \in Nat /\ T - m <= i + 1
          BY <4>2, <1>1
        <5>2. Down(i) \in i + 1 .. T /\ Next(i) # i
          BY <5>1, <2>4
        <5>3. Search[i] = Search[Down(i)]
          BY <5>1, <5>2, <2>8
        <5>4. Down(i) \in 0 .. T /\ T - m <= Down(i)
          BY <5>1, <5>2, <1>1
        <5> QED
          BY <5>3, <5>4, <3>2
      <4> QED
        BY <4>1, <4>2, <1>1
    <3>3. \A m \in 0 .. T - 1 : m \in S => m + 1 \in S
      BY <3>2
    <3> HIDE DEF S
    <3>4. T \in Nat
      BY <1>1
    <3>5. PICK n \in Nat : n = T
      BY <3>4
    <3>6. \A k \in 0 .. n : k \in S
      BY ONLY <3>1, <3>3, <3>5, StepByStep
    <3> QED
      BY <3>5, <3>6 DEF S
  <2>11. at \in 0 .. T
    BY <1>1, <1>2
  <2>12. Search[at] = T
    <3>1. T \in {m \in Nat : \A i \in 0 .. T : T - m <= i => Search[i] = T}
      BY <2>10, <1>1
    <3> QED
      BY <3>1, <2>11, <1>1
  <2> QED
    BY <2>1, <2>12 DEF T
<1> QED
  BY <1>3, <1>4

\* A staged row is a row of the grid.
LEMMA StagedRowsAreRows ==
    ASSUME NEW d \in ViewDrafts
    PROVE  /\ \A i \in 0 .. Count - 1 : OriginalRow(d, i) \in GridRows
           /\ d.newRows \in Seq([Cols -> Nat]) /\ Len(d.newRows) \in Nat
           /\ \A j \in 0 .. Len(d.newRows) - 1 : NewRow(d, j) \in GridRows
<1>1. PICK D \in SUBSET ((0 .. Count - 1) \X Cols) : d.edits \in [D -> Nat]
  BY DEF ViewDrafts, ViewEdits
<1>2. d.newRows \in Seq([Cols -> Nat]) /\ Len(d.newRows) \in Nat
  BY DEF ViewDrafts
<1>3. ASSUME NEW i \in 0 .. Count - 1
      PROVE  OriginalRow(d, i) \in GridRows
  <2>1. i + 1 \in 1 .. Count /\ i \in Nat
    BY CountIs
  <2>2. \A c \in Cols : Original[i + 1][c] \in Nat
    BY <2>1, CountIs
  <2>3. \A c \in Cols : (IF <<i, c>> \in DOMAIN d.edits THEN d.edits[<<i, c>>]
                         ELSE Original[i + 1][c]) \in Nat
    BY <1>1, <2>2
  <2>4. <<"o", i>> \in RowKeys
    BY DEF RowKeys
  <2> QED
    BY <2>3, <2>4 DEF OriginalRow, GridRows
<1>4. ASSUME NEW j \in 0 .. Len(d.newRows) - 1
      PROVE  NewRow(d, j) \in GridRows
  <2>1. j + 1 \in 1 .. Len(d.newRows) /\ j \in Nat
    BY <1>2
  <2>2. d.newRows[j + 1] \in [Cols -> Nat]
    BY <1>2, <2>1
  <2>3. <<"n", j>> \in RowKeys
    BY <2>1 DEF RowKeys
  <2> QED
    BY <2>2, <2>3 DEF NewRow, GridRows
<1> QED
  BY <1>2, <1>3, <1>4

\* Laid out are the rows that are kept, in their order, and the new rows.
LEMMA RowsLaidOut ==
    ASSUME NEW d \in ViewDrafts
    PROVE  /\ OriginalCount(d) \in 0 .. Count /\ Len(d.newRows) \in Nat
           /\ BuildRows(d) \in Seq(GridRows)
           /\ Len(BuildRows(d)) = OriginalCount(d) + Len(d.newRows)
           /\ \A at \in 0 .. OriginalCount(d) - 1 :
                 BuildRows(d)[at + 1] = OriginalRow(d, ShownOriginal(d, at))
           /\ \A j \in 0 .. Len(d.newRows) - 1 :
                 BuildRows(d)[OriginalCount(d) + j + 1] = NewRow(d, j)
<1> DEFINE kept == Ascending(KeptRows(d))
           upper == [k \in DOMAIN kept |-> OriginalRow(d, kept[k])]
           lower == [j \in DOMAIN d.newRows |-> NewRow(d, j - 1)]
<1>1. BuildRows(d) = upper \o lower
  BY DEF BuildRows, KeptRows
<1>2. PICK n \in 0 .. Count : n = OriginalCount(d)
  BY KeptRanks
<1>3. PICK m \in Nat : m = Len(d.newRows)
  BY StagedRowsAreRows
<1>4. DOMAIN kept = 1 .. n /\ \A k \in 1 .. n : kept[k] \in 0 .. Count - 1
  <2>1. KeptRows(d) \in SUBSET Nat /\ IsFiniteSet(KeptRows(d)) /\ Cardinality(KeptRows(d)) = n
    BY <1>2, KeptRanks
  <2>2. kept \in [1 .. n -> KeptRows(d)]
    BY <2>1, AscendingIs
  <2> QED
    BY <2>2 DEF KeptRows
<1>5. upper \in Seq(GridRows) /\ Len(upper) = n
      /\ \A k \in 1 .. n : upper[k] = OriginalRow(d, kept[k])
  <2> HIDE DEF kept
  <2>1. \A k \in 1 .. n : OriginalRow(d, kept[k]) \in GridRows
    BY <1>4, StagedRowsAreRows
  <2> QED
    BY <1>2, <1>4, <2>1, CountIs
<1>6. lower \in Seq(GridRows) /\ Len(lower) = m
      /\ \A j \in 1 .. m : lower[j] = NewRow(d, j - 1)
  <2>1. DOMAIN d.newRows = 1 .. m
    BY <1>3, StagedRowsAreRows
  <2>2. \A j \in 1 .. m : NewRow(d, j - 1) \in GridRows
    <3>1. \A j \in 1 .. m : j - 1 \in 0 .. m - 1
      OBVIOUS
    <3> QED
      BY <3>1, <1>3, StagedRowsAreRows
  <2> QED
    BY <2>1, <2>2
<1> HIDE DEF upper, lower
<1>7. PICK rows : rows = upper \o lower
  OBVIOUS
<1>8. /\ rows \in Seq(GridRows) /\ Len(rows) = n + m
      /\ \A k \in 1 .. n : rows[k] = upper[k]
      /\ \A j \in 1 .. m : rows[n + j] = lower[j]
  <2>1. PICK u \in Seq(GridRows), l \in Seq(GridRows) : u = upper /\ l = lower
    BY <1>5, <1>6
  <2>2. /\ u \o l \in Seq(GridRows) /\ Len(u \o l) = Len(u) + Len(l)
        /\ \A i \in 1 .. Len(u) + Len(l) :
              (u \o l)[i] = IF i <= Len(u) THEN u[i] ELSE l[i - Len(u)]
    BY ONLY u \in Seq(GridRows), l \in Seq(GridRows), ConcatProperties
  <2>3. /\ rows \in Seq(GridRows) /\ Len(rows) = n + m
        /\ \A i \in 1 .. n + m : rows[i] = IF i <= n THEN upper[i] ELSE lower[i - n]
    BY <2>1, <2>2, <1>5, <1>6, <1>7
  <2>4. n \in Nat /\ m \in Nat
    BY <1>2, <1>3, CountIs
  <2>5. ASSUME NEW k \in 1 .. n
        PROVE  rows[k] = upper[k]
    BY <2>3, <2>4
  <2>6. ASSUME NEW j \in 1 .. m
        PROVE  rows[n + j] = lower[j]
    <3>1. n + j \in 1 .. n + m /\ ~(n + j <= n) /\ n + j - n = j
      BY <2>4
    <3> QED
      BY <3>1, <2>3
  <2> QED
    BY <2>3, <2>5, <2>6
<1>9. ASSUME NEW at \in 0 .. n - 1
      PROVE  rows[at + 1] = OriginalRow(d, ShownOriginal(d, at))
  <2>1. at + 1 \in 1 .. n
    BY <1>2, CountIs
  <2> QED
    BY <2>1, <1>5, <1>8 DEF ShownOriginal
<1>10. ASSUME NEW j \in 0 .. m - 1
       PROVE  rows[n + j + 1] = NewRow(d, j)
  <2>1. j + 1 \in 1 .. m /\ n + (j + 1) = n + j + 1 /\ j + 1 - 1 = j
    BY <1>2, <1>3, CountIs
  <2>2. rows[n + (j + 1)] = lower[j + 1] /\ lower[j + 1] = NewRow(d, j + 1 - 1)
    BY <2>1, <1>6, <1>8
  <2> QED
    BY <2>1, <2>2
<1> QED
  BY <1>1, <1>2, <1>3, <1>7, <1>8, <1>9, <1>10

\* The key of a row laid out, and of no other.
LEMMA KeysLaidOut ==
    ASSUME NEW d \in ViewDrafts
    PROVE  /\ \A k \in DOMAIN BuildRows(d) :
                 WindowedIndexForKey(d, BuildRows(d)[k].key) = k - 1
           /\ \A k \in DOMAIN BuildRows(d) :
                 LET key == BuildRows(d)[k].key
                 IN  \/ key[1] = "o" /\ key[2] \in KeptRows(d) /\ key = <<"o", key[2]>>
                     \/ /\ key[1] = "n" /\ key[2] \in 0 .. Len(d.newRows) - 1
                        /\ key = <<"n", key[2]>>
           /\ \A i \in d.deleted : WindowedIndexForKey(d, <<"o", i>>) = -1
<1> DEFINE rows == BuildRows(d)
<1>1. PICK n \in Nat, m \in Nat : n = OriginalCount(d) /\ m = Len(d.newRows)
  BY KeptRanks, StagedRowsAreRows
<1>2. /\ DOMAIN rows = 1 .. n + m
      /\ \A at \in 0 .. n - 1 : rows[at + 1] = OriginalRow(d, ShownOriginal(d, at))
      /\ \A j \in 0 .. m - 1 : rows[n + j + 1] = NewRow(d, j)
  <2>1. Len(rows) = n + m /\ rows \in Seq(GridRows)
    BY <1>1, RowsLaidOut
  <2> QED
    BY <1>1, <2>1, RowsLaidOut
<1> HIDE DEF rows
<1>3. ASSUME NEW k \in 1 .. n
      PROVE  /\ WindowedIndexForKey(d, rows[k].key) = k - 1
             /\ rows[k].key[1] = "o" /\ rows[k].key[2] \in KeptRows(d)
             /\ rows[k].key = <<"o", rows[k].key[2]>>
  <2>1. PICK at \in 0 .. n - 1 : k = at + 1
    <3>1. k - 1 \in 0 .. n - 1 /\ k = k - 1 + 1
      BY <1>1
    <3> QED
      BY <3>1
  <2>2. PICK T : T = ShownOriginal(d, at)
    OBVIOUS
  <2>3. T \in KeptRows(d) /\ T \in Nat /\ T \notin d.deleted /\ at + Rank(d.deleted, T) = T
    <3>1. at \in 0 .. OriginalCount(d) - 1
      BY <1>1
    <3> QED
      BY <2>2, <3>1, ShownOriginalIs
  <2>4. rows[k].key = <<"o", T>>
    <3>1. OriginalRow(d, T).key = <<"o", T>>
      BY DEF OriginalRow
    <3> QED
      BY <2>1, <2>2, <3>1, <1>2
  <2>5. Cardinality({x \in d.deleted : x < T}) = Rank(d.deleted, T)
    <3>1. d.deleted \in SUBSET Nat
      BY KeptRanks
    <3>2. {x \in d.deleted : x < T} = {x \in d.deleted : x <= T}
      BY <3>1, <2>3
    <3> QED
      BY <3>2 DEF Rank
  <2>6. Rank(d.deleted, T) \in Nat
    <3>1. /\ d.deleted \in SUBSET Nat /\ IsFiniteSet(d.deleted)
      BY KeptRanks
    <3>2. Rank(d.deleted, T) \in 0 .. Cardinality(d.deleted)
      BY <3>1, <2>3, RankGrows
    <3> QED
      BY <3>2
  <2>7. WindowedIndexForKey(d, <<"o", T>>) = T - Rank(d.deleted, T)
    BY <2>3, <2>5 DEF WindowedIndexForKey
  <2> QED
    BY <2>1, <2>3, <2>4, <2>6, <2>7, <1>1
<1>4. ASSUME NEW k \in n + 1 .. n + m
      PROVE  /\ WindowedIndexForKey(d, rows[k].key) = k - 1
             /\ rows[k].key[1] = "n" /\ rows[k].key[2] \in 0 .. m - 1
             /\ rows[k].key = <<"n", rows[k].key[2]>>
  <2>1. PICK j \in 0 .. m - 1 : k = n + j + 1
    <3>1. k - n - 1 \in 0 .. m - 1 /\ k = n + (k - n - 1) + 1
      BY <1>1
    <3> QED
      BY <3>1
  <2>2. rows[k].key = <<"n", j>>
    <3>1. NewRow(d, j).key = <<"n", j>>
      BY DEF NewRow
    <3> QED
      BY <2>1, <3>1, <1>2
  <2>3. WindowedIndexForKey(d, <<"n", j>>) = n + j
    BY <1>1 DEF WindowedIndexForKey
  <2> QED
    BY <2>1, <2>2, <2>3, <1>1
<1>5. \A i \in d.deleted : WindowedIndexForKey(d, <<"o", i>>) = -1
  BY DEF WindowedIndexForKey
<1>6. \A k \in DOMAIN rows : k \in 1 .. n \/ k \in n + 1 .. n + m
  BY <1>1, <1>2
<1> QED
  BY <1>1, <1>2, <1>3, <1>4, <1>5, <1>6 DEF rows

\* The windowed view finds a row at a position that there is, the one laid out there.
LEMMA WindowedRows ==
    ASSUME NEW d \in ViewDrafts
    PROVE  /\ WindowedCount(d) = Len(BuildRows(d)) /\ Len(BuildRows(d)) \in Nat
           /\ \A at \in Int :
                 WindowedRowAt(d, at) =
                    IF at \in 0 .. Len(BuildRows(d)) - 1 THEN <<BuildRows(d)[at + 1]>> ELSE << >>
<1> DEFINE rows == BuildRows(d)
<1>1. PICK n \in Nat, m \in Nat : n = OriginalCount(d) /\ m = Len(d.newRows)
  BY KeptRanks, StagedRowsAreRows, CountIs
<1>2. /\ Len(rows) = n + m /\ WindowedCount(d) = n + m
      /\ \A at \in 0 .. n - 1 : rows[at + 1] = OriginalRow(d, ShownOriginal(d, at))
      /\ \A j \in 0 .. m - 1 : rows[n + j + 1] = NewRow(d, j)
  BY <1>1, RowsLaidOut DEF WindowedCount
<1> HIDE DEF rows
<1>3. ASSUME NEW at \in 0 .. n - 1
      PROVE  WindowedRowAt(d, at) = <<rows[at + 1]>>
  <2>1. /\ OriginalIndexForDisplayIndex(d, at) = ShownOriginal(d, at)
        /\ ShownOriginal(d, at) \in 0 .. Count - 1
    BY <1>1, SearchFinds, ShownOriginalIs
  <2>2. ~(at < 0 \/ at >= WindowedCount(d)) /\ at < OriginalCount(d)
    BY <1>1, <1>2
  <2>3. ShownOriginal(d, at) < Count
    BY <2>1, CountIs
  <2> QED
    BY <2>1, <2>2, <2>3, <1>2 DEF WindowedRowAt
<1>4. ASSUME NEW at \in n .. n + m - 1
      PROVE  WindowedRowAt(d, at) = <<rows[at + 1]>>
  <2>1. at - n \in 0 .. m - 1 /\ n + (at - n) + 1 = at + 1
    BY <1>1
  <2>2. rows[at + 1] = NewRow(d, at - n)
    BY <2>1, <1>2
  <2>3. ~(at < 0 \/ at >= WindowedCount(d)) /\ ~(at < OriginalCount(d))
    BY <1>1, <1>2
  <2> QED
    BY <2>2, <2>3, <1>1 DEF WindowedRowAt
<1>5. ASSUME NEW at \in Int, at \notin 0 .. n + m - 1
      PROVE  WindowedRowAt(d, at) = << >>
  BY <1>1, <1>2, <1>5 DEF WindowedRowAt
<1>6. \A at \in 0 .. n + m - 1 : at \in 0 .. n - 1 \/ at \in n .. n + m - 1
  BY <1>1
<1> QED
  BY <1>1, <1>2, <1>3, <1>4, <1>5, <1>6 DEF rows

\* A range that begins in the rows of the result ends there or goes on in the new rows.
LEMMA RangeParts ==
    ASSUME NEW n \in Nat, NEW m \in Nat, NEW low \in Nat, NEW high \in Nat,
           low <= high, high <= n + m,
           NEW w \in Nat, w = IF low < n THEN 0 ELSE low - n,
           NEW u \in Nat, u = IF high < n THEN high ELSE n,
           NEW f \in Nat, f = IF low < u THEN u - low ELSE 0
    PROVE  /\ \A k \in 1 .. f : low + k - 1 \in 0 .. n - 1 /\ low + k <= high
           /\ \E more \in Nat :
                 /\ f + more = high - low
                 /\ 1 .. high - n - w = 1 .. more
                 /\ \A k \in 1 .. more : /\ w + k - 1 \in 0 .. m - 1
                                        /\ n + (w + k - 1) + 1 = low + f + k
<1>1. CASE high <= n
  <2>1. f = high - low
    BY <1>1
  <2>2. 1 .. high - n - w = 1 .. 0
    <3>1. high - n - w \in Int /\ high - n - w <= 0
      BY <1>1
    <3> QED
      BY <3>1
  <2>3. f + 0 = high - low
    BY <2>1
  <2>4. \A k \in 1 .. f : low + k - 1 \in 0 .. n - 1 /\ low + k <= high
    BY <1>1, <2>1
  <2> QED
    BY <2>2, <2>3, <2>4
<1>2. CASE high > n /\ low < n
  <2>1. f = n - low /\ w = 0 /\ high - n \in Nat
    BY <1>2
  <2>2. PICK more \in Nat : more = high - n
    BY <2>1
  <2>3. \A k \in 1 .. f : low + k - 1 \in 0 .. n - 1 /\ low + k <= high
    BY <1>2, <2>1
  <2>4. \A k \in 1 .. more : /\ w + k - 1 \in 0 .. m - 1
                            /\ n + (w + k - 1) + 1 = low + f + k
    BY <1>2, <2>1, <2>2
  <2>5. f + more = high - low /\ high - n - w = more /\ f \in Nat
    BY <1>2, <2>1, <2>2
  <2> QED
    BY <2>1, <2>3, <2>4, <2>5
<1>3. CASE high > n /\ low >= n
  <2>1. f = 0 /\ w = low - n /\ w \in Nat /\ high - low \in Nat
    BY <1>3
  <2>2. PICK more \in Nat : more = high - low
    BY <2>1
  <2>4. \A k \in 1 .. more : /\ w + k - 1 \in 0 .. m - 1
                            /\ n + (w + k - 1) + 1 = low + f + k
    BY <1>3, <2>1, <2>2
  <2>5. f + more = high - low /\ high - n - w = more /\ f \in Nat
    BY <1>3, <2>1, <2>2
  <2> QED
    BY <2>1, <2>4, <2>5
<1> QED
  BY <1>1, <1>2, <1>3

\* A range of the windowed view is that part of the rows laid out.
LEMMA WindowedRanges ==
    ASSUME NEW d \in ViewDrafts, NEW first \in Nat, NEW end \in Nat
    PROVE  WindowedRowsInRange(d, first, end)
              = SubSeq(BuildRows(d), Clamp(first, 0, Len(BuildRows(d))) + 1,
                                     Clamp(end, 0, Len(BuildRows(d))))
<1>1. PICK n \in Nat, m \in Nat : n = OriginalCount(d) /\ m = Len(d.newRows)
  BY KeptRanks, StagedRowsAreRows, CountIs
<1>2. PICK low \in Nat, high \in Nat :
        /\ low = Clamp(first, 0, n + m) /\ high = Clamp(end, low, n + m)
        /\ low <= high /\ high <= n + m
  <2>1. Clamp(first, 0, n + m) \in 0 .. n + m
    BY <1>1 DEF Clamp
  <2>2. PICK low \in 0 .. n + m : low = Clamp(first, 0, n + m)
    BY <2>1
  <2>3. Clamp(end, low, n + m) \in low .. n + m
    BY <1>1 DEF Clamp
  <2>4. /\ Clamp(end, low, n + m) \in Nat /\ low <= Clamp(end, low, n + m)
        /\ Clamp(end, low, n + m) <= n + m
    BY <2>3, <1>1
  <2> QED
    BY <2>2, <2>4, <1>1
<1> DEFINE new   == IF low < n THEN 0 ELSE low - n
           upTo  == IF high < n THEN high ELSE n
           far   == IF low < upTo THEN upTo - low ELSE 0
<1>3. /\ new \in Nat /\ far \in Nat
      /\ \A k \in 1 .. far : low + k - 1 \in 0 .. n - 1 /\ low + k <= high
      /\ \E more \in Nat :
            /\ far + more = high - low
            /\ 1 .. high - n - new = 1 .. more
            /\ \A k \in 1 .. more : new + k - 1 \in 0 .. m - 1 /\ n + (new + k - 1) + 1 = low + far + k
  <2>1. low \in Nat /\ high \in Nat /\ low <= high /\ high <= n + m
    BY <1>1, <1>2
  <2>2. PICK f \in Nat, w \in Nat, u \in Nat : f = far /\ w = new /\ u = upTo
    BY <2>1, <1>1
  <2>3. /\ w = IF low < n THEN 0 ELSE low - n
        /\ u = IF high < n THEN high ELSE n
        /\ f = IF low < u THEN u - low ELSE 0
    BY <2>2
  <2> HIDE DEF far, new, upTo
  <2>4. /\ \A k \in 1 .. f : low + k - 1 \in 0 .. n - 1 /\ low + k <= high
        /\ \E more \in Nat :
              /\ f + more = high - low
              /\ 1 .. high - n - w = 1 .. more
              /\ \A k \in 1 .. more : w + k - 1 \in 0 .. m - 1 /\ n + (w + k - 1) + 1 = low + f + k
    <3>1. low <= high /\ high <= n + m
      BY <2>1
    <3>2. w = IF low < n THEN 0 ELSE low - n
      BY <2>3
    <3>3. u = IF high < n THEN high ELSE n
      BY <2>3
    <3>4. f = IF low < u THEN u - low ELSE 0
      BY <2>3
    <3> QED
      BY <3>1, <3>2, <3>3, <3>4, RangeParts
  <2> QED
    BY <2>2, <2>4
<1>4. PICK rows \in Seq(GridRows) : rows = BuildRows(d)
  BY RowsLaidOut
<1>5. /\ Len(rows) = n + m /\ WindowedCount(d) = n + m
      /\ \A at \in 0 .. n - 1 : rows[at + 1] = OriginalRow(d, ShownOriginal(d, at))
      /\ \A j \in 0 .. m - 1 : rows[n + j + 1] = NewRow(d, j)
  BY <1>1, <1>4, RowsLaidOut DEF WindowedCount
<1> DEFINE Index(at) == OriginalIndexForDisplayIndex(d, at)
           found == {at \in low .. high - 1 :
                        at < n /\ \A x \in low .. at : Index(x) < Count}
           upper == [k \in 1 .. Cardinality(found) |-> OriginalRow(d, Index(low + k - 1))]
           lower == [k \in 1 .. high - n - new |-> NewRow(d, new + k - 1)]
<1>6. WindowedRowsInRange(d, first, end) = upper \o lower
  BY <1>1, <1>5, <1>2 DEF WindowedRowsInRange
<1>7. \A at \in 0 .. n - 1 : Index(at) = ShownOriginal(d, at) /\ Index(at) < Count
  <2> SUFFICES ASSUME NEW at \in 0 .. n - 1
               PROVE  Index(at) = ShownOriginal(d, at) /\ Index(at) < Count
    OBVIOUS
  <2>1. Index(at) = ShownOriginal(d, at) /\ ShownOriginal(d, at) \in 0 .. Count - 1
    BY <1>1, SearchFinds, ShownOriginalIs
  <2> QED
    BY <2>1, CountIs
<1> HIDE DEF Index
<1>8. found = low .. low + far - 1
  <2>1. ASSUME NEW at \in low .. high - 1, at < n
        PROVE  \A x \in low .. at : Index(x) < Count
    <3>1. \A x \in low .. at : x \in 0 .. n - 1
      BY <2>1, <1>1
    <3> QED
      BY <3>1, <1>7
  <2>2. found = {at \in low .. high - 1 : at < n}
    BY <2>1
  <2> HIDE DEF found
  <2> QED
    BY <2>2, <1>1, <1>2
<1>9. far \in Nat /\ Cardinality(found) = far
  <2>1. far \in Nat
    BY <1>1
  <2>2. PICK a \in Int, b \in Int : a = low /\ b = low + far - 1
    BY ONLY <2>1, <1>1
  <2>3. Cardinality(a .. b) = IF a > b THEN 0 ELSE b - a + 1
    BY FS_Interval
  <2>4. (IF a > b THEN 0 ELSE b - a + 1) = far
    BY <2>1, <2>2, <1>1
  <2> HIDE DEF found, far
  <2> QED
    BY <2>1, <2>2, <2>3, <2>4, <1>8
<1> HIDE DEF found
<1>10. PICK more \in Nat :
        /\ far + more = high - low
        /\ 1 .. high - n - new = 1 .. more
        /\ \A k \in 1 .. more : new + k - 1 \in 0 .. m - 1 /\ n + (new + k - 1) + 1 = low + far + k
  BY <1>3
<1> HIDE DEF far, new, upTo
<1>11. upper \in Seq(GridRows) /\ Len(upper) = far /\ \A k \in 1 .. far : upper[k] = rows[low + k]
  <2>1. ASSUME NEW k \in 1 .. far
        PROVE  /\ OriginalRow(d, Index(low + k - 1)) = rows[low + k]
               /\ rows[low + k] \in GridRows
    <3>0. low + k - 1 \in 0 .. n - 1 /\ low + k - 1 + 1 = low + k
      BY <1>3
    <3>1. PICK at \in 0 .. n - 1 : at = low + k - 1 /\ at + 1 = low + k
      BY <3>0
    <3>2. rows[at + 1] = OriginalRow(d, Index(at))
      BY <1>5, <1>7
    <3>3. low + k \in 1 .. Len(rows)
      BY <3>1, <1>1, <1>5
    <3> QED
      BY <3>1, <3>2, <3>3
  <2>2. upper = [k \in 1 .. far |-> OriginalRow(d, Index(low + k - 1))]
    BY <1>9
  <2> HIDE DEF upper
  <2>3. upper = [k \in 1 .. far |-> rows[low + k]]
    BY <2>1, <2>2
  <2>4. far \in Nat
    BY <1>9
  <2>5. \A k \in 1 .. far : rows[low + k] \in GridRows
    BY <2>1
  <2> QED
    BY ONLY <2>3, <2>4, <2>5
<1>12. lower \in Seq(GridRows) /\ Len(lower) = more
       /\ \A k \in 1 .. more : lower[k] = rows[low + far + k]
  <2>1. ASSUME NEW k \in 1 .. more
        PROVE  /\ NewRow(d, new + k - 1) = rows[low + far + k]
               /\ rows[low + far + k] \in GridRows
    <3>1. PICK j \in 0 .. m - 1 : j = new + k - 1 /\ n + j + 1 = low + far + k
      BY <1>10
    <3>2. rows[n + j + 1] = NewRow(d, j)
      BY <1>5
    <3>3. n + j + 1 \in 1 .. Len(rows)
      BY <1>1, <1>5
    <3>4. rows[n + j + 1] \in GridRows
      BY <3>3
    <3> QED
      BY <3>1, <3>2, <3>4
  <2>2. lower = [k \in 1 .. more |-> NewRow(d, new + k - 1)]
    <3>1. 1 .. high - n - new = 1 .. more
      BY <1>10
    <3> QED
      BY <3>1
  <2> HIDE DEF lower
  <2>3. lower = [k \in 1 .. more |-> rows[low + far + k]]
    BY <2>1, <2>2
  <2> QED
    BY <2>1, <2>3
<1> HIDE DEF upper, lower
<1>13. upper \o lower = [k \in 1 .. high - low |-> rows[low + k]]
  <2>1. PICK u \in Seq(GridRows), l \in Seq(GridRows) : u = upper /\ l = lower
    BY <1>11, <1>12
  <2>2. /\ u \o l \in Seq(GridRows) /\ Len(u \o l) = Len(u) + Len(l)
        /\ \A i \in 1 .. Len(u) + Len(l) :
              (u \o l)[i] = IF i <= Len(u) THEN u[i] ELSE l[i - Len(u)]
    BY ONLY u \in Seq(GridRows), l \in Seq(GridRows), ConcatProperties
  <2>3. PICK w \in Seq(GridRows) : w = u \o l
    BY <2>2
  <2>4. /\ Len(w) = high - low
        /\ \A i \in 1 .. high - low : w[i] = IF i <= far THEN upper[i] ELSE lower[i - far]
    BY <2>1, <2>2, <2>3, <1>10, <1>11, <1>12
  <2>5. ASSUME NEW i \in 1 .. high - low
        PROVE  w[i] = rows[low + i]
    <3>1. CASE i <= far
      <4>1. i \in 1 .. far
        BY <3>1, <1>9
      <4> QED
        BY <3>1, <4>1, <2>4, <1>11
    <3>2. CASE i > far
      <4>1. i - far \in 1 .. more /\ low + far + (i - far) = low + i /\ ~(i <= far)
        BY <3>2, <1>9, <1>10
      <4>2. PICK j \in 1 .. more : j = i - far
        BY <4>1
      <4>3. lower[j] = rows[low + far + j] /\ low + far + j = low + i
        BY <4>1, <4>2, <1>12
      <4> QED
        BY <4>1, <4>2, <4>3, <2>4
    <3> QED
      BY <3>1, <3>2, <1>9
  <2>6. w = [i \in 1 .. Len(w) |-> w[i]]
    OBVIOUS
  <2> QED
    BY <2>1, <2>3, <2>4, <2>5, <2>6
<1>14. Clamp(end, 0, n + m) = IF low <= Clamp(end, 0, n + m) THEN high ELSE Clamp(end, 0, n + m)
  BY <1>1, <1>2 DEF Clamp
<1>15. PICK to \in 0 .. n + m : to = Clamp(end, 0, n + m)
  BY <1>1 DEF Clamp
<1>16. high = IF low <= to THEN to ELSE low
  BY <1>1, <1>2, <1>15 DEF Clamp
<1>17. SubSeq(rows, low + 1, to) = [k \in 1 .. high - low |-> rows[low + k]]
  <2>1. PICK a \in Int, b \in Int : a = low + 1 /\ b = to
    BY <1>1
  <2>2. SubSeq(rows, a, b) = [k \in 1 .. (IF a <= b THEN b - a + 1 ELSE 0) |-> rows[a + k - 1]]
    <3>1. a \in 1 .. Len(rows) + 1 /\ b \in 0 .. Len(rows)
      <4>1. low <= n + m
        BY ONLY low \in Nat, high \in Nat, n \in Nat, m \in Nat, <1>2
      <4>2. low + 1 \in 1 .. n + m + 1 /\ to \in 0 .. n + m
        BY ONLY low \in Nat, n \in Nat, m \in Nat, to \in 0 .. n + m, <4>1
      <4> QED
        BY ONLY <2>1, <4>2, <1>5
    <3> QED
      BY <3>1
  <2>3. (IF a <= b THEN b - a + 1 ELSE 0) = high - low /\ \A k \in Int : a + k - 1 = low + k
    BY <2>1, <1>1, <1>16
  <2> QED
    BY <2>1, <2>2, <2>3
<1> QED
  BY <1>4, <1>5, <1>2, <1>6, <1>13, <1>15, <1>17

\* Whatever is staged, the windowed view shows what laying the rows out would show.
LEMMA WindowedIsLaidOut ==
    ASSUME staged \in ViewDrafts
    PROVE  WindowedShowsTheSame
<1> DEFINE n == Len(BuildRows(staged))
<1>1. PICK d \in ViewDrafts : d = staged
  OBVIOUS
<1>2. PICK rows \in Seq(GridRows) : rows = BuildRows(d)
  BY RowsLaidOut
<1>3. WindowedCount(d) = Len(rows) /\ Len(rows) \in Nat
  BY <1>2, WindowedRows
<1>4. ASSUME NEW at \in 0 .. Len(rows) - 1
      PROVE  WindowedRowAt(d, at) = <<rows[at + 1]>>
  <2>1. at \in Int
    OBVIOUS
  <2> QED
    BY <2>1, <1>2, WindowedRows
<1>5. ASSUME NEW low \in 0 .. Len(rows), NEW high \in 0 .. Len(rows) + 1
      PROVE  WindowedRowsInRange(d, low, high)
                = SubSeq(rows, Clamp(low, 0, Len(rows)) + 1, Clamp(high, 0, Len(rows)))
  <2>1. low \in Nat /\ high \in Nat
    OBVIOUS
  <2> QED
    BY <2>1, <1>2, WindowedRanges
<1>6. ASSUME NEW at \in 0 .. Len(rows) - 1
      PROVE  WindowedIndexForKey(d, rows[at + 1].key) = at
  <2>1. PICK k \in DOMAIN rows : k = at + 1 /\ k - 1 = at
    BY <1>3
  <2>2. WindowedIndexForKey(d, rows[k].key) = k - 1
    BY <1>2, KeysLaidOut
  <2> QED
    BY <2>1, <2>2
<1>7. \A i \in d.deleted : WindowedIndexForKey(d, <<"o", i>>) = -1
  BY KeysLaidOut
<1> QED
  BY <1>1, <1>2, <1>3, <1>4, <1>5, <1>6, <1>7 DEF WindowedShowsTheSame

\* A row put among others is there with them, once.
LEMMA InsertedIs ==
    ASSUME NEW R, NEW s \in Seq(R), NEW entry \in R
    PROVE  /\ Inserted(s, entry) \in Seq(R) /\ Len(Inserted(s, entry)) = Len(s) + 1
           /\ Range(Inserted(s, entry)) = Range(s) \cup {entry}
           /\ entry \notin Range(s) /\ IsInjective(s) => IsInjective(Inserted(s, entry))
<1> DEFINE S == {k \in DOMAIN s : ~Before(entry, s[k])}
<1>1. PICK n \in Nat : n = Len(s) /\ DOMAIN s = 1 .. n
  OBVIOUS
<1>2. PICK p \in Nat : p = Cardinality(S) /\ p <= n
  <2>1. PICK one \in Int : one = 1
    OBVIOUS
  <2>2. IsFiniteSet(one .. n) /\ Cardinality(one .. n) = IF one > n THEN 0 ELSE n - one + 1
    BY ONLY one \in Int, n \in Nat, FS_Interval
  <2>3. (IF one > n THEN 0 ELSE n - one + 1) = n
    BY ONLY <2>1, n \in Nat
  <2>4. S \subseteq one .. n
    BY <1>1, <2>1
  <2> HIDE DEF S
  <2>5. Cardinality(S) \in Nat /\ Cardinality(S) <= n
    <3>1. PICK B : B = one .. n
      OBVIOUS
    <3>2. IsFiniteSet(B) /\ Cardinality(B) = n /\ S \subseteq B
      BY ONLY <3>1, <2>2, <2>3, <2>4
    <3> QED
      BY ONLY <3>2, FS_Subset, FS_CardinalityType
  <2> QED
    BY ONLY n \in Nat, <2>5
<1>3. PICK q : q = p + 1
  OBVIOUS
<1>4. Inserted(s, entry) = InsertAt(s, q, entry)
  BY <1>2, <1>3 DEF Inserted
<1> HIDE DEF S
<1>5. q \in 1 .. Len(s) + 1
  BY ONLY n \in Nat, p \in Nat, <1>1, <1>2, <1>3
<1> QED
  <2>1. /\ InsertAt(s, q, entry) \in Seq(R) /\ Len(InsertAt(s, q, entry)) = Len(s) + 1
        /\ Range(InsertAt(s, q, entry)) = Range(s) \cup {entry}
        /\ entry \notin Range(s) /\ IsInjective(s) => IsInjective(InsertAt(s, q, entry))
    BY ONLY s \in Seq(R), entry \in R, <1>5, InsertionKeeps, Zenon
  <2> QED
    BY ONLY <2>1, <1>4

\* The elements of a sequence, up to a place.
FirstOf(s, k) == {s[i] : i \in 1 .. k}

\* Sorted rows are the rows, each as often as before.
LEMMA SortedIs ==
    ASSUME NEW R, NEW rows \in Seq(R)
    PROVE  /\ Sorted(rows) \in Seq(R) /\ Len(Sorted(rows)) = Len(rows)
           /\ Range(Sorted(rows)) = Range(rows)
           /\ IsInjective(rows) => IsInjective(Sorted(rows))
<1>1. PICK n \in Nat : n = Len(rows)
  OBVIOUS
<1>2. \A k \in 1 .. n : rows[k] \in R
  BY <1>1
<1> DEFINE A == Seq(R)
           step == [k \in 1 .. n |-> [a \in A |-> Inserted(a, rows[k])]]
           Done(F) == [k \in 0 .. n |-> IF k = 0 THEN << >> ELSE Inserted(F[k - 1], rows[k])]
           done == CHOOSE F : F = Done(F)
<1>3. \A k \in 1 .. n, a \in A :
         /\ Inserted(a, rows[k]) \in A /\ Len(Inserted(a, rows[k])) = Len(a) + 1
         /\ Range(Inserted(a, rows[k])) = Range(a) \cup {rows[k]}
         /\ rows[k] \notin Range(a) /\ IsInjective(a) => IsInjective(Inserted(a, rows[k]))
  BY <1>2, InsertedIs
<1>4. << >> \in A
  OBVIOUS
<1>5. PICK G \in [0 .. n -> A] : G[0] = << >> /\ \A k \in 1 .. n : G[k] = Inserted(G[k - 1], rows[k])
  <2>1. step \in [1 .. n -> [A -> A]]
    BY <1>3
  <2>2. \A k \in 1 .. n, a \in A : step[k][a] = Inserted(a, rows[k])
    OBVIOUS
  <2>3. PICK first : first = << >>
    OBVIOUS
  <2> HIDE DEF step, A
  <2>4. PICK G \in [0 .. n -> A] : IsFold(G, n, first, step)
    <3>1. CanFold(A, n, first, step)
      BY ONLY n \in Nat, <2>1, <2>3, <1>4 DEF CanFold
    <3> QED
      BY ONLY <3>1, FoldIsThere
  <2>5. \A k \in 1 .. n : G[k - 1] \in A
    <3>1. \A k \in 1 .. n : k - 1 \in 0 .. n
      BY ONLY n \in Nat
    <3> QED
      BY ONLY <3>1, G \in [0 .. n -> A]
  <2> QED
    BY ONLY <2>2, <2>3, <2>4, <2>5 DEF IsFold
<1>6. done = Done(done)
  <2>1. G = Done(G)
    <3>1. \A k \in 0 .. n : k # 0 => k \in 1 .. n
      BY ONLY n \in Nat
    <3> QED
      BY ONLY G \in [0 .. n -> A], <1>5, <3>1
  <2> HIDE DEF Done
  <2> QED
    BY <2>1
<1>7. Sorted(rows) = IF sortRules = << >> THEN rows ELSE done[n]
  BY <1>1 DEF Sorted
<1> HIDE DEF done, A
<1> DEFINE S == {k \in 0 .. n : /\ done[k] \in A /\ Len(done[k]) = k
                                /\ Range(done[k]) = FirstOf(rows, k)
                                /\ IsInjective(rows) => IsInjective(done[k])}
<1>8. DOMAIN rows = 1 .. n
  BY <1>1
<1>9. done[0] = << >> /\ \A k \in 1 .. n : done[k] = Inserted(done[k - 1], rows[k])
  <2>1. 0 \in 0 .. n /\ \A k \in 1 .. n : k \in 0 .. n /\ k # 0
    BY ONLY n \in Nat
  <2> QED
    BY ONLY <1>6, <2>1
<1>10. 0 \in S
  <2>1. Len(<< >>) = 0 /\ Range(<< >>) = {} /\ IsInjective(<< >>)
    BY DEF Range, IsInjective
  <2>2. FirstOf(rows, 0) = {}
    BY DEF FirstOf
  <2> QED
    <3>1. 0 \in 0 .. n
      BY ONLY n \in Nat
    <3>2. /\ done[0] \in A /\ Len(done[0]) = 0 /\ Range(done[0]) = FirstOf(rows, 0)
          /\ IsInjective(done[0])
      BY ONLY <1>4, <1>9, <2>1, <2>2
    <3> QED
      BY ONLY <3>1, <3>2
<1>11. ASSUME NEW k \in 0 .. n - 1, k \in S
       PROVE  k + 1 \in S
  <2>1. PICK a \in A : a = done[k]
    BY <1>11
  <2>2. k + 1 \in 1 .. n /\ k + 1 - 1 = k /\ k + 1 \in 0 .. n
    BY ONLY n \in Nat, k \in 0 .. n - 1
  <2>3. PICK l \in 1 .. n : l = k + 1
    BY <2>2
  <2>4. done[l] = Inserted(a, rows[l])
    BY ONLY <2>1, <2>2, <2>3, <1>9
  <2>5. FirstOf(rows, l) = FirstOf(rows, k) \cup {rows[l]}
    <3>1. \A i : i \in 1 .. l <=> i \in 1 .. k \/ i = l
      BY ONLY <2>3, n \in Nat, k \in 0 .. n - 1
    <3> QED
      BY ONLY <3>1 DEF FirstOf
  <2>6. IsInjective(rows) => rows[l] \notin FirstOf(rows, k)
    <3>1. \A i \in 1 .. k : i \in 1 .. n /\ i # l
      BY ONLY <2>3, n \in Nat, k \in 0 .. n - 1
    <3> QED
      BY ONLY <3>1, <1>8, l \in 1 .. n DEF FirstOf, IsInjective
  <2>7. /\ Len(a) = k /\ Range(a) = FirstOf(rows, k)
        /\ IsInjective(rows) => IsInjective(a)
    BY ONLY <1>11, <2>1
  <2>8. /\ Inserted(a, rows[l]) \in A /\ Len(Inserted(a, rows[l])) = Len(a) + 1
        /\ Range(Inserted(a, rows[l])) = Range(a) \cup {rows[l]}
        /\ rows[l] \notin Range(a) /\ IsInjective(a) => IsInjective(Inserted(a, rows[l]))
    BY ONLY <1>3, a \in A, l \in 1 .. n
  <2>9. /\ done[l] \in A /\ Len(done[l]) = l /\ Range(done[l]) = FirstOf(rows, l)
        /\ IsInjective(rows) => IsInjective(done[l])
    BY ONLY <2>3, <2>4, <2>5, <2>6, <2>7, <2>8
  <2> QED
    BY ONLY <2>2, <2>3, <2>9
<1>12. n \in S
  <2>1. \A k \in 0 .. n - 1 : k \in S => k + 1 \in S
    BY <1>11
  <2> HIDE DEF S
  <2>2. \A k \in 0 .. n : k \in S
    BY ONLY n \in Nat, <1>10, <2>1, StepByStep
  <2> QED
    BY <2>2
<1>13. FirstOf(rows, n) = Range(rows)
  BY <1>8 DEF FirstOf, Range
<1> QED
  BY <1>1, <1>7, <1>12, <1>13 DEF A

\* Rows laid out are told apart by their keys.
LEMMA KeysAreApart ==
    ASSUME NEW d \in ViewDrafts,
           NEW k \in DOMAIN BuildRows(d), NEW l \in DOMAIN BuildRows(d),
           BuildRows(d)[k].key = BuildRows(d)[l].key
    PROVE  k = l
<1>1. \A i \in DOMAIN BuildRows(d) : i \in Int
  <2>1. BuildRows(d) \in Seq(GridRows)
    BY RowsLaidOut
  <2> QED
    BY <2>1
<1>2. k - 1 = l - 1
  BY KeysLaidOut
<1> QED
  BY ONLY <1>1, <1>2, k \in DOMAIN BuildRows(d), l \in DOMAIN BuildRows(d)

\* Shown are rows laid out, each once; without filters and sort rules all, in place.
LEMMA DisplayedRows ==
    ASSUME NEW d \in ViewDrafts
    PROVE  /\ BuildRows(d) \in Seq(GridRows) /\ DisplayRows(d) \in Seq(GridRows)
           /\ Range(DisplayRows(d)) \subseteq Range(BuildRows(d))
           /\ \A k, l \in DOMAIN DisplayRows(d) :
                 DisplayRows(d)[k].key = DisplayRows(d)[l].key => k = l
           /\ Windowed => DisplayRows(d) = BuildRows(d)
<1> DEFINE rows == BuildRows(d)
           places == {k \in DOMAIN rows : Passes(rows[k])}
           part == Picked(rows, places)
           shown == IF FiltersActive THEN part ELSE rows
<1>1. rows \in Seq(GridRows)
  BY RowsLaidOut
<1>2. DisplayRows(d) = Sorted(shown)
  BY DEF DisplayRows
<1>3. \A k, l \in DOMAIN rows : rows[k].key = rows[l].key => k = l
  BY KeysAreApart
<1> HIDE DEF rows
<1>4. IsInjective(rows)
  BY <1>3 DEF IsInjective
<1>5. part \in Seq(GridRows) /\ Range(part) \subseteq Range(rows) /\ IsInjective(part)
  <2>1. places \in SUBSET DOMAIN rows
    OBVIOUS
  <2>2. \A k, l \in places : rows[k] = rows[l] => k = l
    BY <1>3
  <2> HIDE DEF places
  <2>3. part \in Seq(GridRows) /\ Range(part) = {rows[i] : i \in places}
    BY <1>1, <2>1, PickedIs
  <2>4. IsInjective(part)
    BY <1>1, <2>1, <2>2, PickedInjective
  <2>5. Range(part) \subseteq Range(rows)
    BY <2>1, <2>3 DEF Range
  <2> QED
    BY <2>3, <2>4, <2>5
<1> HIDE DEF part
<1>6. shown \in Seq(GridRows) /\ Range(shown) \subseteq Range(rows) /\ IsInjective(shown)
  BY <1>1, <1>4, <1>5
<1> HIDE DEF shown
<1>7. /\ Sorted(shown) \in Seq(GridRows) /\ Range(Sorted(shown)) = Range(shown)
      /\ IsInjective(Sorted(shown))
  BY <1>6, SortedIs
<1>8. ASSUME NEW k \in DOMAIN Sorted(shown), NEW l \in DOMAIN Sorted(shown),
             Sorted(shown)[k].key = Sorted(shown)[l].key
      PROVE  k = l
  <2>1. PICK s : s = Sorted(shown)
    OBVIOUS
  <2>2. s[k] \in Range(rows) /\ s[l] \in Range(rows)
    BY <2>1, <1>6, <1>7 DEF Range
  <2>3. PICK i \in DOMAIN rows, j \in DOMAIN rows : rows[i] = s[k] /\ rows[j] = s[l]
    BY <2>2 DEF Range
  <2>4. i = j
    BY <2>1, <2>3, <1>3, <1>8
  <2> QED
    BY <2>1, <2>3, <2>4, <1>7 DEF IsInjective
<1>9. Windowed => Sorted(shown) = rows
  BY DEF Windowed, Sorted, shown
<1> QED
  BY <1>1, <1>2, <1>6, <1>7, <1>8, <1>9 DEF rows

\* A key of the draft: of a row of the result that is kept, or of a new row.
KeysOf(d) == ({"o"} \X KeptRows(d)) \cup ({"n"} \X (0 .. Len(d.newRows) - 1))

\* A row shown has a key of the draft, which is a key of the grid.
LEMMA KeysShown ==
    ASSUME NEW d \in ViewDrafts, NEW k \in DOMAIN DisplayRows(d)
    PROVE  /\ DisplayRows(d)[k].key \in KeysOf(d) /\ DisplayRows(d)[k].key \in RowKeys
           /\ DisplayRows(d)[k] \in Range(BuildRows(d))
<1>1. DisplayRows(d)[k] \in Range(BuildRows(d))
  BY DisplayedRows DEF Range
<1>2. PICK i \in DOMAIN BuildRows(d) : DisplayRows(d)[k] = BuildRows(d)[i]
  BY <1>1 DEF Range
<1>3. PICK key : key = BuildRows(d)[i].key
  OBVIOUS
<1>4. \/ key[1] = "o" /\ key[2] \in KeptRows(d) /\ key = <<"o", key[2]>>
      \/ key[1] = "n" /\ key[2] \in 0 .. Len(d.newRows) - 1 /\ key = <<"n", key[2]>>
  BY <1>3, KeysLaidOut
<1>5. key \in KeysOf(d)
  BY <1>4 DEF KeysOf
<1>6. KeptRows(d) \subseteq 0 .. Count - 1 /\ 0 .. Len(d.newRows) - 1 \subseteq Nat
  BY RowsLaidOut DEF KeptRows
<1>7. key \in RowKeys
  BY <1>4, <1>6 DEF RowKeys
<1> QED
  BY <1>1, <1>2, <1>3, <1>5, <1>7

\* A row found at a position is a row shown.
LEMMA RowsFound ==
    ASSUME staged \in ViewDrafts, NEW at \in Int
    PROVE  \/ RowAt(at) = << >> /\ at \notin 0 .. TotalRows - 1
           \/ /\ at \in 0 .. TotalRows - 1 /\ at + 1 \in DOMAIN DisplayRows(staged)
              /\ RowAt(at) = <<DisplayRows(staged)[at + 1]>>
<1> DEFINE shown == DisplayRows(staged)
<1>1. shown \in Seq(GridRows) /\ (Windowed => shown = BuildRows(staged))
  BY DisplayedRows
<1>2. CASE Windowed
  <2>1. TotalRows = Len(shown) /\ RowAt(at) = WindowedRowAt(staged, at)
    BY <1>1, <1>2, WindowedRows DEF TotalRows, RowAt, RowOf
  <2>2. WindowedRowAt(staged, at) = IF at \in 0 .. Len(shown) - 1 THEN <<shown[at + 1]>> ELSE << >>
    BY <1>1, <1>2, WindowedRows
  <2> HIDE DEF shown
  <2>3. at \in 0 .. Len(shown) - 1 => at + 1 \in DOMAIN shown
    <3>1. DOMAIN shown = 1 .. Len(shown) /\ Len(shown) \in Nat
      BY <1>1
    <3> QED
      BY ONLY <3>1, at \in Int
  <2> QED
    BY <2>1, <2>2, <2>3 DEF shown
<1>3. CASE ~Windowed
  <2>1. /\ TotalRows = Len(shown)
        /\ RowAt(at) = IF at \in 0 .. Len(shown) - 1 THEN <<shown[at + 1]>> ELSE << >>
    BY <1>3 DEF TotalRows, RowAt, RowOf
  <2> HIDE DEF shown
  <2>3. at \in 0 .. Len(shown) - 1 => at + 1 \in DOMAIN shown
    <3>1. DOMAIN shown = 1 .. Len(shown) /\ Len(shown) \in Nat
      BY <1>1
    <3> QED
      BY ONLY <3>1, at \in Int
  <2> QED
    BY <2>1, <2>3 DEF shown
<1> QED
  BY <1>2, <1>3

\* Drafts without an edit of a deleted row, or of a cell to what was read.
SoundDrafts ==
    {d \in ViewDrafts : \A x \in DOMAIN d.edits :
        x[1] \notin d.deleted /\ d.edits[x] # Original[x[1] + 1][x[2]]}

\* What the draft says a cell is.
CellOf(d, key, c) ==
    IF key[1] = "n" THEN d.newRows[key[2] + 1][c]
    ELSE IF <<key[2], c>> \in DOMAIN d.edits THEN d.edits[<<key[2], c>>]
    ELSE Original[key[2] + 1][c]

\* A change of cells: the rows stay what they are.
SameRows(e, d) == e.deleted = d.deleted /\ Len(e.newRows) = Len(d.newRows)

\* The parts of a sound draft.
LEMMA DraftsAre ==
    ASSUME NEW d \in SoundDrafts
    PROVE  /\ d \in ViewDrafts /\ d.newRows \in Seq([Cols -> Nat])
           /\ d.deleted \in SUBSET (0 .. Count - 1)
           /\ DOMAIN d.edits \subseteq (0 .. Count - 1) \X Cols
           /\ \A x \in DOMAIN d.edits : d.edits[x] \in Nat
           /\ d = [edits |-> d.edits, newRows |-> d.newRows, deleted |-> d.deleted]
BY DEF SoundDrafts, ViewDrafts, ViewEdits

\* A draft with such parts is sound.
LEMMA DraftIs ==
    ASSUME NEW e, e = [edits |-> e.edits, newRows |-> e.newRows, deleted |-> e.deleted],
           DOMAIN e.edits \subseteq (0 .. Count - 1) \X Cols,
           e.edits \in [DOMAIN e.edits -> Nat],
           e.newRows \in Seq([Cols -> Nat]), e.deleted \subseteq 0 .. Count - 1,
           \A x \in DOMAIN e.edits :
              x[1] \notin e.deleted /\ e.edits[x] # Original[x[1] + 1][x[2]]
    PROVE  e \in SoundDrafts
<1>1. e.edits \in ViewEdits
  BY DEF ViewEdits
<1>2. e \in ViewDrafts
  BY <1>1 DEF ViewDrafts
<1> QED
  BY <1>2 DEF SoundDrafts

\* A cell is set, and no other.
LEMMA CellIsSet ==
    ASSUME NEW d \in SoundDrafts, NEW key \in KeysOf(d), NEW col \in Cols, NEW value \in Nat
    PROVE  /\ ApplyCellValueToDraft(d, key, col, value) \in SoundDrafts
           /\ SameRows(ApplyCellValueToDraft(d, key, col, value), d)
           /\ \A k \in KeysOf(d), c \in Cols :
                 CellOf(ApplyCellValueToDraft(d, key, col, value), k, c) =
                    IF k = key /\ c = col THEN value ELSE CellOf(d, k, c)
<1> DEFINE e == ApplyCellValueToDraft(d, key, col, value)
<1>1. /\ d \in ViewDrafts /\ d.newRows \in Seq([Cols -> Nat])
      /\ d.deleted \in SUBSET (0 .. Count - 1)
      /\ DOMAIN d.edits \subseteq (0 .. Count - 1) \X Cols
      /\ \A x \in DOMAIN d.edits : d.edits[x] \in Nat
      /\ d = [edits |-> d.edits, newRows |-> d.newRows, deleted |-> d.deleted]
      /\ \A x \in DOMAIN d.edits :
            x[1] \notin d.deleted /\ d.edits[x] # Original[x[1] + 1][x[2]]
  BY DraftsAre DEF SoundDrafts
<1>2. PICK n \in Nat : n = Len(d.newRows)
  BY <1>1
<1>3. /\ KeysOf(d) = ({"o"} \X KeptRows(d)) \cup ({"n"} \X (0 .. n - 1))
      /\ \A i \in KeptRows(d) : i \in 0 .. Count - 1 /\ i \notin d.deleted /\ i + 1 \in 1 .. Count
  BY <1>2, CountIs DEF KeysOf, KeptRows
<1>4. CASE key[1] = "o"
  <2>1. PICK i \in KeptRows(d) : key = <<"o", i>>
    BY <1>3, <1>4
  <2> DEFINE at == <<i, col>>
  <2>2. CASE value = Original[i + 1][col]
    <3> DEFINE D == DOMAIN d.edits \ {at}
               f == [x \in D |-> d.edits[x]]
    <3>1. e = [edits |-> f, newRows |-> d.newRows, deleted |-> d.deleted]
      BY <1>1, <2>1, <2>2 DEF ApplyCellValueToDraft
    <3>2. e \in SoundDrafts
      <4>1. D \subseteq (0 .. Count - 1) \X Cols /\ f \in [D -> Nat]
        BY <1>1
      <4>2. \A x \in D : x[1] \notin d.deleted /\ f[x] # Original[x[1] + 1][x[2]]
        BY <1>1
      <4> HIDE DEF D, f, e
      <4>3. /\ e = [edits |-> e.edits, newRows |-> e.newRows, deleted |-> e.deleted]
            /\ e.edits = f /\ DOMAIN e.edits = D
            /\ e.newRows = d.newRows /\ e.deleted = d.deleted
        BY <3>1, <4>1
      <4> QED
        BY <1>1, <4>1, <4>2, <4>3, DraftIs
    <3>3. ASSUME NEW k \in KeysOf(d), NEW c \in Cols
          PROVE  CellOf(e, k, c) = IF k = key /\ c = col THEN value ELSE CellOf(d, k, c)
      <4>1. k[1] = "n" => k # key /\ CellOf(e, k, c) = CellOf(d, k, c)
        BY <3>1, <2>1 DEF CellOf
      <4>2. ASSUME NEW j \in KeptRows(d), k = <<"o", j>>
            PROVE  CellOf(e, k, c) = IF k = key /\ c = col THEN value ELSE CellOf(d, k, c)
        BY <3>1, <2>1, <2>2, <4>2 DEF CellOf
      <4> HIDE DEF e
      <4> QED
        BY <1>3, <4>1, <4>2
    <3>4. SameRows(e, d)
      BY <3>1 DEF SameRows
    <3> QED
      BY <3>2, <3>3, <3>4
  <2>3. CASE value # Original[i + 1][col]
    <3> DEFINE D == DOMAIN d.edits \cup {at}
               f == [x \in D |-> IF x = at THEN value ELSE d.edits[x]]
    <3>1. e = [edits |-> f, newRows |-> d.newRows, deleted |-> d.deleted]
      BY <1>1, <2>1, <2>3 DEF ApplyCellValueToDraft
    <3>2. e \in SoundDrafts
      <4>1. D \subseteq (0 .. Count - 1) \X Cols /\ f \in [D -> Nat]
        BY <1>1, <1>3
      <4>2. \A x \in D : x[1] \notin d.deleted /\ f[x] # Original[x[1] + 1][x[2]]
        BY <1>1, <1>3, <2>3
      <4> HIDE DEF D, f, e
      <4>3. /\ e = [edits |-> e.edits, newRows |-> e.newRows, deleted |-> e.deleted]
            /\ e.edits = f /\ DOMAIN e.edits = D
            /\ e.newRows = d.newRows /\ e.deleted = d.deleted
        BY <3>1, <4>1
      <4> QED
        BY <1>1, <4>1, <4>2, <4>3, DraftIs
    <3>3. ASSUME NEW k \in KeysOf(d), NEW c \in Cols
          PROVE  CellOf(e, k, c) = IF k = key /\ c = col THEN value ELSE CellOf(d, k, c)
      <4>1. k[1] = "n" => k # key /\ CellOf(e, k, c) = CellOf(d, k, c)
        BY <3>1, <2>1 DEF CellOf
      <4>2. ASSUME NEW j \in KeptRows(d), k = <<"o", j>>
            PROVE  CellOf(e, k, c) = IF k = key /\ c = col THEN value ELSE CellOf(d, k, c)
        BY <3>1, <2>1, <2>3, <4>2 DEF CellOf
      <4> HIDE DEF e
      <4> QED
        BY <1>3, <4>1, <4>2
    <3>4. SameRows(e, d)
      BY <3>1 DEF SameRows
    <3> QED
      BY <3>2, <3>3, <3>4
  <2> QED
    BY <2>2, <2>3
<1>5. CASE key[1] # "o"
  <2>1. PICK j \in 0 .. n - 1 : key = <<"n", j>>
    BY <1>3, <1>5
  <2>2. PICK l \in 1 .. n : l = j + 1
    BY ONLY n \in Nat, j \in 0 .. n - 1
  <2> DEFINE rows == [d.newRows EXCEPT ![l] = [@ EXCEPT ![col] = value]]
  <2>3. rows \in Seq([Cols -> Nat]) /\ Len(rows) = n
    <3>1. d.newRows[l] \in [Cols -> Nat]
      BY <1>1, <1>2
    <3>2. [d.newRows[l] EXCEPT ![col] = value] \in [Cols -> Nat]
      BY <3>1
    <3> QED
      BY <1>1, <1>2, <3>2
  <2>4. e = [edits |-> d.edits, newRows |-> rows, deleted |-> d.deleted]
    <3>1. key[2] < Len(d.newRows) /\ key[2] + 1 = l /\ key[1] = "n"
      BY <2>1, <2>2, <1>2
    <3>2. e = [d EXCEPT !.newRows[l][col] = value]
      BY <1>5, <3>1 DEF ApplyCellValueToDraft
    <3> QED
      BY <1>1, <3>2
  <2>5. \A c \in Cols : rows[l][c] = IF c = col THEN value ELSE d.newRows[l][c]
    BY <1>1, <1>2
  <2>6. \A m \in 1 .. n : m # l => rows[m] = d.newRows[m]
    BY <1>1, <1>2
  <2> HIDE DEF rows, e
  <2>7. e \in SoundDrafts
    <3>1. /\ e = [edits |-> e.edits, newRows |-> e.newRows, deleted |-> e.deleted]
          /\ e.edits = d.edits /\ e.newRows = rows /\ e.deleted = d.deleted
      BY <2>4
    <3>2. d.edits \in [DOMAIN d.edits -> Nat]
      BY <1>1, DraftsAre DEF ViewDrafts, ViewEdits
    <3> QED
      BY <1>1, <2>3, <3>1, <3>2, DraftIs
  <2>8. ASSUME NEW k \in KeysOf(d), NEW c \in Cols
        PROVE  CellOf(e, k, c) = IF k = key /\ c = col THEN value ELSE CellOf(d, k, c)
    <3>1. k[1] = "o" => k # key /\ CellOf(e, k, c) = CellOf(d, k, c)
      BY <2>4, <2>1 DEF CellOf
    <3>2. ASSUME NEW i \in 0 .. n - 1, k = <<"n", i>>
          PROVE  CellOf(e, k, c) = IF k = key /\ c = col THEN value ELSE CellOf(d, k, c)
      <4>1. PICK m \in 1 .. n : m = i + 1 /\ (m = l <=> i = j)
        BY ONLY n \in Nat, i \in 0 .. n - 1, j \in 0 .. n - 1, <2>2
      <4>2. CellOf(e, k, c) = rows[m][c] /\ CellOf(d, k, c) = d.newRows[m][c]
        BY <2>4, <3>2, <4>1 DEF CellOf
      <4>3. k = key <=> i = j
        BY <3>2, <2>1
      <4> QED
        BY ONLY c \in Cols, <4>1, <4>2, <4>3, <2>5, <2>6
    <3> QED
      BY <1>3, <3>1, <3>2
  <2>9. SameRows(e, d)
    BY <2>3, <2>4, <1>2 DEF SameRows
  <2> QED
    BY <2>7, <2>8, <2>9 DEF e
<1> QED
  BY <1>4, <1>5

\* The same rows staged and deleted: the same keys.
LEMMA SameKeys ==
    ASSUME NEW e, NEW d, SameRows(e, d)
    PROVE  KeysOf(e) = KeysOf(d)
BY DEF SameRows, KeysOf, KeptRows

\* The drafts with the rows of a draft.
DraftsLike(d) == {e \in SoundDrafts : SameRows(e, d)}

\* One cell of a row of a block is pasted, or falls beside the columns.
LEMMA CellIsPasted ==
    ASSUME NEW d \in SoundDrafts, NEW key \in KeysOf(d), NEW a \in DraftsLike(d),
           NEW at \in Int, NEW value \in Nat
    PROVE  /\ ApplyCellValueToDraft(a, key, at, value) \in DraftsLike(d)
           /\ \A k \in KeysOf(d), c \in Cols :
                 CellOf(ApplyCellValueToDraft(a, key, at, value), k, c) =
                    IF k = key /\ c = at THEN value ELSE CellOf(a, k, c)
<1>1. a \in SoundDrafts /\ SameRows(a, d)
  BY DEF DraftsLike
<1>2. KeysOf(a) = KeysOf(d)
  BY <1>1, SameKeys
<1>3. CASE at \in Cols
  <2>1. PICK e : e = ApplyCellValueToDraft(a, key, at, value)
    OBVIOUS
  <2>2. /\ e \in SoundDrafts /\ SameRows(e, a)
        /\ \A k \in KeysOf(d), c \in Cols :
              CellOf(e, k, c) = IF k = key /\ c = at THEN value ELSE CellOf(a, k, c)
    BY <1>1, <1>2, <1>3, <2>1, CellIsSet
  <2>3. SameRows(e, d)
    BY <1>1, <2>2 DEF SameRows
  <2> QED
    BY <2>1, <2>2, <2>3 DEF DraftsLike
<1>4. CASE at \notin Cols
  <2>1. ApplyCellValueToDraft(a, key, at, value) = a
    BY <1>4 DEF ApplyCellValueToDraft
  <2> QED
    BY <2>1, <1>4
<1> QED
  BY <1>3, <1>4

\* A row of a block is pasted on a row: the cells from the column on, and no other.
LEMMA CellsArePasted ==
    ASSUME NEW d \in SoundDrafts, NEW key \in KeysOf(d), NEW col \in Int, NEW cells \in Seq(Nat)
    PROVE  /\ ApplyCells(d, key, col, cells) \in DraftsLike(d)
           /\ \A k \in KeysOf(d), c \in Cols :
                 CellOf(ApplyCells(d, key, col, cells), k, c) =
                    IF k = key /\ c - col + 1 \in DOMAIN cells THEN cells[c - col + 1]
                    ELSE CellOf(d, k, c)
<1>1. PICK n \in Nat : n = Len(cells)
  OBVIOUS
<1>2. DOMAIN cells = 1 .. n /\ (\A k \in 1 .. n : cells[k] \in Nat)
      /\ col \in Int /\ \A c \in Cols : c \in Int
  BY <1>1, CountIs DEF Cols
<1> DEFINE A == DraftsLike(d)
           Pasted(a, k) == ApplyCellValueToDraft(a, key, col + k - 1, cells[k])
           step == [k \in 1 .. n |-> [a \in A |-> Pasted(a, k)]]
           Done(F) == [k \in 0 .. n |-> IF k = 0 THEN d ELSE Pasted(F[k - 1], k)]
           done == CHOOSE F : F = Done(F)
<1>3. ASSUME NEW k \in 1 .. n, NEW a \in A
      PROVE  /\ Pasted(a, k) \in A
             /\ \A x \in KeysOf(d), c \in Cols :
                   CellOf(Pasted(a, k), x, c) =
                      IF x = key /\ c = col + k - 1 THEN cells[k] ELSE CellOf(a, x, c)
  <2>1. PICK at \in Int, value \in Nat : at = col + k - 1 /\ value = cells[k]
    <3>1. col + k - 1 \in Int
      BY ONLY <1>2, k \in 1 .. n
    <3> QED
      BY <1>2, <3>1
  <2>2. /\ ApplyCellValueToDraft(a, key, at, value) \in A
        /\ \A x \in KeysOf(d), c \in Cols :
              CellOf(ApplyCellValueToDraft(a, key, at, value), x, c) =
                 IF x = key /\ c = at THEN value ELSE CellOf(a, x, c)
    BY CellIsPasted
  <2> QED
    BY ONLY <2>1, <2>2
<1>4. d \in A
  BY DEF DraftsLike, SameRows
<1>5. PICK G \in [0 .. n -> A] :
         /\ G[0] = d
         /\ \A k \in 1 .. n : G[k] = Pasted(G[k - 1], k)
  <2>1. step \in [1 .. n -> [A -> A]]
    BY <1>3
  <2>2. \A k \in 1 .. n, a \in A :
           step[k][a] = Pasted(a, k)
    OBVIOUS
  <2> HIDE DEF step, A, Pasted
  <2>3. PICK G \in [0 .. n -> A] : IsFold(G, n, d, step)
    <3>1. CanFold(A, n, d, step)
      BY ONLY n \in Nat, <2>1, <1>4 DEF CanFold
    <3> QED
      BY ONLY <3>1, FoldIsThere
  <2>4. \A k \in 1 .. n : G[k - 1] \in A
    <3>1. \A k \in 1 .. n : k - 1 \in 0 .. n
      BY ONLY n \in Nat
    <3> QED
      BY ONLY <3>1, G \in [0 .. n -> A]
  <2> QED
    BY ONLY <2>2, <2>3, <2>4 DEF IsFold
<1>6. done = Done(done)
  <2> HIDE DEF Pasted
  <2>1. G = Done(G)
    <3>1. \A k \in 0 .. n : k # 0 => k \in 1 .. n
      BY ONLY n \in Nat
    <3> QED
      BY ONLY G \in [0 .. n -> A], <1>5, <3>1
  <2> HIDE DEF Done
  <2> QED
    BY <2>1
<1>7. ApplyCells(d, key, col, cells) = done[n]
  BY <1>1 DEF ApplyCells
<1> HIDE DEF done, A, Pasted
<1>8. /\ done[0] = d
      /\ \A k \in 1 .. n :
            done[k] = Pasted(done[k - 1], k)
  <2>1. 0 \in 0 .. n /\ \A k \in 1 .. n : k \in 0 .. n /\ k # 0
    BY ONLY n \in Nat
  <2> QED
    BY ONLY <1>6, <2>1
<1> DEFINE Set(e, k) == \A x \in KeysOf(d), c \in Cols :
              CellOf(e, x, c) = IF x = key /\ c - col + 1 \in 1 .. k THEN cells[c - col + 1]
                                ELSE CellOf(d, x, c)
           S == {k \in 0 .. n : done[k] \in A /\ Set(done[k], k)}
<1>9. 0 \in S
  <2>1. 0 \in 0 .. n /\ 1 .. 0 = {}
    BY ONLY n \in Nat
  <2>2. Set(done[0], 0)
    BY ONLY <1>8, <2>1
  <2> QED
    BY ONLY <1>4, <1>8, <2>1, <2>2
<1>10. ASSUME NEW k \in 0 .. n - 1, k \in S
       PROVE  k + 1 \in S
  <2>1. PICK l \in 1 .. n : l = k + 1 /\ k = l - 1 /\ l \in 0 .. n
    BY ONLY n \in Nat, k \in 0 .. n - 1
  <2>2. PICK a \in A : a = done[k] /\ Set(a, k)
    BY <1>10
  <2>3. /\ done[l] \in A
        /\ \A x \in KeysOf(d), c \in Cols :
              CellOf(done[l], x, c) =
                 IF x = key /\ c = col + l - 1 THEN cells[l] ELSE CellOf(a, x, c)
    BY ONLY l \in 1 .. n, a \in A, <1>3, <1>8, <2>1, <2>2
  <2>4. ASSUME NEW x \in KeysOf(d), NEW c \in Cols
        PROVE  CellOf(done[l], x, c) = IF x = key /\ c - col + 1 \in 1 .. l THEN cells[c - col + 1]
                                       ELSE CellOf(d, x, c)
    <3>1. CASE c = col + l - 1
      <4>1. c - col + 1 = l /\ l \in 1 .. l /\ ~(l \in 1 .. k)
        BY ONLY <3>1, <1>2, <2>1, l \in 1 .. n, n \in Nat
      <4> QED
        BY ONLY x \in KeysOf(d), c \in Cols, <3>1, <4>1, <2>2, <2>3
    <3>2. CASE c # col + l - 1
      <4>1. c - col + 1 \in 1 .. l <=> c - col + 1 \in 1 .. k
        <5>1. c \in Int /\ col \in Int
          BY <1>2
        <5> QED
          BY ONLY <3>2, <5>1, <2>1, l \in 1 .. n, n \in Nat
      <4> QED
        BY ONLY x \in KeysOf(d), c \in Cols, <3>2, <4>1, <2>2, <2>3
    <3> QED
      BY <3>1, <3>2
  <2>5. Set(done[l], l)
    BY <2>4
  <2> QED
    BY ONLY <2>1, <2>3, <2>5
<1>11. n \in S
  <2>1. \A k \in 0 .. n - 1 : k \in S => k + 1 \in S
    BY <1>10
  <2> HIDE DEF S
  <2>2. \A k \in 0 .. n : k \in S
    BY ONLY n \in Nat, <1>9, <2>1, StepByStep
  <2> QED
    BY <2>2
<1> QED
  BY ONLY <1>2, <1>7, <1>11 DEF A

\* The drafts with the rows of a draft, and more new rows perhaps.
DraftsFrom(d) ==
    {e \in SoundDrafts : e.deleted = d.deleted /\ Len(d.newRows) <= Len(e.newRows)}

\* Pasting deletes no row: the keys there were stay.
LEMMA MoreKeys ==
    ASSUME NEW d \in SoundDrafts, NEW e \in DraftsFrom(d)
    PROVE  KeysOf(d) \subseteq KeysOf(e)
<1>1. PICK m \in Nat, n \in Nat : m = Len(d.newRows) /\ n = Len(e.newRows)
  <2>1. e \in SoundDrafts
    BY DEF DraftsFrom
  <2>2. Len(d.newRows) \in Nat /\ Len(e.newRows) \in Nat
    BY <2>1, DraftsAre, StagedRowsAreRows
  <2> QED
    BY <2>2
<1>2. 0 .. m - 1 \subseteq 0 .. n - 1
  BY <1>1 DEF DraftsFrom
<1> QED
  BY <1>1, <1>2 DEF DraftsFrom, KeysOf, KeptRows

\* A row of a block is pasted on a row, or becomes a new one.
LEMMA RowIsPasted ==
    ASSUME NEW d \in SoundDrafts, NEW a \in DraftsFrom(d), NEW entry, entry.key \in KeysOf(d),
           NEW col \in Int, NEW cells \in Seq(Nat)
    PROVE  /\ PasteRow(a, <<entry>>, col, cells) \in DraftsFrom(d)
           /\ Len(PasteRow(a, <<entry>>, col, cells).newRows) = Len(a.newRows)
           /\ \A k \in KeysOf(d), c \in Cols :
                 CellOf(PasteRow(a, <<entry>>, col, cells), k, c) =
                    IF k = entry.key /\ c - col + 1 \in DOMAIN cells THEN cells[c - col + 1]
                    ELSE CellOf(a, k, c)
<1>1. PasteRow(a, <<entry>>, col, cells) = ApplyCells(a, entry.key, col, cells)
  BY DEF PasteRow
<1>2. a \in SoundDrafts /\ KeysOf(d) \subseteq KeysOf(a)
  BY MoreKeys DEF DraftsFrom
<1>3. PICK e : e = ApplyCells(a, entry.key, col, cells)
  OBVIOUS
<1>4. PICK key \in KeysOf(a) : key = entry.key
  BY <1>2
<1>5. /\ e \in DraftsLike(a)
      /\ \A k \in KeysOf(a), c \in Cols :
            CellOf(e, k, c) = IF k = key /\ c - col + 1 \in DOMAIN cells THEN cells[c - col + 1]
                              ELSE CellOf(a, k, c)
  BY <1>2, <1>3, <1>4, CellsArePasted
<1>6. e \in DraftsFrom(d) /\ Len(e.newRows) = Len(a.newRows)
  BY <1>5 DEF DraftsLike, SameRows, DraftsFrom
<1> QED
  BY ONLY <1>1, <1>2, <1>3, <1>4, <1>5, <1>6

\* A row of a block that is on no row shown becomes a new row, the others keep their cells.
LEMMA RowIsAdded ==
    ASSUME NEW d \in SoundDrafts, NEW a \in DraftsFrom(d),
           NEW col \in Int, NEW cells \in Seq(Nat)
    PROVE  /\ PasteRow(a, << >>, col, cells) \in DraftsFrom(d)
           /\ PasteRow(a, << >>, col, cells).newRows = Append(a.newRows, PastedRow(col, cells))
           /\ PastedRow(col, cells) \in [Cols -> Nat]
           /\ \A k \in KeysOf(d), c \in Cols :
                 CellOf(PasteRow(a, << >>, col, cells), k, c) = CellOf(a, k, c)
<1> DEFINE entry == PastedRow(col, cells)
           e == PasteRow(a, << >>, col, cells)
           rows == Append(a.newRows, entry)
<1>1. entry \in [Cols -> Nat]
  <2>1. \A i \in DOMAIN cells : cells[i] \in Nat
    OBVIOUS
  <2>2. Blank \in Nat
    BY DEF Blank
  <2> QED
    BY ONLY <2>1, <2>2 DEF PastedRow
<1>2. /\ a \in SoundDrafts /\ a.deleted = d.deleted
      /\ a.newRows \in Seq([Cols -> Nat])
      /\ a.deleted \in SUBSET (0 .. Count - 1)
      /\ DOMAIN a.edits \subseteq (0 .. Count - 1) \X Cols
      /\ a.edits \in [DOMAIN a.edits -> Nat]
      /\ a = [edits |-> a.edits, newRows |-> a.newRows, deleted |-> a.deleted]
      /\ \A x \in DOMAIN a.edits :
            x[1] \notin a.deleted /\ a.edits[x] # Original[x[1] + 1][x[2]]
  BY DraftsAre DEF SoundDrafts, DraftsFrom, ViewDrafts, ViewEdits
<1>3. e = [edits |-> a.edits, newRows |-> rows, deleted |-> a.deleted]
  BY <1>2 DEF PasteRow
<1> HIDE DEF entry, e
<1>4. PICK m \in Nat, n \in Nat : m = Len(d.newRows) /\ n = Len(a.newRows) /\ m <= n
  <2>1. Len(d.newRows) \in Nat /\ Len(a.newRows) \in Nat
    BY <1>2, DraftsAre, StagedRowsAreRows
  <2> QED
    BY <2>1 DEF DraftsFrom
<1>5. /\ rows \in Seq([Cols -> Nat]) /\ Len(rows) = n + 1
      /\ \A i \in 1 .. n : rows[i] = a.newRows[i]
  BY <1>1, <1>2, <1>4
<1> HIDE DEF rows
<1>6. /\ e = [edits |-> e.edits, newRows |-> e.newRows, deleted |-> e.deleted]
      /\ e.edits = a.edits /\ e.newRows = rows /\ e.deleted = a.deleted
  BY <1>3
<1>7. e \in SoundDrafts
  BY <1>2, <1>5, <1>6, DraftIs
<1>8. m <= n + 1
  BY ONLY m \in Nat, n \in Nat, <1>4
<1>9. e \in DraftsFrom(d)
  BY <1>2, <1>4, <1>5, <1>6, <1>7, <1>8 DEF DraftsFrom
<1>10. ASSUME NEW k \in KeysOf(d), NEW c \in Cols
      PROVE  CellOf(e, k, c) = CellOf(a, k, c)
  <2>1. k[1] = "n" => \E i \in 1 .. n : k[2] + 1 = i
    <3>1. k[1] = "n" => k[2] \in 0 .. m - 1
      BY <1>4 DEF KeysOf
    <3> QED
      BY ONLY <3>1, m \in Nat, n \in Nat, <1>4
  <2> QED
    BY ONLY <2>1, <1>5, <1>6 DEF CellOf
<1> QED
  BY <1>1, <1>6, <1>9, <1>10 DEF e, rows, entry

\* A row of the block is pasted on the row shown at its position, if there is one.
LEMMA TargetsAre ==
    ASSUME staged \in SoundDrafts, NEW start \in Nat, NEW k \in Nat, k > 0
    PROVE  /\ Len(DisplayRows(staged)) \in Nat
           /\ start + k <= Len(DisplayRows(staged)) =>
                 /\ start + k \in DOMAIN DisplayRows(staged)
                 /\ RowOf(DisplayRows(staged), start + k - 1) = <<DisplayRows(staged)[start + k]>>
                 /\ DisplayRows(staged)[start + k].key \in KeysOf(staged)
           /\ start + k > Len(DisplayRows(staged)) =>
                 RowOf(DisplayRows(staged), start + k - 1) = << >>
<1>1. staged \in ViewDrafts
  BY DraftsAre
<1>2. PICK at \in Nat : at = start + k - 1 /\ at + 1 = start + k
  OBVIOUS
<1>3. \/ RowAt(at) = << >> /\ at \notin 0 .. TotalRows - 1
      \/ /\ at \in 0 .. TotalRows - 1 /\ at + 1 \in DOMAIN DisplayRows(staged)
         /\ RowAt(at) = <<DisplayRows(staged)[at + 1]>>
  <2>1. at \in Int
    OBVIOUS
  <2> QED
    BY <2>1, <1>1, RowsFound
<1>4. TotalRows = Len(DisplayRows(staged)) /\ Len(DisplayRows(staged)) \in Nat
  <2>1. DisplayRows(staged) \in Seq(GridRows) /\ (Windowed => DisplayRows(staged) = BuildRows(staged))
    BY <1>1, DisplayedRows
  <2>2. Len(DisplayRows(staged)) \in Nat
    BY <2>1
  <2>3. WindowedCount(staged) = Len(BuildRows(staged))
    BY <1>1, WindowedRows
  <2> QED
    BY <2>1, <2>2, <2>3 DEF TotalRows
<1>5. PICK m \in Nat : m = Len(DisplayRows(staged))
  BY <1>4
<1>6. at \in 0 .. m - 1 <=> start + k <= m
  BY ONLY at \in Nat, m \in Nat, start \in Nat, k \in Nat, k > 0, <1>2
<1>7. at + 1 \in DOMAIN DisplayRows(staged) => DisplayRows(staged)[at + 1].key \in KeysOf(staged)
  BY <1>1, KeysShown
<1>8. RowOf(DisplayRows(staged), at) = RowAt(at)
  BY DEF RowAt
<1>9. start + k > m => ~(start + k <= m)
  BY ONLY m \in Nat, start \in Nat, k \in Nat
<1> QED
  BY ONLY <1>2, <1>3, <1>4, <1>5, <1>6, <1>7, <1>8, <1>9, m \in Nat

\* What a draft is after some rows of a block: the rows shown from a position down have
\* the cells of the block, the rows that are not hit have theirs, and the rest of the
\* block is new rows.
PastedUpTo(a, start, col, block, k) ==
    LET shown == DisplayRows(staged)
        m     == Len(shown)
    IN  /\ a \in DraftsFrom(staged)
        /\ Len(a.newRows) = Len(staged.newRows) + (IF start + k > m THEN start + k - m ELSE 0)
        /\ \A j \in 1 .. k : start + j <= m =>
              \A c \in Cols :
                 CellOf(a, shown[start + j].key, c) =
                    IF c - col + 1 \in DOMAIN block[j] THEN block[j][c - col + 1]
                    ELSE CellOf(staged, shown[start + j].key, c)
        /\ \A x \in KeysOf(staged) :
              (\A j \in 1 .. k : start + j <= m => shown[start + j].key # x) =>
                 \A c \in Cols : CellOf(a, x, c) = CellOf(staged, x, c)
        /\ \A j \in 1 .. k : start + j > m =>
              a.newRows[Len(staged.newRows) + (start + j - m)] = PastedRow(col, block[j])

\* One more row of the block.
LEMMA OneMoreRow ==
    ASSUME staged \in SoundDrafts, NEW col \in Int, NEW block \in Seq(Seq(Nat)),
           NEW start \in Nat, start < Len(DisplayRows(staged)),
           NEW k \in Nat, NEW l \in Nat, l = k + 1, l \in DOMAIN block, NEW a,
           PastedUpTo(a, start, col, block, k)
    PROVE  PastedUpTo(PasteRow(a, RowOf(DisplayRows(staged), start + l - 1), col, block[l]),
                      start, col, block, l)
<1> DEFINE shown == DisplayRows(staged)
           target == RowOf(shown, start + l - 1)
           e == PasteRow(a, target, col, block[l])
<1>1. PICK m \in Nat : m = Len(shown)
  <2>1. shown \in Seq(GridRows)
    BY DraftsAre, DisplayedRows
  <2> HIDE DEF shown
  <2>2. Len(shown) \in Nat
    BY <2>1
  <2> QED
    BY <2>2
<1>2. PICK cells \in Seq(Nat) : cells = block[l]
  OBVIOUS
<1>3. /\ \A j \in 1 .. l : j \in 1 .. k \/ j = l
      /\ \A j \in 1 .. k : j \in 1 .. l /\ j # l /\ j \in Nat /\ start + j # start + l
      /\ l \in 1 .. l
  BY ONLY k \in Nat, l \in Nat, l = k + 1, start \in Nat
<1>4. a \in DraftsFrom(staged)
  BY DEF PastedUpTo
<1>5. PICK n \in Nat : n = Len(staged.newRows)
  BY DraftsAre, StagedRowsAreRows
<1>6. CASE start + l <= m
  <2>1. /\ target = <<shown[start + l]>> /\ shown[start + l].key \in KeysOf(staged)
        /\ \A j \in 1 .. l : start + j <= m =>
              start + j \in DOMAIN shown /\ shown[start + j].key \in KeysOf(staged)
    <3>1. \A j \in 1 .. l : j \in Nat /\ j > 0
      BY ONLY l \in Nat
    <3> QED
      BY <1>1, <1>3, <1>6, <3>1, TargetsAre
  <2>2. PICK entry : entry = shown[start + l]
    OBVIOUS
  <2>3. \A j \in 1 .. k : start + j <= m /\ start + j \in DOMAIN shown /\ shown[start + j].key # entry.key
    <3>1. \A j \in 1 .. k : start + j <= m
      BY ONLY k \in Nat, l = k + 1, start \in Nat, m \in Nat, <1>6
    <3>2. \A i, j \in DOMAIN shown : shown[i].key = shown[j].key => i = j
      BY DraftsAre, DisplayedRows
    <3> QED
      BY ONLY <3>1, <3>2, <1>3, <1>6, <2>1, <2>2
  <2> HIDE DEF shown, target, e
  <2>4. /\ e \in DraftsFrom(staged) /\ Len(e.newRows) = Len(a.newRows)
        /\ \A x \in KeysOf(staged), c \in Cols :
              CellOf(e, x, c) = IF x = entry.key /\ c - col + 1 \in DOMAIN cells THEN cells[c - col + 1]
                                ELSE CellOf(a, x, c)
    <3>1. entry.key \in KeysOf(staged)
      BY <2>1, <2>2
    <3>2. e = PasteRow(a, <<entry>>, col, cells)
      BY <1>2, <2>1, <2>2 DEF e
    <3>3. /\ PasteRow(a, <<entry>>, col, cells) \in DraftsFrom(staged)
          /\ Len(PasteRow(a, <<entry>>, col, cells).newRows) = Len(a.newRows)
          /\ \A x \in KeysOf(staged), c \in Cols :
                CellOf(PasteRow(a, <<entry>>, col, cells), x, c) =
                   IF x = entry.key /\ c - col + 1 \in DOMAIN cells THEN cells[c - col + 1]
                   ELSE CellOf(a, x, c)
      BY ONLY staged \in SoundDrafts, col \in Int, cells \in Seq(Nat), <1>4, <3>1, RowIsPasted
    <3> QED
      BY ONLY <3>2, <3>3
  <2>5. /\ Len(a.newRows) = n
        /\ \A j \in 1 .. k : \A c \in Cols :
              CellOf(a, shown[start + j].key, c) =
                 IF c - col + 1 \in DOMAIN block[j] THEN block[j][c - col + 1]
                 ELSE CellOf(staged, shown[start + j].key, c)
        /\ \A x \in KeysOf(staged) :
              (\A j \in 1 .. k : shown[start + j].key # x) =>
                 \A c \in Cols : CellOf(a, x, c) = CellOf(staged, x, c)
    <3>1. start + k <= m /\ n + 0 = n
      BY ONLY k \in Nat, l = k + 1, start \in Nat, m \in Nat, n \in Nat, <1>6
    <3>2. ~(start + k > m)
      BY ONLY k \in Nat, start \in Nat, m \in Nat, <3>1
    <3> QED
      BY <1>1, <1>5, <2>3, <3>1, <3>2 DEF PastedUpTo, shown
  <2>6. ASSUME NEW j \in 1 .. l, NEW c \in Cols
        PROVE  CellOf(e, shown[start + j].key, c) =
                  IF c - col + 1 \in DOMAIN block[j] THEN block[j][c - col + 1]
                  ELSE CellOf(staged, shown[start + j].key, c)
    <3>1. CASE j = l
      <4>1. CellOf(a, entry.key, c) = CellOf(staged, entry.key, c)
        BY ONLY c \in Cols, <2>1, <2>2, <2>3, <2>5
      <4> QED
        BY ONLY c \in Cols, <3>1, <4>1, <1>2, <2>1, <2>2, <2>4
    <3>2. CASE j \in 1 .. k
      BY ONLY c \in Cols, j \in 1 .. l, <3>2, <2>1, <2>3, <2>4, <2>5
    <3> QED
      BY <3>1, <3>2, <1>3
  <2>7. ASSUME NEW x \in KeysOf(staged), \A j \in 1 .. l : start + j <= m => shown[start + j].key # x,
               NEW c \in Cols
        PROVE  CellOf(e, x, c) = CellOf(staged, x, c)
    BY ONLY x \in KeysOf(staged), c \in Cols, <2>7, <1>3, <1>6, <2>2, <2>3, <2>4, <2>5
  <2>8. \A j \in 1 .. l : start + j <= m /\ ~(start + j > m)
    BY ONLY l \in Nat, start \in Nat, m \in Nat, <1>6
  <2>9. ~(start + l > m) /\ n = n + 0
    BY ONLY l \in Nat, start \in Nat, m \in Nat, n \in Nat, <1>6
  <2>10. PastedUpTo(e, start, col, block, l)
    BY ONLY <1>1, <1>5, <2>4, <2>5, <2>6, <2>7, <2>8, <2>9 DEF PastedUpTo, shown
  <2> QED
    BY <2>10 DEF e, target, shown
<1>7. CASE start + l > m
  <2>1. target = << >>
    <3>1. l > 0
      BY ONLY k \in Nat, l = k + 1
    <3> QED
      BY <1>1, <1>7, <3>1, TargetsAre
  <2> HIDE DEF shown, target, e
  <2>2. /\ e \in DraftsFrom(staged)
        /\ e.newRows = Append(a.newRows, PastedRow(col, cells))
        /\ PastedRow(col, cells) \in [Cols -> Nat]
        /\ \A x \in KeysOf(staged), c \in Cols : CellOf(e, x, c) = CellOf(a, x, c)
    <3>1. e = PasteRow(a, << >>, col, cells)
      BY <1>2, <2>1 DEF e
    <3> QED
      BY <1>4, <3>1, RowIsAdded
  <2>3. PICK over \in Nat : over = start + k - m /\ over + 1 = start + l - m
    BY ONLY k \in Nat, l = k + 1, start \in Nat, m \in Nat, <1>7
  <2>4. Len(a.newRows) = n + over /\ a.newRows \in Seq([Cols -> Nat])
    <3>1. (IF start + k > m THEN start + k - m ELSE 0) = over
      BY ONLY k \in Nat, start \in Nat, m \in Nat, over \in Nat, <2>3
    <3>2. a.newRows \in Seq([Cols -> Nat])
      BY <1>4, DraftsAre DEF DraftsFrom
    <3> QED
      BY <1>1, <1>5, <3>1, <3>2 DEF PastedUpTo, shown
  <2>5. /\ Len(e.newRows) = n + over + 1
        /\ e.newRows[n + over + 1] = PastedRow(col, cells)
        /\ \A i \in 1 .. n + over : e.newRows[i] = a.newRows[i]
    <3>1. PICK p \in Nat : p = n + over
      OBVIOUS
    <3>2. /\ Len(e.newRows) = p + 1 /\ e.newRows[p + 1] = PastedRow(col, cells)
          /\ \A i \in 1 .. p : e.newRows[i] = a.newRows[i]
      <4>1. PICK rows \in Seq([Cols -> Nat]) : rows = a.newRows /\ Len(rows) = p
        BY <2>4, <3>1
      <4>2. PICK last \in [Cols -> Nat] : last = PastedRow(col, cells)
        BY <2>2
      <4>3. PICK all : all = Append(rows, last)
        OBVIOUS
      <4>4. Len(all) = p + 1 /\ all[p + 1] = last /\ \A i \in 1 .. p : all[i] = rows[i]
        BY <4>1, <4>3
      <4> QED
        BY ONLY <2>2, <4>1, <4>2, <4>3, <4>4
    <3> QED
      BY ONLY <3>1, <3>2
  <2>6. /\ \A j \in 1 .. k : start + j <= m =>
              /\ shown[start + j].key \in KeysOf(staged)
              /\ \A c \in Cols :
                   CellOf(a, shown[start + j].key, c) =
                      IF c - col + 1 \in DOMAIN block[j] THEN block[j][c - col + 1]
                      ELSE CellOf(staged, shown[start + j].key, c)
        /\ \A x \in KeysOf(staged) :
              (\A j \in 1 .. k : start + j <= m => shown[start + j].key # x) =>
                 \A c \in Cols : CellOf(a, x, c) = CellOf(staged, x, c)
        /\ \A j \in 1 .. k : start + j > m =>
              a.newRows[n + (start + j - m)] = PastedRow(col, block[j])
    <3>1. \A j \in 1 .. k : j \in Nat /\ j > 0
      BY ONLY k \in Nat
    <3> QED
      BY <1>1, <1>5, <3>1, TargetsAre DEF PastedUpTo, shown
  <2>7. ~(start + l <= m)
    BY ONLY l \in Nat, start \in Nat, m \in Nat, <1>7
  <2>8. ASSUME NEW j \in 1 .. l, start + j <= m, NEW c \in Cols
        PROVE  CellOf(e, shown[start + j].key, c) =
                  IF c - col + 1 \in DOMAIN block[j] THEN block[j][c - col + 1]
                  ELSE CellOf(staged, shown[start + j].key, c)
    BY ONLY j \in 1 .. l, c \in Cols, <1>3, <2>2, <2>6, <2>7, <2>8
  <2>9. ASSUME NEW x \in KeysOf(staged), \A j \in 1 .. l : start + j <= m => shown[start + j].key # x,
               NEW c \in Cols
        PROVE  CellOf(e, x, c) = CellOf(staged, x, c)
    BY ONLY x \in KeysOf(staged), c \in Cols, <2>9, <1>3, <2>2, <2>6
  <2>10. ASSUME NEW j \in 1 .. l, start + j > m
         PROVE  e.newRows[n + (start + j - m)] = PastedRow(col, block[j])
    <3>1. CASE j = l
      <4>1. n + (start + l - m) = n + over + 1
        BY ONLY n \in Nat, over \in Nat, <2>3
      <4> QED
        BY ONLY <3>1, <4>1, <1>2, <2>5
    <3>2. CASE j \in 1 .. k
      <4>1. PICK i \in 1 .. n + over : i = n + (start + j - m)
        BY ONLY n \in Nat, over \in Nat, k \in Nat, m \in Nat, start \in Nat, <2>3, <2>10, <3>2
      <4> QED
        BY ONLY i \in 1 .. n + over, <3>2, <4>1, <2>5, <2>6, <2>10
    <3> QED
      BY <3>1, <3>2, <1>3
  <2>11. Len(e.newRows) = n + (IF start + l > m THEN start + l - m ELSE 0)
    <3>1. (IF start + l > m THEN start + l - m ELSE 0) = over + 1
      BY ONLY <2>3, <1>7
    <3>2. n + over + 1 = n + (over + 1)
      BY ONLY n \in Nat, over \in Nat
    <3> QED
      BY ONLY <3>1, <3>2, <2>5
  <2>12. PastedUpTo(e, start, col, block, l)
    BY ONLY <1>1, <1>5, <2>2, <2>8, <2>9, <2>10, <2>11 DEF PastedUpTo, shown
  <2> QED
    BY <2>12 DEF e, target, shown
<1>8. start + l <= m \/ start + l > m
  BY ONLY l \in Nat, start \in Nat, m \in Nat
<1> QED
  BY <1>6, <1>7, <1>8

\* A whole block is pasted.
LEMMA BlockIsPasted ==
    ASSUME staged \in SoundDrafts, NEW key, NEW col \in Int, NEW block \in Seq(Seq(Nat)),
           NEW start \in Nat, start = DisplayIndexForKey(key), start < Len(DisplayRows(staged))
    PROVE  PastedUpTo(PasteTable(key, col, block), start, col, block, Len(block))
<1> DEFINE shown == DisplayRows(staged)
<1>1. PICK n \in Nat : n = Len(block) /\ DOMAIN block = 1 .. n
  OBVIOUS
<1>2. PICK m \in Nat : m = Len(shown)
  <2>1. shown \in Seq(GridRows)
    BY DraftsAre, DisplayedRows
  <2> HIDE DEF shown
  <2>2. Len(shown) \in Nat
    BY <2>1
  <2> QED
    BY <2>2
<1> DEFINE A == DraftsFrom(staged)
           Pasted(a, k) == PasteRow(a, RowOf(shown, start + k - 1), col, block[k])
           step == [k \in 1 .. n |-> [a \in A |-> Pasted(a, k)]]
           Done(F) == [k \in 0 .. n |-> IF k = 0 THEN staged ELSE Pasted(F[k - 1], k)]
           done == CHOOSE F : F = Done(F)
<1>3. ASSUME NEW k \in 1 .. n, NEW a \in A
      PROVE  Pasted(a, k) \in A
  <2>1. PICK cells \in Seq(Nat) : cells = block[k]
    BY <1>1
  <2>2. k \in Nat /\ k > 0 /\ (start + k <= m \/ start + k > m)
    BY ONLY k \in 1 .. n, n \in Nat, m \in Nat, start \in Nat
  <2>3. CASE start + k <= m
    <3>1. PICK entry : entry = shown[start + k]
      OBVIOUS
    <3>2. RowOf(shown, start + k - 1) = <<entry>> /\ entry.key \in KeysOf(staged)
      BY <1>2, <2>2, <2>3, <3>1, TargetsAre
    <3>3. PasteRow(a, <<entry>>, col, cells) \in DraftsFrom(staged)
      BY ONLY staged \in SoundDrafts, a \in A, col \in Int, cells \in Seq(Nat), <3>2, RowIsPasted
    <3> QED
      BY ONLY <2>1, <3>2, <3>3
  <2>4. CASE start + k > m
    <3>1. RowOf(shown, start + k - 1) = << >>
      BY <1>2, <2>2, <2>4, TargetsAre
    <3>2. PasteRow(a, << >>, col, cells) \in DraftsFrom(staged)
      BY ONLY staged \in SoundDrafts, a \in A, col \in Int, cells \in Seq(Nat), RowIsAdded
    <3> QED
      BY ONLY <2>1, <3>1, <3>2
  <2> QED
    BY <2>2, <2>3, <2>4
<1>4. staged \in A
  <2>1. Len(staged.newRows) \in Nat
    BY DraftsAre, StagedRowsAreRows
  <2> QED
    BY <2>1 DEF DraftsFrom
<1>5. PICK G \in [0 .. n -> A] : G[0] = staged /\ \A k \in 1 .. n : G[k] = Pasted(G[k - 1], k)
  <2>1. step \in [1 .. n -> [A -> A]]
    BY <1>3
  <2>2. \A k \in 1 .. n, a \in A : step[k][a] = Pasted(a, k)
    OBVIOUS
  <2> HIDE DEF step, A, Pasted
  <2>3. PICK first : first = staged
    OBVIOUS
  <2>4. PICK G \in [0 .. n -> A] : IsFold(G, n, first, step)
    <3>1. CanFold(A, n, first, step)
      BY ONLY n \in Nat, <2>1, <2>3, <1>4 DEF CanFold
    <3> QED
      BY ONLY <3>1, FoldIsThere
  <2>5. \A k \in 1 .. n : G[k - 1] \in A
    <3>1. \A k \in 1 .. n : k - 1 \in 0 .. n
      BY ONLY n \in Nat
    <3> QED
      BY ONLY <3>1, G \in [0 .. n -> A]
  <2> QED
    BY ONLY <2>2, <2>3, <2>4, <2>5 DEF IsFold
<1>6. done = Done(done)
  <2> HIDE DEF Pasted
  <2>1. G = Done(G)
    <3>1. \A k \in 0 .. n : k # 0 => k \in 1 .. n
      BY ONLY n \in Nat
    <3> QED
      BY ONLY G \in [0 .. n -> A], <1>5, <3>1
  <2> HIDE DEF Done
  <2> QED
    BY <2>1
<1>7. PasteTable(key, col, block) = done[n]
  BY <1>1 DEF PasteTable
<1> HIDE DEF done, A
<1>8. done[0] = staged /\ \A k \in 1 .. n : done[k] = Pasted(done[k - 1], k)
  <2> HIDE DEF Pasted
  <2>1. 0 \in 0 .. n /\ \A k \in 1 .. n : k \in 0 .. n /\ k # 0
    BY ONLY n \in Nat
  <2> QED
    BY ONLY <1>6, <2>1
<1> DEFINE S == {k \in 0 .. n : PastedUpTo(done[k], start, col, block, k)}
<1>9. 0 \in S
  <2>1. 0 \in 0 .. n /\ 1 .. 0 = {} /\ ~(start + 0 > m)
    BY ONLY n \in Nat, start \in Nat, m \in Nat, start < Len(shown), <1>2
  <2>2. Len(staged.newRows) \in Nat
    BY DraftsAre, StagedRowsAreRows
  <2>3. PICK p \in Nat : p = Len(staged.newRows)
    BY <2>2
  <2>4. Len(staged.newRows) = Len(staged.newRows) + 0
    BY ONLY p \in Nat, <2>3
  <2>5. PastedUpTo(staged, start, col, block, 0)
    BY ONLY <1>2, <1>4, <2>1, <2>4 DEF PastedUpTo, A
  <2> QED
    BY ONLY <1>8, <2>1, <2>5
<1>10. ASSUME NEW k \in 0 .. n - 1, k \in S
       PROVE  k + 1 \in S
  <2>1. PICK l \in Nat : l = k + 1 /\ k = l - 1 /\ l \in 0 .. n /\ l \in 1 .. n /\ k \in Nat
    BY ONLY n \in Nat, k \in 0 .. n - 1
  <2>2. PICK a : a = done[k] /\ PastedUpTo(a, start, col, block, k)
    BY <1>10
  <2>3. PastedUpTo(Pasted(a, l), start, col, block, l)
    <3>1. k \in Nat /\ l \in DOMAIN block /\ l = k + 1
      BY <2>1, <1>1
    <3> QED
      BY <2>1, <2>2, <3>1, OneMoreRow
  <2>4. done[l] = Pasted(a, l)
    BY ONLY <1>8, <2>1, <2>2
  <2> HIDE DEF Pasted
  <2> QED
    BY ONLY <2>1, <2>3, <2>4
<1>11. n \in S
  <2>1. \A k \in 0 .. n - 1 : k \in S => k + 1 \in S
    BY <1>10
  <2> HIDE DEF S
  <2>2. \A k \in 0 .. n : k \in S
    BY ONLY n \in Nat, <1>9, <2>1, StepByStep
  <2> QED
    BY <2>2
<1> QED
  BY ONLY <1>1, <1>7, <1>11

-----------------------------------------------------------------------------
(* The view's invariant.                                                   *)

\* The rules that the rows are sorted by.
SortRule == [col : Cols, dir : {"asc", "desc"}]

\* Lists of sort rules for columns that are all different.
SortLists ==
    {s \in Seq(SortRule) : \A k, l \in DOMAIN s : s[k].col = s[l].col => k = l}

\* The inductive invariant of the view: beside what is promised, that the draft has the
\* shape of a draft, that the sort rules are for different columns, and that what is
\* selected has a key that a row could have.
ViewIInv ==
    /\ staged \in SoundDrafts
    /\ sortRules \in SortLists
    /\ selectedRowKey \in RowKeys \cup {NoCell.key}
    /\ selectedCell = NoCell \/ selectedCell \in [key : RowKeys, col : Int]
    /\ selectedCell # NoCell => selectedRowKey \in {selectedCell.key, NoCell.key}

\* Nothing is staged, sorted or selected to begin with.
LEMMA ViewInitially == ViewInit => ViewIInv
<1> SUFFICES ASSUME ViewInit
             PROVE  ViewIInv
  OBVIOUS
<1>1. staged \in SoundDrafts
  <2>1. /\ staged = [edits |-> << >>, newRows |-> << >>, deleted |-> {}]
        /\ << >> \in [{} -> Nat] /\ << >> \in Seq([Cols -> Nat]) /\ DOMAIN << >> = {}
    BY DEF ViewInit
  <2> QED
    BY <2>1, DraftIs
<1>2. sortRules \in SortLists
  BY ViewConstants DEF ViewInit, SortLists, SortRule
<1> QED
  BY <1>1, <1>2 DEF ViewInit, ViewIInv

\* The place of a key is a number, and of a row that is selected one that there is.
LEMMA PlacesAreNumbers ==
    ASSUME staged \in SoundDrafts, NEW key \in RowKeys \cup {NoCell.key}
    PROVE  DisplayIndexForKey(key) \in Int
<1>1. staged \in ViewDrafts
  BY DraftsAre
<1>2. CASE Windowed
  <2>1. OriginalCount(staged) \in Int
    <3>1. PICK n \in 0 .. Count : n = OriginalCount(staged)
      BY <1>1, RowsLaidOut
    <3> QED
      BY <3>1, CountIs
  <2>2. \A i : Cardinality({x \in staged.deleted : x < i}) \in Nat
    <3>1. IsFiniteSet(staged.deleted)
      BY <1>1, KeptRanks
    <3> QED
      BY <3>1, FS_Subset, FS_CardinalityType
  <2>3. CASE key = NoCell.key
    BY <1>2, <2>3 DEF DisplayIndexForKey, WindowedIndexForKey, NoCell
  <2>4. CASE key \in {"n"} \X Nat
    BY <1>2, <2>1, <2>4 DEF DisplayIndexForKey, WindowedIndexForKey
  <2>5. CASE key \in {"o"} \X (0 .. Count - 1)
    <3>1. PICK i \in 0 .. Count - 1 : key = <<"o", i>>
      BY <2>5
    <3>2. PICK r \in Nat : r = Cardinality({x \in staged.deleted : x < i})
      BY <2>2
    <3>3. i \in Int /\ i - r \in Int
      BY <3>2, CountIs
    <3> QED
      BY <1>2, <3>1, <3>2, <3>3 DEF DisplayIndexForKey, WindowedIndexForKey
  <2> QED
    BY <2>3, <2>4, <2>5 DEF RowKeys
<1>3. CASE ~Windowed
  <2> DEFINE found == {k \in DOMAIN DisplayRows(staged) : DisplayRows(staged)[k].key = key}
  <2>1. \A k \in found : k \in Nat
    <3>1. DisplayRows(staged) \in Seq(GridRows)
      BY <1>1, DisplayedRows
    <3>2. \A k \in DOMAIN DisplayRows(staged) : k \in Nat
      BY <3>1
    <3> QED
      BY <3>2
  <2>2. LaidOutIndexForKey(staged, key) = IF found = {} THEN -1 ELSE (CHOOSE k \in found : TRUE) - 1
    BY DEF LaidOutIndexForKey
  <2>3. found # {} => (CHOOSE k \in found : TRUE) \in found
    OBVIOUS
  <2> HIDE DEF found
  <2> QED
    BY <1>3, <2>1, <2>2, <2>3 DEF DisplayIndexForKey
<1> QED
  BY <1>2, <1>3

\* What a key works on is a row shown.
LEMMA KeyRowIsShown ==
    ASSUME ViewIInv, KeyRow # << >>
    PROVE  /\ KeyRow[1].key \in KeysOf(staged) /\ KeyRow[1].key \in RowKeys
           /\ \E at \in 0 .. TotalRows - 1 : TRUE
<1>1. staged \in ViewDrafts /\ CurrentKey \in RowKeys \cup {NoCell.key}
  BY DraftsAre DEF ViewIInv, CurrentKey
<1>2. DisplayIndexForKey(CurrentKey) \in Int
  BY <1>1, PlacesAreNumbers DEF ViewIInv
<1>3. PICK at \in Int : KeyRow = RowAt(at)
  BY <1>2 DEF KeyRow, SelectedDisplayRow
<1>4. /\ at \in 0 .. TotalRows - 1 /\ at + 1 \in DOMAIN DisplayRows(staged)
      /\ RowAt(at) = <<DisplayRows(staged)[at + 1]>>
  BY <1>1, <1>3, RowsFound
<1>5. KeyRow[1] = DisplayRows(staged)[at + 1]
  BY ONLY <1>3, <1>4
<1>6. PICK k \in DOMAIN DisplayRows(staged) : KeyRow[1] = DisplayRows(staged)[k]
  BY <1>4, <1>5
<1> QED
  BY <1>1, <1>4, <1>6, KeysShown

\* The key of a row on screen is the key of a row that there is.
LEMMA ShownKeysAre ==
    ASSUME staged \in SoundDrafts, NEW key \in ShownKeys
    PROVE  key \in KeysOf(staged) /\ key \in RowKeys
<1>1. PICK k \in DOMAIN DisplayRows(staged) : key = DisplayRows(staged)[k].key
  BY DEF ShownKeys
<1> QED
  BY <1>1, DraftsAre, KeysShown

-----------------------------------------------------------------------------
(* A step of each action keeps it.                                         *)

\* Adding a row, which leaves the selection as it is.
LEMMA AddRowStep == ViewIInv /\ PressAddRow => ViewIInv'
<1> SUFFICES ASSUME ViewIInv, PressAddRow
             PROVE  ViewIInv'
  OBVIOUS
<1>1. PICK d \in SoundDrafts : d = staged
  BY DEF ViewIInv
<1>2. /\ d \in ViewDrafts /\ d.newRows \in Seq([Cols -> Nat])
      /\ d.deleted \in SUBSET (0 .. Count - 1)
      /\ DOMAIN d.edits \subseteq (0 .. Count - 1) \X Cols
      /\ d.edits \in [DOMAIN d.edits -> Nat]
      /\ d = [edits |-> d.edits, newRows |-> d.newRows, deleted |-> d.deleted]
      /\ \A x \in DOMAIN d.edits :
            x[1] \notin d.deleted /\ d.edits[x] # Original[x[1] + 1][x[2]]
  BY DraftsAre DEF SoundDrafts, ViewDrafts, ViewEdits
<1>3. [c \in Cols |-> Blank] \in [Cols -> Nat]
  BY DEF Blank
<1> DEFINE rows == Append(d.newRows, [c \in Cols |-> Blank])
<1>4. rows \in Seq([Cols -> Nat])
  BY <1>2, <1>3
<1>5. staged' = [edits |-> d.edits, newRows |-> rows, deleted |-> d.deleted]
  BY <1>1, <1>2 DEF PressAddRow, Stage
<1> HIDE DEF rows
<1>6. staged' \in SoundDrafts
  <2>1. PICK e : e = staged'
    OBVIOUS
  <2>2. /\ e = [edits |-> e.edits, newRows |-> e.newRows, deleted |-> e.deleted]
        /\ e.edits = d.edits /\ e.newRows = rows /\ e.deleted = d.deleted
    BY <1>5, <2>1
  <2>3. e \in SoundDrafts
    BY <1>2, <1>4, <2>2, DraftIs
  <2> QED
    BY <2>1, <2>3
<1> QED
  BY <1>6 DEF PressAddRow, Stage, ViewIInv, controlVars, selectionVars

\* Deleting a row by its button: the selected cell stays selected.
LEMMA DeleteRowStep == ASSUME NEW key \in ShownKeys, ViewIInv, PressDeleteRow(key) PROVE ViewIInv'
<1>1. PICK d \in SoundDrafts : d = staged
  BY DEF ViewIInv
<1>2. /\ d \in ViewDrafts /\ d.newRows \in Seq([Cols -> Nat])
      /\ d.deleted \in SUBSET (0 .. Count - 1)
      /\ DOMAIN d.edits \subseteq (0 .. Count - 1) \X Cols
      /\ d.edits \in [DOMAIN d.edits -> Nat]
      /\ d = [edits |-> d.edits, newRows |-> d.newRows, deleted |-> d.deleted]
      /\ \A x \in DOMAIN d.edits :
            x[1] \notin d.deleted /\ d.edits[x] # Original[x[1] + 1][x[2]]
  BY DraftsAre DEF SoundDrafts, ViewDrafts, ViewEdits
<1>3. key \in KeysOf(d)
  BY <1>1, ShownKeysAre
<1>4. CASE key[1] = "o"
  <2>1. PICK i \in 0 .. Count - 1 : i = key[2]
    BY <1>3, <1>4 DEF KeysOf, KeptRows
  <2> DEFINE D == {y \in DOMAIN d.edits : y[1] # i}
             f == [x \in D |-> d.edits[x]]
  <2>2. staged' = [edits |-> f, newRows |-> d.newRows, deleted |-> d.deleted \cup {i}]
    BY <1>1, <1>2, <1>4, <2>1 DEF PressDeleteRow, Stage
  <2>3. /\ f \in [D -> Nat] /\ D \subseteq (0 .. Count - 1) \X Cols
        /\ \A x \in D : x[1] \notin d.deleted \cup {i} /\ f[x] # Original[x[1] + 1][x[2]]
    BY <1>2
  <2> HIDE DEF f, D
  <2>4. PICK e : e = staged'
    OBVIOUS
  <2>5. /\ e = [edits |-> e.edits, newRows |-> e.newRows, deleted |-> e.deleted]
        /\ e.edits = f /\ DOMAIN f = D /\ e.newRows = d.newRows /\ e.deleted = d.deleted \cup {i}
        /\ d.deleted \cup {i} \subseteq 0 .. Count - 1
    BY <1>2, <2>2, <2>3, <2>4
  <2>6. e \in SoundDrafts
    BY <1>2, <2>3, <2>5, DraftIs
  <2> QED
    BY <2>4, <2>6 DEF PressDeleteRow, Stage, ViewIInv, controlVars
<1>5. CASE key[1] # "o"
  <2> DEFINE rows == Picked(d.newRows, DOMAIN d.newRows \ {key[2] + 1})
  <2>1. rows \in Seq([Cols -> Nat])
    <3>1. PICK places \in SUBSET DOMAIN d.newRows : places = DOMAIN d.newRows \ {key[2] + 1}
      OBVIOUS
    <3> QED
      BY <1>2, <3>1, PickedIs
  <2>2. staged' = [edits |-> d.edits, newRows |-> rows, deleted |-> d.deleted]
    BY <1>1, <1>2, <1>5 DEF PressDeleteRow, Stage
  <2> HIDE DEF rows
  <2>3. PICK e : e = staged'
    OBVIOUS
  <2>4. /\ e = [edits |-> e.edits, newRows |-> e.newRows, deleted |-> e.deleted]
        /\ e.edits = d.edits /\ e.newRows = rows /\ e.deleted = d.deleted
    BY <2>2, <2>3
  <2>5. e \in SoundDrafts
    BY <1>2, <2>1, <2>4, DraftIs
  <2> QED
    BY <2>3, <2>5 DEF PressDeleteRow, Stage, ViewIInv, controlVars
<1> QED
  BY <1>4, <1>5

\* Typing into the cell that is selected.
LEMMA TypeStep ==
    ASSUME NEW key \in ShownKeys, NEW col \in Cols, NEW value \in Typed,
           ViewIInv, TypeIntoCell(key, col, value)
    PROVE  ViewIInv'
<1>1. value \in Nat /\ col \in Int
  BY ViewConstants, CountIs DEF Cols
<1>2. key \in KeysOf(staged) /\ key \in RowKeys
  BY ShownKeysAre DEF ViewIInv
<1>3. staged' \in SoundDrafts
  <2>1. PICK e : e = ApplyCellValueToDraft(staged, key, col, value)
    OBVIOUS
  <2>2. e \in SoundDrafts
    BY <1>1, <1>2, <2>1, CellIsSet DEF ViewIInv
  <2> QED
    BY <2>1, <2>2 DEF TypeIntoCell, Stage
<1>4. /\ selectedCell' = [key |-> key, col |-> col] /\ selectedRowKey' = key
      /\ sortRules' = sortRules
  BY DEF TypeIntoCell, Stage, controlVars
<1> QED
  BY <1>1, <1>2, <1>3, <1>4 DEF ViewIInv

\* Selecting a cell.
LEMMA SelectStep ==
    ASSUME ViewIInv, NEW key \in RowKeys, staged' = staged, sortRules' = sortRules,
           selectedRowKey' = key,
           selectedCell' = NoCell \/ \E col \in Int : selectedCell' = [key |-> key, col |-> col]
    PROVE  ViewIInv'
BY DEF ViewIInv

\* Moving the selection by a key.
LEMMA MoveStep ==
    ASSUME NEW down \in Int, NEW right \in Int, ViewIInv, MoveSelectedCell(down, right)
    PROVE  ViewIInv'
<1> DEFINE at   == DisplayIndexForKey(CurrentKey)
           from == IF at < 0 THEN 0 ELSE at
           there == Clamp(from + down, 0, TotalRows - 1)
           to   == RowAt(there)[1].key
           col  == Clamp(KeyCol + right, 1, Len(Original[1]))
<1>1. KeyRow # << >>
  BY DEF MoveSelectedCell
<1>2. PICK last \in 0 .. TotalRows - 1 : TRUE
  BY <1>1, KeyRowIsShown
<1>3. staged \in ViewDrafts /\ CurrentKey \in RowKeys \cup {NoCell.key} /\ KeyCol \in Int
  BY DraftsAre DEF ViewIInv, CurrentKey, KeyCol
<1>4. at \in Int
  BY <1>3, PlacesAreNumbers DEF ViewIInv
<1>5. PICK n \in Nat : n = TotalRows
  <2>1. DisplayRows(staged) \in Seq(GridRows) /\ BuildRows(staged) \in Seq(GridRows)
    BY <1>3, DisplayedRows
  <2>2. Len(DisplayRows(staged)) \in Nat /\ Len(BuildRows(staged)) \in Nat
    BY <2>1
  <2>3. WindowedCount(staged) = Len(BuildRows(staged))
    BY <1>3, WindowedRows
  <2> QED
    BY <2>2, <2>3 DEF TotalRows
<1>6. there \in 0 .. n - 1
  <2>1. n > 0
    BY ONLY <1>2, <1>5, n \in Nat
  <2>2. from + down \in Int
    BY ONLY <1>4, down \in Int
  <2> HIDE DEF from
  <2> QED
    BY ONLY <1>5, <2>1, <2>2, n \in Nat DEF Clamp
<1>7. col \in Int
  <2>1. KeyCol + right \in Int
    BY ONLY <1>3, right \in Int
  <2> QED
    BY ONLY <2>1, CountIs DEF Clamp
<1>8. /\ selectedCell' = [key |-> to, col |-> col] /\ selectedRowKey' = to
      /\ staged' = staged /\ sortRules' = sortRules
  BY DEF MoveSelectedCell, controlVars
<1> HIDE DEF there, col
<1>9. to \in RowKeys
  <2>1. there \in Int /\ there \in 0 .. TotalRows - 1
    BY ONLY <1>5, <1>6, n \in Nat
  <2>2. /\ there + 1 \in DOMAIN DisplayRows(staged)
        /\ RowAt(there) = <<DisplayRows(staged)[there + 1]>>
    BY <1>3, <2>1, RowsFound
  <2>3. PICK k \in DOMAIN DisplayRows(staged) : k = there + 1
    BY <2>2
  <2>4. to = DisplayRows(staged)[k].key
    BY ONLY <2>2, <2>3
  <2> QED
    BY <1>3, <2>3, <2>4, KeysShown
<1> HIDE DEF to
<1> QED
  BY ONLY <1>7, <1>8, <1>9, ViewIInv, SelectStep

\* Clearing the selected cell by a key.
LEMMA DeleteKeyStep ==
    ASSUME NEW value \in {Blank, Null}, ViewIInv, DeleteKey(value)
    PROVE  ViewIInv'
<1>1. value \in Nat
  BY DEF Blank, Null
<1>2. PICK key \in KeysOf(staged) : key = KeyRow[1].key
  BY KeyRowIsShown DEF DeleteKey
<1>3. staged' \in SoundDrafts
  <2>1. PICK e : e = ApplyCellValueToDraft(staged, key, KeyCol, value)
    OBVIOUS
  <2>2. e \in SoundDrafts
    <3>1. CASE KeyCol \in Cols
      BY <1>1, <2>1, <3>1, CellIsSet DEF ViewIInv
    <3>2. CASE KeyCol \notin Cols
      BY <2>1, <3>2 DEF ViewIInv, ApplyCellValueToDraft
    <3> QED
      BY <3>1, <3>2
  <2> QED
    BY <1>2, <2>1, <2>2 DEF DeleteKey, Stage
<1> QED
  BY <1>3 DEF DeleteKey, Stage, ViewIInv, controlVars, selectionVars

\* The place of the selected cell's row, when it is on screen.
LEMMA SelectedPlace ==
    ASSUME ViewIInv, selectedCell # NoCell, SelectedDisplayRow # << >>
    PROVE  /\ DisplayIndexForKey(selectedCell.key) \in Nat
           /\ DisplayIndexForKey(selectedCell.key) < Len(DisplayRows(staged))
           /\ selectedCell.key \in RowKeys /\ selectedCell.col \in Int
<1>1. /\ staged \in ViewDrafts /\ selectedCell.key \in RowKeys /\ selectedCell.col \in Int
      /\ CurrentKey = selectedCell.key
  BY DraftsAre DEF ViewIInv, CurrentKey
<1>2. PICK at \in Int : at = DisplayIndexForKey(selectedCell.key)
  BY <1>1, PlacesAreNumbers DEF ViewIInv
<1>3. RowAt(at) # << >>
  BY <1>1, <1>2 DEF SelectedDisplayRow
<1>4. at \in 0 .. TotalRows - 1 /\ at + 1 \in DOMAIN DisplayRows(staged)
  BY <1>1, <1>3, RowsFound
<1>5. PICK n \in Nat : n = Len(DisplayRows(staged)) /\ DOMAIN DisplayRows(staged) = 1 .. n
  <2>1. DisplayRows(staged) \in Seq(GridRows)
    BY <1>1, DisplayedRows
  <2> QED
    BY <2>1
<1>6. at \in Nat /\ at < n
  BY ONLY <1>4, <1>5, n \in Nat, at \in Int
<1> QED
  BY <1>1, <1>2, <1>5, <1>6

\* Pasting a block at the cell that is selected.
LEMMA PasteStep ==
    ASSUME NEW block \in Blocks, ViewIInv, PasteKey(block)
    PROVE  ViewIInv'
<1>1. selectedCell # NoCell /\ SelectedDisplayRow # << >>
  BY DEF PasteKey
<1>2. PICK start \in Nat, col \in Int :
         /\ start = DisplayIndexForKey(selectedCell.key) /\ start < Len(DisplayRows(staged))
         /\ col = selectedCell.col
  BY <1>1, SelectedPlace
<1>3. PICK key, e : key = selectedCell.key /\ e = PasteTable(key, col, block)
  OBVIOUS
<1>4. block \in Seq(Seq(Nat)) /\ staged \in SoundDrafts
  BY ViewConstants DEF ViewIInv
<1>5. PastedUpTo(e, start, col, block, Len(block))
  BY <1>2, <1>3, <1>4, BlockIsPasted
<1>6. e \in SoundDrafts
  BY <1>5 DEF PastedUpTo, DraftsFrom
<1>7. staged' = e
  BY <1>2, <1>3 DEF PasteKey, Stage
<1> QED
  BY <1>6, <1>7 DEF PasteKey, Stage, ViewIInv, controlVars, selectionVars

\* Some of the sort rules.
LEMMA SomeRules ==
    ASSUME sortRules \in SortLists, NEW cols
    PROVE  /\ RulesFor(cols) \in SortLists
           /\ RulesFor(cols) = << >> => \A k \in DOMAIN sortRules : sortRules[k].col \notin cols
<1>1. PICK s \in Seq(SortRule) : s = sortRules /\ \A k, l \in DOMAIN s : s[k].col = s[l].col => k = l
  BY DEF SortLists
<1>2. PICK places \in SUBSET DOMAIN s : places = {k \in DOMAIN s : s[k].col \in cols}
  OBVIOUS
<1>3. PICK some : some = Picked(s, places)
  OBVIOUS
<1>4. /\ some \in Seq(SortRule) /\ Len(some) = Cardinality(places)
      /\ \A k \in DOMAIN some :
            Ascending(places)[k] \in places /\ some[k] = s[Ascending(places)[k]]
      /\ \A k, l \in DOMAIN some : Ascending(places)[k] = Ascending(places)[l] => k = l
      /\ IsFiniteSet(places)
  BY <1>3, PickedIs
<1>5. RulesFor(cols) = some
  BY <1>1, <1>2, <1>3 DEF RulesFor
<1>6. \A k, l \in DOMAIN some : some[k].col = some[l].col => k = l
  BY <1>1, <1>4
<1>7. some = << >> => places = {}
  <2>1. some = << >> => Cardinality(places) = 0
    <3>1. Len(<< >>) = 0
      OBVIOUS
    <3> QED
      BY ONLY <1>4, <3>1
  <2> QED
    BY <1>4, <2>1, FS_EmptySet
<1> QED
  BY <1>1, <1>2, <1>4, <1>5, <1>6, <1>7 DEF SortLists

\* Whatever a header is clicked with, no column gets two rules.
LEMMA SortStep ==
    ASSUME NEW col \in Cols, NEW additive \in BOOLEAN, ViewIInv, ToggleSort(col, additive)
    PROVE  ViewIInv'
<1> DEFINE now    == RulesFor({col})
           others == RulesFor(Cols \ {col})
<1>1. sortRules \in SortLists
  BY DEF ViewIInv
<1>2. \A dir \in {"asc", "desc"} : Rule(col, dir) \in SortRule /\ Rule(col, dir).col = col
  BY DEF Rule, SortRule
<1>3. \A rule \in SortRule : <<rule>> \in SortLists
  BY DEF SortLists
<1>4. << >> \in SortLists
  BY DEF SortLists
<1>5. now \in SortLists /\ others \in SortLists
      /\ (now = << >> => \A k \in DOMAIN sortRules : sortRules[k].col # col)
  BY <1>1, SomeRules
<1> HIDE DEF now, others
<1>6. now = << >> => Append(sortRules, Rule(col, "asc")) \in SortLists
  <2> SUFFICES ASSUME now = << >>
               PROVE  Append(sortRules, Rule(col, "asc")) \in SortLists
    OBVIOUS
  <2>1. PICK s \in Seq(SortRule), rule \in SortRule :
           /\ s = sortRules /\ rule = Rule(col, "asc")
           /\ \A k, l \in DOMAIN s : s[k].col = s[l].col => k = l
           /\ \A k \in DOMAIN s : s[k].col # rule.col
    BY <1>1, <1>2, <1>5 DEF SortLists
  <2>2. PICK n \in Nat : n = Len(s) /\ DOMAIN s = 1 .. n
    OBVIOUS
  <2>3. PICK t : t = Append(s, rule)
    OBVIOUS
  <2>4. /\ t \in Seq(SortRule) /\ DOMAIN t = 1 .. n + 1
        /\ t[n + 1] = rule /\ \A i \in 1 .. n : t[i] = s[i]
    BY <2>2, <2>3
  <2>5. \A k \in 1 .. n + 1 : k \in 1 .. n \/ k = n + 1
    BY ONLY n \in Nat
  <2>6. \A k, l \in DOMAIN t : t[k].col = t[l].col => k = l
    BY ONLY <2>1, <2>2, <2>4, <2>5
  <2>7. Append(s, rule) \in SortLists
    BY ONLY <2>3, <2>4, <2>6 DEF SortLists
  <2> QED
    BY <2>1, <2>7
<1>7. [k \in DOMAIN sortRules |-> IF sortRules[k].col = col THEN Rule(col, "desc") ELSE sortRules[k]]
         \in SortLists
  <2>1. PICK s \in Seq(SortRule), rule \in SortRule :
           /\ s = sortRules /\ rule = Rule(col, "desc") /\ rule.col = col
           /\ \A k, l \in DOMAIN s : s[k].col = s[l].col => k = l
    BY <1>1, <1>2 DEF SortLists
  <2> DEFINE t == [k \in DOMAIN s |-> IF s[k].col = col THEN rule ELSE s[k]]
  <2>2. t \in Seq(SortRule)
    <3>1. \A k \in DOMAIN s : s[k] \in SortRule
      BY <2>1
    <3> QED
      BY <2>1, <3>1
  <2>3. DOMAIN t = DOMAIN s /\ \A k \in DOMAIN s : t[k].col = s[k].col
    BY <2>1
  <2> HIDE DEF t
  <2>4. t \in SortLists
    BY <2>1, <2>2, <2>3 DEF SortLists
  <2> QED
    BY <2>1, <2>4 DEF t
<1>8. sortRules' = CycleSortRules(col, additive)
  BY DEF ToggleSort
<1>9. sortRules' \in SortLists
  <2>1. CASE ~additive
    BY <2>1, <1>2, <1>3, <1>4, <1>8 DEF CycleSortRules, now
  <2>2. CASE additive
    BY <2>2, <1>5, <1>6, <1>7, <1>8 DEF CycleSortRules, now, others
  <2> QED
    BY <2>1, <2>2
<1> QED
  BY <1>9 DEF ToggleSort, Control, ViewIInv, selectionVars

\* Filtering stages nothing and sorts nothing; it may drop the selection.
LEMMA FilterStep ==
    ASSUME ViewIInv, staged' = staged, sortRules' = sortRules,
           DropSelection \/ UNCHANGED selectionVars
    PROVE  ViewIInv'
BY DEF ViewIInv, DropSelection, selectionVars

\* The view keeps its invariant at every step.
LEMMA ViewStep == ViewIInv /\ [ViewNext]_viewVars => ViewIInv'
<1> SUFFICES ASSUME ViewIInv, [ViewNext]_viewVars
             PROVE  ViewIInv'
  OBVIOUS
<1>1. CASE Staging
  <2>1. CASE PressAddRow
    BY <2>1, AddRowStep
  <2>2. ASSUME NEW key \in ShownKeys, PressDeleteRow(key)
        PROVE  ViewIInv'
    BY <2>2, DeleteRowStep
  <2>3. ASSUME NEW key \in ShownKeys, NEW col \in Cols, NEW value \in Typed,
               TypeIntoCell(key, col, value)
        PROVE  ViewIInv'
    BY <2>3, TypeStep
  <2>4. ASSUME NEW value \in {Blank, Null}, DeleteKey(value)
        PROVE  ViewIInv'
    BY <2>4, DeleteKeyStep
  <2>5. ASSUME NEW block \in Blocks, PasteKey(block)
        PROVE  ViewIInv'
    BY <2>5, PasteStep
  <2> QED
    BY <1>1, <2>1, <2>2, <2>3, <2>4, <2>5 DEF Staging
<1>2. CASE Selecting
  <2>1. ASSUME NEW key \in ShownKeys, SelectGridRow(key)
        PROVE  ViewIInv'
    <3>1. key \in RowKeys
      BY ShownKeysAre DEF ViewIInv
    <3>2. /\ staged' = staged /\ sortRules' = sortRules
          /\ selectedRowKey' = key /\ selectedCell' = NoCell
      BY <2>1 DEF SelectGridRow, controlVars
    <3> QED
      BY <3>1, <3>2, SelectStep
  <2>2. ASSUME NEW key \in ShownKeys, NEW col \in Cols, SelectGridCell(key, col)
        PROVE  ViewIInv'
    <3>1. key \in RowKeys /\ col \in Int
      BY ShownKeysAre, CountIs DEF ViewIInv, Cols
    <3>2. /\ staged' = staged /\ sortRules' = sortRules
          /\ selectedRowKey' = key /\ selectedCell' = [key |-> key, col |-> col]
      BY <2>2 DEF SelectGridCell, controlVars
    <3> QED
      BY <3>1, <3>2, SelectStep
  <2>3. ASSUME NEW down \in {-1, 1}, MoveSelectedCell(down, 0)
        PROVE  ViewIInv'
    <3>1. PICK d \in Int, r \in Int : d = down /\ r = 0
      OBVIOUS
    <3> QED
      BY <2>3, <3>1, MoveStep
  <2>4. ASSUME NEW right \in {-1, 1}, MoveSelectedCell(0, right)
        PROVE  ViewIInv'
    <3>1. PICK d \in Int, r \in Int : d = 0 /\ r = right
      OBVIOUS
    <3> QED
      BY <2>4, <3>1, MoveStep
  <2> QED
    BY <1>2, <2>1, <2>2, <2>3, <2>4 DEF Selecting
<1>3. CASE Controlling
  <2>1. ASSUME NEW col \in Cols, NEW additive \in BOOLEAN, ToggleSort(col, additive)
        PROVE  ViewIInv'
    BY <2>1, SortStep
  <2>2. CASE SetFilterJoin
    BY <2>2, FilterStep DEF SetFilterJoin, Control, selectionVars
  <2>3. CASE ClearResultFilters
    BY <2>3, FilterStep DEF ClearResultFilters, Control
  <2>4. ASSUME NEW value, UpdateQuickFilter(value)
        PROVE  ViewIInv'
    BY <2>4, FilterStep DEF UpdateQuickFilter, Control
  <2>5. ASSUME NEW col, AddFilterRule(col)
        PROVE  ViewIInv'
    BY <2>5, FilterStep DEF AddFilterRule, Control
  <2>6. ASSUME NEW k, NEW op, NEW value, NEW enabled, UpdateFilterRule(k, op, value, enabled)
        PROVE  ViewIInv'
    BY <2>6, FilterStep DEF UpdateFilterRule, Control
  <2>7. ASSUME NEW k, RemoveFilterRule(k)
        PROVE  ViewIInv'
    BY <2>7, FilterStep DEF RemoveFilterRule, Control
  <2> QED
    BY <1>3, <2>1, <2>2, <2>3, <2>4, <2>5, <2>6, <2>7 DEF Controlling
<1>4. CASE UNCHANGED viewVars
  BY <1>4, FilterStep DEF viewVars, selectionVars
<1> QED
  BY <1>1, <1>2, <1>3, <1>4 DEF ViewNext

\* The invariant of the view holds in every state.
LEMMA ViewInvariant == ViewSpec => []ViewIInv
BY ViewInitially, ViewStep, PTL DEF ViewSpec

\* The invariant says what is promised of the view.
LEMMA ViewMeans == ViewIInv => ViewIsSound
<1> SUFFICES ASSUME ViewIInv
             PROVE  ViewIsSound
  OBVIOUS
<1>1. /\ staged \in ViewDrafts /\ staged.newRows \in Seq([Cols -> Nat])
      /\ staged.deleted \in SUBSET (0 .. Count - 1)
      /\ DOMAIN staged.edits \subseteq (0 .. Count - 1) \X Cols
  BY DraftsAre DEF ViewIInv
<1>2. \A r \in Range(staged.newRows) : DOMAIN r = Cols
  BY <1>1 DEF Range
<1>3. ViewTypeOK
  BY <1>1, <1>2 DEF ViewIInv, SortLists, ViewTypeOK
<1>4. WindowedShowsTheSame
  BY <1>1, WindowedIsLaidOut
<1>5. EditedMeansChanged
  BY DEF ViewIInv, SoundDrafts, EditedMeansChanged
<1> QED
  BY <1>3, <1>4, <1>5 DEF ViewIsSound

\* Whatever is staged, filtered, sorted and selected, the rows that the windowed view
\* computes one by one are the rows laid out, at every position, in every range and by
\* every key; what is shown as edited differs from what was read; and no column is sorted
\* by twice, for any result, any threshold and any blocks pasted.
THEOREM ViewsStaySound == ViewSpec => []ViewIsSound
BY ViewInvariant, ViewMeans, PTL

\* A row is laid out where the windowed view says that its key is.
LEMMA KeyIsThere ==
    ASSUME NEW d \in ViewDrafts, NEW key \in RowKeys, NEW at \in Nat,
           at = WindowedIndexForKey(d, key), at < Len(BuildRows(d))
    PROVE  at + 1 \in DOMAIN BuildRows(d) /\ BuildRows(d)[at + 1].key = key
<1>1. PICK n \in Nat, m \in Nat : n = OriginalCount(d) /\ m = Len(d.newRows)
  BY KeptRanks, StagedRowsAreRows
<1>2. /\ Len(BuildRows(d)) = n + m /\ DOMAIN BuildRows(d) = 1 .. n + m
      /\ \A x \in 0 .. n - 1 : BuildRows(d)[x + 1] = OriginalRow(d, ShownOriginal(d, x))
      /\ \A j \in 0 .. m - 1 : BuildRows(d)[n + j + 1] = NewRow(d, j)
  <2>1. BuildRows(d) \in Seq(GridRows) /\ Len(BuildRows(d)) = n + m
    BY <1>1, RowsLaidOut
  <2>2. DOMAIN BuildRows(d) = 1 .. n + m
    BY <2>1
  <2> QED
    BY <1>1, <2>1, <2>2, RowsLaidOut
<1>3. at + 1 \in DOMAIN BuildRows(d)
  BY ONLY at \in Nat, n \in Nat, m \in Nat, at < Len(BuildRows(d)), <1>2
<1>4. CASE key \in {"n"} \X Nat
  <2>1. PICK j \in Nat : key = <<"n", j>>
    BY <1>4
  <2>2. at = n + j
    BY <1>1, <2>1 DEF WindowedIndexForKey
  <2>3. j \in 0 .. m - 1 /\ at + 1 = n + j + 1
    BY ONLY at < Len(BuildRows(d)), at \in Nat, n \in Nat, m \in Nat, j \in Nat, <1>2, <2>2
  <2>4. BuildRows(d)[at + 1] = NewRow(d, j)
    BY ONLY <1>2, <2>3
  <2>5. NewRow(d, j).key = key
    BY ONLY <2>1 DEF NewRow
  <2> QED
    BY ONLY <1>3, <2>4, <2>5
<1>5. CASE key \in {"o"} \X (0 .. Count - 1)
  <2>1. PICK i \in 0 .. Count - 1 : key = <<"o", i>>
    BY <1>5
  <2>2. i \notin d.deleted
    <3>1. i \in d.deleted => at = -1
      BY <2>1 DEF WindowedIndexForKey
    <3>2. at # -1
      BY ONLY at \in Nat
    <3> QED
      BY <3>1, <3>2
  <2>3. PICK k \in 1 .. n : Ascending(KeptRows(d))[k] = i
    <3>1. i \in KeptRows(d)
      BY <2>2 DEF KeptRows
    <3>2. KeptRows(d) \in SUBSET Nat /\ IsFiniteSet(KeptRows(d)) /\ Cardinality(KeptRows(d)) = n
      BY <1>1, KeptRanks
    <3> QED
      BY <3>1, <3>2, AscendingIs
  <2>4. PICK x \in 0 .. n - 1 : x + 1 = k /\ x = k - 1
    <3>1. k - 1 \in 0 .. n - 1 /\ k - 1 + 1 = k
      BY ONLY n \in Nat, k \in 1 .. n
    <3> QED
      BY <3>1
  <2>5. k \in DOMAIN BuildRows(d)
    BY ONLY <1>2, n \in Nat, m \in Nat, k \in 1 .. n
  <2>6. BuildRows(d)[k].key = key
    <3>1. BuildRows(d)[k] = OriginalRow(d, i)
      BY <1>2, <2>3, <2>4 DEF ShownOriginal
    <3> QED
      BY <2>1, <3>1 DEF OriginalRow
  <2>7. at = k - 1
    BY <2>5, <2>6, KeysLaidOut
  <2>8. at + 1 = k
    BY ONLY <2>7, n \in Nat, k \in 1 .. n
  <2> QED
    BY <1>3, <2>6, <2>8
<1> QED
  BY <1>4, <1>5 DEF RowKeys

\* The row of the selected cell is where it is laid out, by either way.
LEMMA PlacesAgree ==
    ASSUME ViewIInv, selectedCell # NoCell, SelectedDisplayRow # << >>
    PROVE  LaidOutIndexForKey(staged, selectedCell.key) = DisplayIndexForKey(selectedCell.key)
<1>1. CASE ~Windowed
  BY <1>1 DEF DisplayIndexForKey
<1>2. CASE Windowed
  <2>1. PICK at \in Nat, key \in RowKeys :
           /\ at = DisplayIndexForKey(key) /\ at < Len(DisplayRows(staged))
           /\ key = selectedCell.key
    BY SelectedPlace
  <2>2. PICK d \in ViewDrafts : d = staged
    BY DraftsAre DEF ViewIInv
  <2>3. DisplayRows(d) = BuildRows(d) /\ at = WindowedIndexForKey(d, key)
    BY <1>2, <2>1, <2>2, DisplayedRows DEF DisplayIndexForKey
  <2>4. at + 1 \in DOMAIN BuildRows(d) /\ BuildRows(d)[at + 1].key = key
    BY <2>1, <2>2, <2>3, KeyIsThere
  <2>5. {k \in DOMAIN BuildRows(d) : BuildRows(d)[k].key = key} = {at + 1}
    <3>1. \A k, l \in DOMAIN BuildRows(d) : BuildRows(d)[k].key = BuildRows(d)[l].key => k = l
      BY KeysAreApart
    <3> QED
      BY ONLY <2>4, <3>1
  <2>6. LaidOutIndexForKey(d, key) = at + 1 - 1
    BY ONLY <2>3, <2>5 DEF LaidOutIndexForKey
  <2>7. at + 1 - 1 = at
    BY ONLY at \in Nat
  <2> QED
    BY <2>1, <2>2, <2>6, <2>7
<1> QED
  BY <1>1, <1>2

\* The cells of a row laid out are the draft's.
LEMMA CellsLaidOut ==
    ASSUME NEW d \in SoundDrafts, NEW k \in DOMAIN BuildRows(d)
    PROVE  /\ BuildRows(d)[k].key \in KeysOf(d)
           /\ BuildRows(d)[k].cells = [c \in Cols |-> CellOf(d, BuildRows(d)[k].key, c)]
<1>1. d \in ViewDrafts
  BY DraftsAre
<1>2. PICK n \in Nat, m \in Nat : n = OriginalCount(d) /\ m = Len(d.newRows)
  BY <1>1, KeptRanks, StagedRowsAreRows
<1>3. /\ DOMAIN BuildRows(d) = 1 .. n + m
      /\ \A x \in 0 .. n - 1 : BuildRows(d)[x + 1] = OriginalRow(d, ShownOriginal(d, x))
      /\ \A j \in 0 .. m - 1 : BuildRows(d)[n + j + 1] = NewRow(d, j)
  <2>1. BuildRows(d) \in Seq(GridRows) /\ Len(BuildRows(d)) = n + m
    BY <1>1, <1>2, RowsLaidOut
  <2>2. DOMAIN BuildRows(d) = 1 .. n + m
    BY <2>1
  <2> QED
    BY <1>1, <1>2, <2>2, RowsLaidOut
<1>4. CASE k \in 1 .. n
  <2>1. PICK x \in 0 .. n - 1 : x + 1 = k
    <3>1. k - 1 \in 0 .. n - 1 /\ k - 1 + 1 = k
      BY ONLY n \in Nat, <1>4
    <3> QED
      BY <3>1
  <2>2. PICK i \in KeptRows(d) : i = ShownOriginal(d, x)
    BY <1>1, <1>2, ShownOriginalIs
  <2>3. BuildRows(d)[k] = OriginalRow(d, i)
    BY <1>3, <2>1, <2>2
  <2> QED
    BY <2>2, <2>3 DEF OriginalRow, CellOf, KeysOf
<1>5. CASE k \in n + 1 .. n + m
  <2>1. PICK j \in 0 .. m - 1 : n + j + 1 = k /\ j + 1 \in 1 .. m
    <3>1. k - n - 1 \in 0 .. m - 1 /\ n + (k - n - 1) + 1 = k
      BY ONLY n \in Nat, m \in Nat, <1>5
    <3>2. \A j \in 0 .. m - 1 : j + 1 \in 1 .. m
      BY ONLY m \in Nat
    <3> QED
      BY <3>1, <3>2
  <2>2. BuildRows(d)[k] = NewRow(d, j)
    BY ONLY <1>3, <2>1, j \in 0 .. m - 1
  <2>3. d.newRows[j + 1] \in [Cols -> Nat]
    BY <1>2, <2>1, DraftsAre
  <2>4. d.newRows[j + 1] = [c \in Cols |-> d.newRows[j + 1][c]]
    BY ONLY <2>3
  <2>5. NewRow(d, j).key = <<"n", j>> /\ NewRow(d, j).cells = d.newRows[j + 1]
    BY DEF NewRow
  <2>6. \A c \in Cols : CellOf(d, <<"n", j>>, c) = d.newRows[j + 1][c]
    BY DEF CellOf
  <2>7. <<"n", j>> \in KeysOf(d)
    BY <1>2 DEF KeysOf
  <2> QED
    BY ONLY <2>2, <2>4, <2>5, <2>6, <2>7
<1>6. k \in 1 .. n \/ k \in n + 1 .. n + m
  BY ONLY n \in Nat, m \in Nat, k \in DOMAIN BuildRows(d), <1>3
<1> QED
  BY <1>4, <1>5, <1>6

\* Where more new rows are staged, the rows that were laid out keep their places.
LEMMA RowsStayInPlace ==
    ASSUME NEW d \in SoundDrafts, NEW e \in DraftsFrom(d)
    PROVE  /\ Len(BuildRows(d)) \in Nat /\ Len(d.newRows) \in Nat /\ Len(e.newRows) \in Nat
           /\ Len(BuildRows(e)) + Len(d.newRows) = Len(BuildRows(d)) + Len(e.newRows)
           /\ DOMAIN BuildRows(d) = 1 .. Len(BuildRows(d))
           /\ DOMAIN BuildRows(e) = 1 .. Len(BuildRows(e))
           /\ \A k \in DOMAIN BuildRows(d) :
                 k \in DOMAIN BuildRows(e) /\ BuildRows(e)[k].key = BuildRows(d)[k].key
           /\ \A p \in 1 .. Len(e.newRows) - Len(d.newRows) :
                 BuildRows(e)[Len(BuildRows(d)) + p].cells = e.newRows[Len(d.newRows) + p]
<1>1. d \in ViewDrafts /\ e \in ViewDrafts /\ e.deleted = d.deleted
  BY DraftsAre DEF DraftsFrom
<1>2. PICK n \in Nat, m \in Nat, l \in Nat :
         n = OriginalCount(d) /\ m = Len(d.newRows) /\ l = Len(e.newRows)
  BY <1>1, KeptRanks, StagedRowsAreRows
<1>3. n = OriginalCount(e) /\ KeptRows(e) = KeptRows(d) /\ m <= l
      /\ \A x : ShownOriginal(e, x) = ShownOriginal(d, x)
  BY <1>1, <1>2 DEF OriginalCount, KeptRows, ShownOriginal, DraftsFrom
<1>4. /\ Len(BuildRows(d)) = n + m /\ DOMAIN BuildRows(d) = 1 .. n + m
      /\ \A x \in 0 .. n - 1 : BuildRows(d)[x + 1] = OriginalRow(d, ShownOriginal(d, x))
      /\ \A j \in 0 .. m - 1 : BuildRows(d)[n + j + 1] = NewRow(d, j)
  <2>1. BuildRows(d) \in Seq(GridRows) /\ Len(BuildRows(d)) = n + m
    BY <1>1, <1>2, RowsLaidOut
  <2>2. DOMAIN BuildRows(d) = 1 .. n + m
    BY <2>1
  <2> QED
    BY <1>1, <1>2, <2>1, <2>2, RowsLaidOut
<1>5. /\ Len(BuildRows(e)) = n + l /\ DOMAIN BuildRows(e) = 1 .. n + l
      /\ \A x \in 0 .. n - 1 : BuildRows(e)[x + 1] = OriginalRow(e, ShownOriginal(d, x))
      /\ \A j \in 0 .. l - 1 : BuildRows(e)[n + j + 1] = NewRow(e, j)
  <2>1. BuildRows(e) \in Seq(GridRows) /\ Len(BuildRows(e)) = n + l
    BY <1>1, <1>2, <1>3, RowsLaidOut
  <2>2. DOMAIN BuildRows(e) = 1 .. n + l
    BY <2>1
  <2> QED
    BY <1>1, <1>2, <1>3, <2>1, <2>2, RowsLaidOut
<1>6. ASSUME NEW k \in 1 .. n + m
      PROVE  k \in 1 .. n + l /\ BuildRows(e)[k].key = BuildRows(d)[k].key
  <2>1. k \in 1 .. n + l
    BY ONLY k \in 1 .. n + m, n \in Nat, m \in Nat, l \in Nat, <1>3
  <2>2. CASE k <= n
    <3>1. PICK x \in 0 .. n - 1 : x + 1 = k
      <4>1. k - 1 \in 0 .. n - 1 /\ k - 1 + 1 = k
        BY ONLY n \in Nat, m \in Nat, k \in 1 .. n + m, <2>2
      <4> QED
        BY <4>1
    <3>2. /\ BuildRows(d)[k] = OriginalRow(d, ShownOriginal(d, x))
          /\ BuildRows(e)[k] = OriginalRow(e, ShownOriginal(d, x))
      BY ONLY <1>4, <1>5, <3>1, x \in 0 .. n - 1
    <3> QED
      BY <2>1, <3>2 DEF OriginalRow
  <2>3. CASE k > n
    <3>1. PICK j \in 0 .. m - 1 : n + j + 1 = k /\ j \in 0 .. l - 1
      <4>1. k - n - 1 \in 0 .. m - 1 /\ n + (k - n - 1) + 1 = k /\ k - n - 1 \in 0 .. l - 1
        BY ONLY n \in Nat, m \in Nat, l \in Nat, k \in 1 .. n + m, <2>3, <1>3
      <4> QED
        BY <4>1
    <3>2. BuildRows(d)[k] = NewRow(d, j) /\ BuildRows(e)[k] = NewRow(e, j)
      BY ONLY <1>4, <1>5, <3>1, j \in 0 .. m - 1
    <3> QED
      BY <2>1, <3>2 DEF NewRow
  <2>4. k <= n \/ k > n
    BY ONLY n \in Nat, m \in Nat, k \in 1 .. n + m
  <2> QED
    BY <2>2, <2>3, <2>4
<1>7. ASSUME NEW p \in 1 .. l - m
      PROVE  BuildRows(e)[n + m + p].cells = e.newRows[m + p]
  <2>1. PICK j \in 0 .. l - 1 : n + j + 1 = n + m + p /\ j + 1 = m + p
    <3>1. m + p - 1 \in 0 .. l - 1 /\ n + (m + p - 1) + 1 = n + m + p /\ m + p - 1 + 1 = m + p
      BY ONLY n \in Nat, m \in Nat, l \in Nat, p \in 1 .. l - m
    <3> QED
      BY <3>1
  <2>2. BuildRows(e)[n + m + p] = NewRow(e, j)
    BY ONLY <1>5, <2>1, j \in 0 .. l - 1
  <2> QED
    BY <2>1, <2>2 DEF NewRow
<1>8. n + l + m = n + m + l /\ n + m \in Nat
  BY ONLY n \in Nat, m \in Nat, l \in Nat
<1> QED
  BY ONLY n \in Nat, m \in Nat, l \in Nat, <1>2, <1>4, <1>5, <1>6, <1>7, <1>8

\* What is promised of a block pasted from a row shown and a column on.
FillsShown(shown, start, col, before, after, block) ==
    LET Hit(entry) == {k \in DOMAIN block : start + k \in DOMAIN shown
                                         /\ shown[start + k].key = entry.key}
        Filled(entry, k) == [c \in Cols |->
            IF c - col + 1 \in DOMAIN block[k] THEN block[k][c - col + 1] ELSE entry.cells[c]]
        extra == Len(block) - (Len(shown) - start)
    IN  /\ Len(after) = Len(before) + (IF extra > 0 THEN extra ELSE 0)
        /\ \A i \in DOMAIN before :
              after[i].cells = IF Hit(before[i]) = {} THEN before[i].cells
                               ELSE Filled(before[i], CHOOSE k \in Hit(before[i]) : TRUE)
        /\ \A i \in Len(before) + 1..Len(after) :
              after[i].cells = PastedRow(col, block[Len(block) - (Len(after) - i)])

\* A block pasted on what is shown fills the rows and columns that it reaches, and no other.
LEMMA BlockFills ==
    ASSUME ViewIInv, selectedCell # NoCell, SelectedDisplayRow # << >>, NEW block \in Blocks
    PROVE  FillsShown(DisplayRows(staged), LaidOutIndexForKey(staged, selectedCell.key),
                      selectedCell.col, BuildRows(staged),
                      BuildRows(PasteTable(selectedCell.key, selectedCell.col, block)), block)
<1>1. PICK start \in Nat, col \in Int :
         /\ start = DisplayIndexForKey(selectedCell.key) /\ start < Len(DisplayRows(staged))
         /\ start = LaidOutIndexForKey(staged, selectedCell.key) /\ col = selectedCell.col
  BY SelectedPlace, PlacesAgree
<1>2. PICK shown, before, e, after :
         /\ shown = DisplayRows(staged) /\ before = BuildRows(staged)
         /\ e = PasteTable(selectedCell.key, col, block) /\ after = BuildRows(e)
  OBVIOUS
<1>3. PICK d \in SoundDrafts : d = staged
  BY DEF ViewIInv
<1>4. PICK n \in Nat : n = Len(block) /\ DOMAIN block = 1 .. n
  <2>1. block \in Seq(Seq(Nat))
    BY ViewConstants
  <2> QED
    BY <2>1
<1>5. PICK m \in Nat : m = Len(shown) /\ DOMAIN shown = 1 .. m
  <2>1. shown \in Seq(GridRows)
    BY <1>2, <1>3, DraftsAre, DisplayedRows
  <2> QED
    BY <2>1
<1>6. /\ e \in DraftsFrom(d)
      /\ Len(e.newRows) = Len(d.newRows) + (IF start + n > m THEN start + n - m ELSE 0)
      /\ \A j \in 1 .. n : start + j <= m =>
            \A c \in Cols :
               CellOf(e, shown[start + j].key, c) =
                  IF c - col + 1 \in DOMAIN block[j] THEN block[j][c - col + 1]
                  ELSE CellOf(d, shown[start + j].key, c)
      /\ \A x \in KeysOf(d) :
            (\A j \in 1 .. n : start + j <= m => shown[start + j].key # x) =>
               \A c \in Cols : CellOf(e, x, c) = CellOf(d, x, c)
      /\ \A j \in 1 .. n : start + j > m =>
            e.newRows[Len(d.newRows) + (start + j - m)] = PastedRow(col, block[j])
  <2>1. block \in Seq(Seq(Nat)) /\ staged \in SoundDrafts
    BY ViewConstants DEF ViewIInv
  <2>2. PastedUpTo(e, start, col, block, Len(block))
    BY <1>1, <1>2, <2>1, BlockIsPasted
  <2> QED
    BY ONLY <1>2, <1>3, <1>4, <1>5, <2>2 DEF PastedUpTo
<1>7. PICK N \in Nat, M \in Nat, p \in Nat, q \in Nat :
         /\ N = Len(before) /\ M = Len(after) /\ p = Len(d.newRows) /\ q = Len(e.newRows)
         /\ M + p = N + q /\ DOMAIN before = 1 .. N /\ DOMAIN after = 1 .. M
  <2>1. /\ Len(before) \in Nat /\ Len(d.newRows) \in Nat /\ Len(e.newRows) \in Nat
        /\ Len(after) + Len(d.newRows) = Len(before) + Len(e.newRows)
        /\ DOMAIN before = 1 .. Len(before) /\ DOMAIN after = 1 .. Len(after)
    BY <1>2, <1>3, <1>6, RowsStayInPlace
  <2>2. Len(after) \in Nat
    <3>1. after \in Seq(GridRows)
      BY <1>2, <1>6, DraftsAre, RowsLaidOut DEF DraftsFrom
    <3> QED
      BY <3>1
  <2> QED
    BY <2>1, <2>2
<1>8. /\ \A k \in 1 .. N : k \in 1 .. M /\ after[k].key = before[k].key
      /\ \A i \in 1 .. q - p : after[N + i].cells = e.newRows[p + i]
  <2>1. /\ \A k \in DOMAIN BuildRows(d) :
              k \in DOMAIN BuildRows(e) /\ BuildRows(e)[k].key = BuildRows(d)[k].key
        /\ \A i \in 1 .. Len(e.newRows) - Len(d.newRows) :
              BuildRows(e)[Len(BuildRows(d)) + i].cells = e.newRows[Len(d.newRows) + i]
    BY ONLY d \in SoundDrafts, <1>6, RowsStayInPlace
  <2> QED
    BY ONLY <2>1, <1>2, <1>3, <1>7
<1>9. M = N + (IF start + n > m THEN start + n - m ELSE 0)
  <2>1. PICK more \in Nat : more = IF start + n > m THEN start + n - m ELSE 0
    <3>1. (IF start + n > m THEN start + n - m ELSE 0) \in Nat
      BY ONLY n \in Nat, m \in Nat, start \in Nat
    <3> QED
      BY <3>1
  <2>2. q = p + more
    BY ONLY <1>6, <1>7, <2>1
  <2>3. M = N + more
    BY ONLY <1>7, <2>2, N \in Nat, M \in Nat, p \in Nat, q \in Nat, more \in Nat
  <2> QED
    BY ONLY <2>1, <2>3
<1> DEFINE extra == Len(block) - (Len(shown) - start)
           Hit(entry) == {k \in DOMAIN block : start + k \in DOMAIN shown
                                            /\ shown[start + k].key = entry.key}
           Filled(entry, k) == [c \in Cols |->
               IF c - col + 1 \in DOMAIN block[k] THEN block[k][c - col + 1] ELSE entry.cells[c]]
<1>10. Len(after) = Len(before) + (IF extra > 0 THEN extra ELSE 0)
  <2>1. PICK x \in Int : x = extra
    <3>1. n - (m - start) \in Int
      BY ONLY n \in Nat, m \in Nat, start \in Nat
    <3> QED
      BY ONLY <3>1, <1>4, <1>5
  <2>2. x = n - (m - start)
    BY ONLY <2>1, <1>4, <1>5
  <2>3. M = N + (IF x > 0 THEN x ELSE 0)
    BY ONLY n \in Nat, m \in Nat, start \in Nat, N \in Nat, M \in Nat, <2>2, <1>9
  <2> QED
    BY ONLY <2>1, <2>3, <1>7
<1>11. ASSUME NEW i \in DOMAIN before
       PROVE  after[i].cells = IF Hit(before[i]) = {} THEN before[i].cells
                               ELSE Filled(before[i], CHOOSE k \in Hit(before[i]) : TRUE)
  <2>1. PICK key \in KeysOf(d) : key = before[i].key
    BY <1>2, <1>3, <1>7, CellsLaidOut
  <2>2. before[i].cells = [c \in Cols |-> CellOf(d, key, c)]
    BY <1>2, <1>3, <1>7, <2>1, CellsLaidOut
  <2>3. after[i].cells = [c \in Cols |-> CellOf(e, key, c)]
    <3>1. i \in DOMAIN BuildRows(e) /\ BuildRows(e)[i].key = key
      BY <1>2, <1>7, <1>8, <2>1
    <3>2. e \in SoundDrafts
      BY <1>6 DEF DraftsFrom
    <3>3. BuildRows(e)[i].cells = [c \in Cols |-> CellOf(e, BuildRows(e)[i].key, c)]
      BY <3>1, <3>2, CellsLaidOut
    <3> QED
      BY ONLY <1>2, <3>1, <3>3
  <2>4. \A j \in 1 .. n : start + j <= m <=> start + j \in 1 .. m
    BY ONLY n \in Nat, m \in Nat, start \in Nat
  <2>5. CASE Hit(before[i]) = {}
    <3>1. \A j \in 1 .. n : start + j <= m => shown[start + j].key # key
      BY ONLY <2>1, <2>4, <2>5, <1>4, <1>5
    <3>2. \A c \in Cols : CellOf(e, key, c) = CellOf(d, key, c)
      BY ONLY key \in KeysOf(d), <1>6, <3>1
    <3> QED
      BY ONLY <2>2, <2>3, <2>5, <3>2
  <2>6. ASSUME NEW k \in Hit(before[i])
        PROVE  after[i].cells = Filled(before[i], k)
    <3>1. k \in 1 .. n /\ start + k <= m /\ shown[start + k].key = key
      BY ONLY <2>1, <2>4, k \in Hit(before[i]), <1>4, <1>5
    <3>2. \A c \in Cols : CellOf(e, key, c) =
             IF c - col + 1 \in DOMAIN block[k] THEN block[k][c - col + 1] ELSE CellOf(d, key, c)
      BY ONLY <1>6, <3>1
    <3>3. \A c \in Cols : before[i].cells[c] = CellOf(d, key, c)
      BY ONLY <2>2
    <3> QED
      BY ONLY <2>3, <3>2, <3>3
  <2>7. CASE Hit(before[i]) # {}
    <3> HIDE DEF Hit, Filled
    <3>1. PICK k : k = CHOOSE j \in Hit(before[i]) : TRUE
      OBVIOUS
    <3>2. k \in Hit(before[i])
      BY ONLY <2>7, <3>1
    <3>3. after[i].cells = Filled(before[i], k)
      BY <2>6, <3>2
    <3> QED
      BY ONLY <2>7, <3>1, <3>3
  <2> HIDE DEF Hit, Filled
  <2> QED
    BY <2>5, <2>7
<1>12. ASSUME NEW i \in Len(before) + 1 .. Len(after)
       PROVE  after[i].cells = PastedRow(col, block[Len(block) - (Len(after) - i)])
  <2>0. i \in N + 1 .. M
    BY ONLY <1>7, i \in Len(before) + 1 .. Len(after)
  <2>1. PICK l \in 1 .. q - p, j \in 1 .. n :
           N + l = i /\ j = n - (M - i) /\ start + j > m /\ start + j - m = l
    <3>1. i - N \in 1 .. q - p /\ N + (i - N) = i
      BY ONLY N \in Nat, M \in Nat, p \in Nat, q \in Nat, <2>0, <1>7
    <3>2. M - N = start + n - m
      BY ONLY n \in Nat, m \in Nat, start \in Nat, N \in Nat, M \in Nat, <2>0, <1>9
    <3>3. start < m
      BY ONLY <1>1, <1>2, <1>5
    <3>4. n - (M - i) \in 1 .. n /\ start + (n - (M - i)) > m /\ start + (n - (M - i)) - m = i - N
      BY ONLY n \in Nat, m \in Nat, start \in Nat, N \in Nat, M \in Nat, <2>0, <3>2, <3>3
    <3> QED
      BY <3>1, <3>4
  <2>2. after[i].cells = e.newRows[p + l]
    BY ONLY l \in 1 .. q - p, <1>8, <2>1
  <2>3. e.newRows[p + l] = PastedRow(col, block[j])
    BY ONLY j \in 1 .. n, <1>6, <1>7, <2>1
  <2> QED
    BY ONLY <2>1, <2>2, <2>3, <1>4, <1>7
<1>13. FillsShown(shown, start, col, before, after, block)
  <2>1. \A i \in DOMAIN before :
           after[i].cells = IF Hit(before[i]) = {} THEN before[i].cells
                            ELSE Filled(before[i], CHOOSE k \in Hit(before[i]) : TRUE)
    <3> HIDE DEF Hit, Filled
    <3> QED
      BY <1>11
  <2>2. \A i \in Len(before) + 1 .. Len(after) :
           after[i].cells = PastedRow(col, block[Len(block) - (Len(after) - i)])
    BY <1>12
  <2> QED
    BY ONLY <1>10, <2>1, <2>2 DEF FillsShown
<1> QED
  BY ONLY <1>1, <1>2, <1>13

\* The invariant of the view gives the property of pasting.
LEMMA PasteMeans == ViewIInv => PasteFillsWhatIsShown
BY BlockFills DEF PasteFillsWhatIsShown, FillsShown

\* Whatever was staged, filtered and sorted before, a block pasted on a cell of a row on
\* screen fills the rows shown from there down and no other, and the rows it has left
\* become new ones, for any result, any block and any of the two ways to compute what is
\* shown.
THEOREM PastesFillWhatIsShown == ViewSpec => []PasteFillsWhatIsShown
BY ViewInvariant, PasteMeans, PTL
=============================================================================
