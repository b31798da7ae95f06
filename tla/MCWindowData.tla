---------------------------- MODULE MCWindowData ----------------------------
(***************************************************************************)
(* Small instances, for TLC, of the parts of the window that only the user *)
(* changes or that are computed from what is shown: the editor's tabs, the *)
(* staged edits, the result grid's view, and the commit graph.  The models *)
(* share no variable, so one run checks each of them by itself: a          *)
(* behaviour is one of `part`, and the others stay in an initial state.    *)
(***************************************************************************)
EXTENDS EditorWorkspaces, GridEdits, ResultView, GitGraph

CONSTANTS c1, s1, s2, s3, t1

VARIABLE part

dataVars == <<part, editorVars, gridVars, viewVars, graphVars>>

MCProfiles  == {c1}
MCSqlTabs   == <<s1, s2, s3>>
MCTableTabs == {t1}
MCSQL       == {"x"}

\* Two connections; on the second the table is empty.  Other statements give a row
\* that looks like one of the table, or no key.
MCDatabases == {"d1", "d2"}
MCKeys   == {"k1", "k2"}
MCValues == {"a", "b"}
MCTable  == [c \in MCDatabases |-> [k \in MCKeys |-> IF c = "d1" THEN "a" ELSE Gone]]
MCOtherAnswers ==
    { [rows |-> << [key |-> "k2", value |-> "b"] >>, keyed |-> TRUE],
      [rows |-> << >>, keyed |-> FALSE] }

\* Four rows of two columns, shown plainly, sorted by both columns, and filtered
\* in two ways.
MCOriginal == << <<2, 0>>, <<3, 2>>, <<2, 3>>, <<1, 2>> >>
MCTyped    == {1, 2}
MCBlocks   == { << <<2, 3>>, <<1>>, <<3, 3>> >> }

Plain == [sort |-> << >>, quick |-> Null, rules |-> << >>, join |-> "and"]
Is(col, op, value) == [col |-> col, op |-> op, value |-> value, enabled |-> TRUE]
MCControls ==
    { Plain,
      [Plain EXCEPT !.sort = <<Rule(1, "desc"), Rule(2, "asc")>>],
      [Plain EXCEPT !.sort = <<Rule(2, "asc")>>, !.quick = 2],
      [Plain EXCEPT !.rules = <<Is(1, "gt", 1), Is(AnyCol, "is_null", Blank)>>,
                    !.join = "or"] }

DataInit ==
    /\ part \in {"editor", "edits", "view", "graph"}
    /\ EditorInit /\ GridInit /\ ViewInit /\ GraphInit
    /\ part # "editor" => storageWorks
    /\ table = MCTable /\ here = "d1"
    /\ part # "view" => quickFilter # Null

DataNext ==
    /\ UNCHANGED part
    /\ \/ /\ part = "editor" /\ EditorNext
          /\ UNCHANGED <<gridVars, viewVars, graphVars>>
       \/ /\ part = "edits" /\ GridNext
          /\ UNCHANGED <<editorVars, viewVars, graphVars>>
       \/ /\ part = "view" /\ ViewNext
          /\ UNCHANGED <<editorVars, gridVars, graphVars>>
       \/ /\ part = "graph" /\ GraphNext
          /\ UNCHANGED <<editorVars, gridVars, viewVars>>

DataSpec == DataInit /\ [][DataNext]_dataVars
=============================================================================
