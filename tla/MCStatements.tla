-------------------------------- MODULE MCStatements --------------------------------
(***************************************************************************)
(* Small instances, for TLC, of what becomes of the statements a user      *)
(* types: the readers of their characters and of their names, and the held *)
(* session they are run on.  The models share no variable; a behaviour is  *)
(* one of `part`, and the others stay in an initial state, in which none   *)
(* of the fair actions is enabled.  Liveness is checked, so there is no    *)
(* symmetry.                                                               *)
(***************************************************************************)
EXTENDS Session, SqlText, SqlNames

VARIABLE part

statementVars == <<part, docVars, nameVars, vars>>

\* Quotes, comments, dollar quotes, what only some of the scanners know, and
\* parentheses with the linter's words.
MCQuotes  == {<<"sq">>, <<"bq">>, <<";">>, <<" ">>, <<"w">>}
MCNotes   == {<<"-", "-">>, <<"/", "*">>, <<"*", "/">>, <<"nl">>, <<";">>, <<"w">>, <<"dq">>}
MCDollars == {<<"$", "$">>, <<"$">>, <<"h">>, <<";">>, <<"1">>, <<" ", "w">>}
MCEscapes == {<<"sq">>, <<"bs">>, <<";">>, <<"cr">>, <<"-", "-">>, <<"w">>}
MCParens  == {<<"(">>, <<")">>, <<" ", "h">>, <<"w">>, <<";">>, <<"sq", ")", "sq">>}
MCAlphabets == {MCQuotes, MCNotes, MCDollars, MCEscapes, MCParens}

\* p is the default schema; two schemas have a tab, s.tab refers to p.usr with two
\* columns and p.usr to p.tab with one, in the schema of its own.
Key(columns, schema, table, references) ==
    [columns |-> columns, schema |-> schema, table |-> table, references |-> references]

MCRelations ==
    << [schema |-> "p", name |-> "tab", columns |-> {"c"}, foreignKeys |-> << >>],
       [schema |-> "p", name |-> "usr", columns |-> {"c", "d"},
        foreignKeys |-> <<Key(<<"d">>, NoToken, "tab", <<"c">>)>>],
       [schema |-> "s", name |-> "tab", columns |-> {"c", "d"},
        foreignKeys |-> <<Key(<<"c", "d">>, "p", "usr", <<"c", "d">>)>>] >>

MCAliasSeeds == [tab |-> <<"t", "ta", "tab">>, usr |-> <<"u", "us", "usr">>]

MCPhrases ==
    { <<"from", "tab">>, <<"from", "s", ".", "tab">>, <<"from">>, <<"join">>,
      <<"join", "usr">>, <<",">>, <<",", "usr">>, <<"as", "u">>, <<"a">>,
      <<"a", ".", "c">>, <<"usr", ".", "c">>, <<"(", "select">> }

StatementInit ==
    /\ part \in {"text", "names", "session"}
    /\ DocInit /\ NameInit /\ Init
    /\ part # "text" => alphabet = MCQuotes

StatementNext ==
    /\ UNCHANGED part
    /\ \/ part = "text" /\ DocNext /\ UNCHANGED <<nameVars, vars>>
       \/ part = "names" /\ NameNext /\ UNCHANGED <<docVars, vars>>
       \/ part = "session" /\ Next /\ UNCHANGED <<docVars, nameVars>>

StatementSpec == StatementInit /\ [][StatementNext]_statementVars /\ Fairness
=============================================================================
