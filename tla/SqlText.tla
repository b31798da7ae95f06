------------------------------ MODULE SqlText ------------------------------
(***************************************************************************)
(* How a SQL text is cut into statements and words.  Six scanners read the *)
(* same text: the editor's delimiters (sql/statements.ts), its write guard *)
(* (sql/read-only.ts), its linter (sql/linter.ts), the completion's test   *)
(* of where the caret is (sql/completion.ts), and the backend's splitter   *)
(* and words (db/query.rs).  What the user runs, is warned of and is kept  *)
(* from doing depends on their agreeing.                                   *)
(*                                                                         *)
(* The document is a sequence of characters, of which "sq", "dq" and "bq"  *)
(* are the quotes, "bs" is the backslash, "nl" and "cr" end lines, "1" is  *)
(* a digit, and "w" and "h" are letters; the words <<"w">> and <<"h">>     *)
(* stand for DELETE and WHERE.  A position is counted from 1, a caret is   *)
(* the number of characters before it.  A scanner moves from element to    *)
(* element: a quoted or commented region, a word, or one character.        *)
(***************************************************************************)
EXTENDS Integers, Sequences, SequencesExt, FiniteSetsExt

CONSTANTS Alphabets,   (* sets of character sequences the user may type    *)
          MaxScanChars, (* MAX_SCAN_CHARS: what completion reads on a side *)
          MaxDoc       (* bound of the document's length                   *)

ASSUME DocAssumption == MaxDoc \in Nat /\ MaxScanChars \in Nat \ {0}

VARIABLES alphabet, doc

docVars == <<alphabet, doc>>

Letters == {"w", "h"}
Blanks == {" ", "nl"}
WriteWord == <<"w">>
WhereWord == <<"h">>

-----------------------------------------------------------------------------
(* The scanners, by what they differ in.                                     *)

Delimiters ==
    [quotes |-> {"sq", "dq"}, backslash |-> FALSE, bracket |-> FALSE,
     lineEnds |-> {"nl"}, dollars |-> "named", inWord |-> {}]

WriteGuardWords ==
    [Delimiters EXCEPT !.quotes = {"sq", "dq", "bq"}, !.backslash = TRUE,
                       !.inWord = Letters \cup {"1", "$"}]

LinterScan ==
    [Delimiters EXCEPT !.backslash = TRUE, !.inWord = Letters \cup {"1", "$"}]

BlockedRegions ==
    [Delimiters EXCEPT !.quotes = {"sq", "dq", "bq"}, !.bracket = TRUE,
                       !.dollars = "none"]

\* A dollar quote without an end is not one, and its tag may begin with a digit.
BackendSplit == [Delimiters EXCEPT !.dollars = "closed"]

BackendWords ==
    [Delimiters EXCEPT !.quotes = {"sq", "dq", "bq"}, !.lineEnds = {"nl", "cr"},
                       !.dollars = "any", !.inWord = Letters \cup {"1"}]

-----------------------------------------------------------------------------
Occurs(s, mark, i) == IsPrefix(mark, SubSeq(s, i, Len(s)))

\* The last position of the first `mark` from i on; beyond the text without one.
EndOfFirst(s, mark, i) ==
    LET at == {j \in i .. Len(s) : Occurs(s, mark, j)}
    IN  IF at = {} THEN Len(s) + 1 ELSE Min(at) + Len(mark) - 1

\* The quote that closes one opened before i: not doubled, and not escaped.
EndOfQuoted(s, quote, backslash, i) ==
    LET end[j \in Nat] ==
            IF j > Len(s) THEN Len(s) + 1
            ELSE IF backslash /\ s[j] = "bs" /\ j < Len(s) THEN end[j + 2]
            ELSE IF Occurs(s, <<quote, quote>>, j) THEN end[j + 2]
            ELSE IF s[j] = quote THEN j ELSE end[j + 1]
    IN  end[i]

EndOfLine(s, lineEnds, i) ==
    Min({j \in i .. Len(s) : s[j] \in lineEnds} \cup {Len(s)})

\* The first position from i on whose character is not one of `chars`.
EndOfRun(s, chars, i) ==
    Min({j \in i .. Len(s) : s[j] \notin chars} \cup {Len(s) + 1})

\* The position of the dollar that ends the tag that begins at i; 0 without one.
TagEnd(s, scanner, i) ==
    LET j == EndOfRun(s, Letters \cup {"1"}, i + 1)
    IN  IF /\ s[i] = "$" /\ scanner.dollars # "none"
           /\ j <= Len(s) /\ s[j] = "$"
           /\ scanner.dollars = "named" => s[i + 1] # "1"
        THEN j ELSE 0

EndOfTagged(s, scanner, i, tag) ==
    LET end == EndOfFirst(s, SubSeq(s, i, tag), tag + 1)
    IN  IF scanner.dollars = "closed" /\ end > Len(s) THEN i ELSE end

EndOfDollarQuoted(s, scanner, i) == EndOfTagged(s, scanner, i, TagEnd(s, scanner, i))

\* The last position of the element that begins at i; beyond the text if it is
\* a region that is never closed.
ElementEnd(s, scanner, i) ==
    CASE s[i] \in scanner.quotes ->
             EndOfQuoted(s, s[i], scanner.backslash /\ s[i] = "sq", i + 1)
      [] Occurs(s, <<"-", "-">>, i) -> EndOfLine(s, scanner.lineEnds, i + 2)
      [] Occurs(s, <<"/", "*">>, i) -> EndOfFirst(s, <<"*", "/">>, i + 2)
      [] TagEnd(s, scanner, i) # 0 -> EndOfDollarQuoted(s, scanner, i)
      [] scanner.bracket /\ s[i] = "[" -> EndOfFirst(s, <<"]">>, i + 1)
      [] s[i] \in Letters /\ scanner.inWord # {} -> EndOfRun(s, scanner.inWord, i) - 1
      [] OTHER -> i

\* Where the scanner is, having read the text: the elements it has passed.
Starts(s, scanner) ==
    LET from[i \in Nat] ==
            IF i > Len(s) THEN {i}
            ELSE {i} \cup from[ElementEnd(s, scanner, i) + 1]
    IN  from[1]

\* Does the text end outside every region?
Closed(s, scanner) == Len(s) + 1 \in Starts(s, scanner)

Boundaries(s, scanner) ==
    {i \in Starts(s, scanner) : i <= Len(s) /\ s[i] = ";"}

-----------------------------------------------------------------------------
(* Statements and words, as ranges <<first, last>>.                          *)

Slice(s, range) == SubSeq(s, range[1], range[2])

\* The range without the blanks at its ends; of length 0 if it has nothing else.
Trim(s, first, last) ==
    LET shown == {i \in first .. last : s[i] \notin Blanks}
    IN  IF shown = {} THEN <<1, 0>> ELSE <<Min(shown), Max(shown)>>

Nothing == <<1, 0>>

\* The trimmed pieces between two boundaries, with the one that ends them or
\* without it.
Pieces(s, cuts, keep) ==
    LET First(cut) == Max({c + 1 : c \in {d \in cuts : d < cut}} \cup {1})
    IN  ({Trim(s, First(cut), IF keep THEN cut ELSE cut - 1) : cut \in cuts}
          \cup {Trim(s, First(Len(s) + 1), Len(s))}) \ {Nothing}

Statements(s, scanner) == Pieces(s, Boundaries(s, scanner), FALSE)

Words(s, scanner) ==
    {<<i, ElementEnd(s, scanner, i)>> :
        i \in {j \in Starts(s, scanner) : j <= Len(s) /\ s[j] \in Letters}}

\* split into statements by one scanner, and each read for words by another
MayWrite(s, splitter, reader) ==
    \E range \in Statements(s, splitter) :
        LET statement == Slice(s, range)
        IN  \E word \in Words(statement, reader) : Slice(statement, word) = WriteWord

sqlMayWrite(s) == MayWrite(s, Delimiters, WriteGuardWords)
sql_may_write(s) == MayWrite(s, BackendSplit, BackendWords)

-----------------------------------------------------------------------------
(* The statement the caret is in.                                            *)

\* The last position in `cuts` before the caret, 0 without one; the first one
\* at it or after it, or the end.
CutBefore(cuts, caret) == Max({c \in cuts : c <= caret} \cup {0})
CutAfter(cuts, caret, end) == Min({c \in cuts : c > caret} \cup {end})

\* What a version that falls back to the whole buffer would run.
CurrentStatementOrAll(s, caret) ==
    LET cuts == Boundaries(s, Delimiters)
        here == Trim(s, CutBefore(cuts, caret) + 1, CutAfter(cuts, caret, Len(s)))
    IN  IF here # Nothing THEN here ELSE Trim(s, 1, Len(s))

\* Where nothing is selected: the statement of the caret with its delimiter or, in
\* the blank space after the last one, the nearest that has any text.
CurrentStatement(s, caret) ==
    LET cuts == Boundaries(s, Delimiters)
        here == Trim(s, CutBefore(cuts, caret) + 1, CutAfter(cuts, caret, Len(s)))
        PieceOf(cut) == Trim(s, CutBefore(cuts, cut - 1) + 1, cut - 1)
        ended == {c \in cuts : c <= caret /\ PieceOf(c) # Nothing}
    IN  IF here # Nothing THEN here
        ELSE IF ended = {} THEN Nothing
        ELSE Trim(s, CutBefore(cuts, Max(ended) - 1) + 1, Max(ended))

selectedOrCurrentStatement(s, from, to) ==
    IF Trim(s, from + 1, to) # Nothing THEN Trim(s, from + 1, to)
    ELSE CurrentStatement(s, from)

\* Completion sees of the document what is around the caret: a text that may begin
\* anywhere, in a string as well.
ScanStart(caret) == IF caret > MaxScanChars THEN caret - MaxScanChars ELSE 0
Scanned(s, caret) == SubSeq(s, ScanStart(caret) + 1, Min({Len(s), caret + MaxScanChars}))

\* The statement in which completion looks for names, in what it sees.
CurrentStatementRange(s, caret) ==
    LET cuts == Boundaries(s, Delimiters)
    IN  <<CutBefore(cuts, caret) + 1, CutAfter(cuts, caret, Len(s) + 1) - 1>>

\* Nothing is suggested inside a string, a quoted name or a comment.
InsideBlockedRegion(s, caret) ==
    LET text == Scanned(s, caret)
        pos  == caret - ScanStart(caret)
        before == SubSeq(text, CurrentStatementRange(text, pos)[1], pos)
    IN  \/ ~Closed(before, BlockedRegions)
        \/ \E i \in Starts(before, BlockedRegions) :
               /\ Occurs(before, <<"-", "-">>, i)
               /\ \A j \in i .. Len(before) : before[j] # "nl"

-----------------------------------------------------------------------------
(* The linter.  Its depth of parentheses is never reset between statements,  *)
(* and one that closes nothing leaves it at 0.                               *)

Depth(s) ==
    LET starts == Starts(s, LinterScan)
        depth[i \in 0 .. Len(s)] ==
            IF i = 0 THEN 0
            ELSE IF i \in starts /\ s[i] = "(" THEN depth[i - 1] + 1
            ELSE IF i \in starts /\ s[i] = ")" /\ depth[i - 1] > 0 THEN depth[i - 1] - 1
            ELSE depth[i - 1]
    IN  depth

LinterStatements(s) == Pieces(s, Boundaries(s, LinterScan), TRUE)

\* Where the linter marks an error of form.
FormErrors(s) ==
    LET starts == {i \in Starts(s, LinterScan) : i <= Len(s)}
    IN  {i \in starts : \/ s[i] = ")" /\ Depth(s)[i - 1] = 0
                        \/ s[i] = "(" /\ \A j \in i .. Len(s) : Depth(s)[j] >= Depth(s)[i]
                        \/ ElementEnd(s, LinterScan, i) > Len(s)}

\* The statements it warns of: a DELETE first, and no WHERE outside parentheses.
RiskyStatements(s) ==
    {range \in LinterStatements(s) :
        LET words == {w \in Words(s, LinterScan) : range[1] <= w[1] /\ w[2] <= range[2]}
        IN  /\ \E w \in words : /\ Slice(s, w) = WriteWord
                                /\ \A v \in words : w[1] <= v[1]
            /\ \A w \in words : Slice(s, w) = WhereWord => Depth(s)[w[1]] # 0}

-----------------------------------------------------------------------------
DocInit == alphabet \in Alphabets /\ doc = << >>

\* The user types; SqlEditor's linter and completion, and the run actions, read
\* the document as it is then.
TypeText ==
    \E typed \in alphabet :
        /\ Len(doc) + Len(typed) <= MaxDoc
        /\ doc' = doc \o typed
        /\ UNCHANGED alphabet

DocNext == TypeText
DocSpec == DocInit /\ [][DocNext]_docVars

-----------------------------------------------------------------------------
(* Properties of every document.  Where the scanners differ on purpose or by *)
(* oversight, the parts below say what the document must not have.           *)

Has(s, char) == \E i \in 1 .. Len(s) : s[i] = char
Pair(s, first, second) ==
    \E i \in 1 .. Len(s) - 1 : s[i] \in first /\ s[i + 1] \in second

\* The words of the two sides end alike, and so do their regions.
SameWords(s) ==
    /\ ~Has(s, "bs") /\ ~Has(s, "cr") /\ ~Pair(s, Letters \cup {"1"}, {"$"})

SameTags(s) == Closed(s, Delimiters) /\ ~Pair(s, {"$"}, {"1"})

WithoutCut(s, scanner, range) ==
    IF range[2] \in Boundaries(s, scanner) THEN Trim(s, range[1], range[2] - 1) ELSE range

\* What the backend runs one by one is what the editor shows as statements, if
\* every dollar quote is closed and none has a digit first.
SplitsAgree ==
    SameTags(doc) => Statements(doc, Delimiters) = Statements(doc, BackendSplit)

\* The linter warns of the statements that the editor would run, if no string
\* has a backslash and no word a dollar.
LinterSplitsAlike ==
    SameWords(doc) =>
        {WithoutCut(doc, LinterScan, r) : r \in LinterStatements(doc)} \ {Nothing}
          = Statements(doc, Delimiters)

\* The window's guard of a read-only connection and the backend's agree.
GuardsAgree ==
    SameWords(doc) /\ SameTags(doc) => (sqlMayWrite(doc) <=> sql_may_write(doc))

\* The caret stands right before a delimiter, or between two, with no text in between:
\* the delimiter itself is run then, and no statement.
BeforeBareCut(s, caret) ==
    LET cuts == Boundaries(s, Delimiters)
        end  == CutAfter(cuts, caret, Len(s) + 1)
    IN  end <= Len(s) /\ Trim(s, CutBefore(cuts, caret) + 1, end - 1) = Nothing

\* Anywhere else the caret runs one statement of the document, the one it is in or
\* else the nearest before it, and nothing only where none begins before it; and never,
\* at a bare delimiter either, is it a text in which the backend finds two.
CaretRunsOneStatement ==
    LET statements == Statements(doc, Delimiters)
        comparable == SameTags(doc)
    IN  \A caret \in 0 .. Len(doc) :
            LET range == selectedOrCurrentStatement(doc, caret, caret)
                bare  == WithoutCut(doc, Delimiters, range)
                begun == {st \in statements : st[1] <= caret}
            IN  /\ ~BeforeBareCut(doc, caret) /\ range # Nothing =>
                      /\ bare \in statements
                      /\ \A st \in begun : st[1] <= bare[1]
                      /\ \A cut \in Boundaries(doc, Delimiters) :
                             ~(caret < cut /\ cut < bare[1])
                /\ range = Nothing => begun = {}
                /\ comparable =>
                      Cardinality(Statements(Slice(doc, range), BackendSplit)) <= 1

\* The linter warns of a statement among others as it warns of it alone, as long
\* as the parentheses of each are balanced: its depth runs through all of them.
WarningsAreLocal ==
    FormErrors(doc) = {} /\ (\A r \in LinterStatements(doc) : FormErrors(Slice(doc, r)) = {})
      => RiskyStatements(doc) =
            {r \in LinterStatements(doc) : RiskyStatements(Slice(doc, r)) # {}}

\* Where what completion sees begins outside every region, it is silent only inside
\* one, and it is silent there, but between two characters that belong together.
SilentWhereQuoted ==
    (\A i \in 1 .. Len(doc) : doc[i] \notin {"$", "bq"}) =>
        \A caret \in 0 .. Len(doc) - 1 :
            LET starts  == Starts(doc, Delimiters)
                outside == caret + 1 \in starts
                between == SubSeq(doc, caret, caret + 1)
                marks   == {<<"-", "-">>, <<"/", "*">>, <<"sq", "sq">>, <<"dq", "dq">>}
            IN  ScanStart(caret) + 1 \in starts =>
                  /\ outside => ~InsideBlockedRegion(doc, caret)
                  /\ ~outside /\ (caret = 0 \/ between \notin marks) =>
                        InsideBlockedRegion(doc, caret)

(* The scanners cut and read every document alike, and what the caret runs   *)
(* is never more than one statement.                                         *)
TextIsReadAlike ==
    /\ SplitsAgree
    /\ LinterSplitsAlike
    /\ GuardsAgree
    /\ CaretRunsOneStatement
    /\ WarningsAreLocal
    /\ SilentWhereQuoted
=============================================================================
