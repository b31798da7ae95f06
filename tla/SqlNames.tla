------------------------------ MODULE SqlNames ------------------------------
(***************************************************************************)
(* What the names in a SQL statement stand for, as two readers of the      *)
(* editor see it: completion (sql/completion.ts), which suggests relations,*)
(* joins and columns, and the hover card (sql/metadata-inspection.ts),     *)
(* which shows what the name under the pointer is.  Each has its own way   *)
(* of finding the relations of a statement and their aliases.              *)
(*                                                                         *)
(* A statement is its sequence of tokens (SqlText has the characters): a   *)
(* word or one of the four marks; other signs make no token.  The metadata *)
(* is a sequence of relations; a result that may be missing is a set of at *)
(* most one.  Completion is asked for with no prefix, so that it filters   *)
(* nothing; keywords, snippets and ranks are left out.                     *)
(***************************************************************************)
EXTENDS Integers, Sequences, SequencesExt, FiniteSets, FiniteSetsExt, TLC

CONSTANTS Relations,   (* <<[schema, name, columns, foreignKeys], ...>>     *)
          AliasSeeds,  (* for each name, what proposedAlias tries           *)
          Phrases,     (* sequences of tokens the user may type             *)
          MaxPhrases   (* bound of how many                                 *)

ASSUME CatalogAssumption == Relations # << >> /\ MaxPhrases \in Nat

VARIABLES tokens, phrases

nameVars == <<tokens, phrases>>

Marks == {".", ",", "(", ")"}
NoToken == "none"

Token(ts, i) == IF i \in DOMAIN ts THEN ts[i] ELSE NoToken
IsWord(ts, i) == i \in DOMAIN ts /\ ts[i] \notin Marks

Only(set) == IF Cardinality(set) = 1 THEN set ELSE {}
Named(name) == {r \in ToSet(Relations) : r.name = name}
Qualified(schema, name) == {r \in Named(name) : r.schema = schema}
SchemaNames == {r.schema : r \in ToSet(Relations)}
DefaultSchema == Relations[1].schema

\* How many times ". word" follows the word at i.
DotsAfter(ts, i) ==
    Max({n \in 0 .. Len(ts) :
            \A k \in 1 .. n : Token(ts, i + 2 * k - 1) = "." /\ IsWord(ts, i + 2 * k)})

DotsBefore(ts, i) ==
    Max({n \in 0 .. Len(ts) :
            \A k \in 1 .. n : Token(ts, i - 2 * k + 1) = "." /\ IsWord(ts, i - 2 * k)})

\* The words of the n + 1 parts from i on.
Parts(ts, i, n) == [k \in 1 .. n + 1 |-> ts[i + 2 * k - 2]]

-----------------------------------------------------------------------------
(* Completion: the relations of a statement.                                 *)

RELATION_START_KEYWORDS == {"from", "join", "update", "into", "table"}
COLUMN_CLAUSE_KEYWORDS == {"select", "where", "on"}
CLAUSE_KEYWORDS == {"select", "from", "join", "where", "update", "into", "on"}
RESERVED_ALIAS_WORDS == CLAUSE_KEYWORDS \cup {"as", "and", "lateral", "with"}

findObject(parts) ==
    LET last == Len(parts)
        named == Named(parts[last])
        inDefault == {r \in named : r.schema = DefaultSchema}
    IN  IF last >= 2 THEN Qualified(parts[last - 1], parts[last])
        ELSE IF inDefault # {} THEN inDefault ELSE Only(named)

IsAlias(ts, i) == IsWord(ts, i) /\ ts[i] \notin RESERVED_ALIAS_WORDS

readQualifiedName(ts, i) ==
    LET dots == DotsAfter(ts, i)
    IN  [parts |-> Parts(ts, i, dots), next |-> i + 2 * dots + 1]

\* A relation whose name ends before `next`, with the alias there, if there is one.
withAlias(ts, next, entry) ==
    LET alias == IF Token(ts, next) = "as" THEN next + 1 ELSE next
    IN  IF IsAlias(ts, alias)
        THEN [ref |-> [alias |-> ts[alias], explicit |-> TRUE, entry |-> entry],
              next |-> alias + 1]
        ELSE [ref |-> [alias |-> entry.name, explicit |-> FALSE, entry |-> entry],
              next |-> next]

relationNamed(ts, name) ==
    {withAlias(ts, name.next, r) : r \in findObject(name.parts)}

\* The relation at `start`, and the token after it and its alias.
parseRelationAt(ts, start) ==
    LET i == Min({j \in start .. Len(ts) + 1 : Token(ts, j) # "lateral"} \cup {Len(ts) + 1})
    IN  IF IsWord(ts, i) THEN relationNamed(ts, readQualifiedName(ts, i)) ELSE {}

resolveRelationRefs(ts) ==
    LET refs[i \in Nat, inFromList \in BOOLEAN] ==
            IF i > Len(ts) THEN << >>
            ELSE LET inList ==
                         IF ts[i] \in CLAUSE_KEYWORDS THEN ts[i] = "from" ELSE inFromList
                     parsed ==
                         IF \/ ts[i] = "," /\ inFromList
                            \/ ts[i] \in {"from", "join", "update", "into"}
                         THEN parseRelationAt(ts, i + 1) ELSE {}
                 IN  IF parsed = {} THEN refs[i + 1, inList]
                     ELSE LET found == CHOOSE p \in parsed : TRUE
                          IN  <<found.ref>> \o refs[found.next, inList]
    IN  refs[1, FALSE]

uniqueRelationRefs(refs) ==
    LET first == {i \in DOMAIN refs :
                    \A j \in 1 .. i - 1 : \/ refs[j].alias # refs[i].alias
                                          \/ refs[j].entry # refs[i].entry}
        at == SetToSortSeq(first, LAMBDA a, b : a < b)
    IN  [k \in DOMAIN at |-> refs[at[k]]]

-----------------------------------------------------------------------------
(* Completion: what is suggested with the caret behind token `caret`.        *)

\* The names before a dot at the caret.
QualificationBefore(ts, caret) ==
    IF Token(ts, caret) = "." /\ IsWord(ts, caret - 1)
    THEN LET dots == DotsBefore(ts, caret - 1)
         IN  Parts(ts, caret - 1 - 2 * dots, dots)
    ELSE << >>

LastWordIn(ts, caret, words) ==
    LET at == {i \in 1 .. caret : ts[i] \in words}
    IN  IF at = {} THEN NoToken ELSE ts[Max(at)]

LastWord(ts, caret) == LastWordIn(ts, caret, ToSet(ts) \ Marks)

classifyCompletion(ts, caret) ==
    LET clause == LastWordIn(ts, caret, CLAUSE_KEYWORDS)
    IN  CASE QualificationBefore(ts, caret) # << >> -> "qualified"
          [] QualificationBefore(ts, caret) = << >>
             /\ \/ LastWord(ts, caret) \in RELATION_START_KEYWORDS
                \/ Token(ts, caret) = "," /\ clause \in {"from", "join"} -> "relations"
          [] OTHER ->
             IF resolveRelationRefs(ts) # << >> \/ clause \in COLUMN_CLAUSE_KEYWORDS
             THEN "columns" ELSE "general"

\* The relation whose columns are suggested behind "qualifier."; none where the
\* qualifier is a schema, whose relations are.
addQualifiedCandidates(ts, caret) ==
    LET qualification == QualificationBefore(ts, caret)
        refs == resolveRelationRefs(ts)
        aliased == {i \in DOMAIN refs : refs[i].alias = qualification[1]}
    IN  IF Len(qualification) > 1 THEN findObject(qualification)
        ELSE IF aliased # {} THEN {refs[Min(aliased)].entry}
        ELSE IF qualification[1] \in SchemaNames THEN {}
        ELSE findObject(qualification)

\* Mutated: a name that several schemas have is taken for a plain one.
QualifiesOtherSchemas(entry) == entry.schema # DefaultSchema

shouldQualifyRelationName(entry) ==
    Cardinality(Named(entry.name)) > 1 \/ entry.schema # DefaultSchema

RelationInsert(entry) ==
    IF shouldQualifyRelationName(entry) THEN <<entry.schema, ".", entry.name>>
    ELSE <<entry.name>>

\* Columns in scope: what is inserted, and the column it is meant to be.  (Where
\* no relation is read, the columns of all of them are offered by their bare names.)
addScopedColumnCandidates(ts) ==
    LET refs == uniqueRelationRefs(resolveRelationRefs(ts))
    IN  UNION {{[insert |-> IF Len(refs) > 1 \/ refs[i].explicit
                            THEN <<refs[i].alias, ".", column>> ELSE <<column>>,
                 entry |-> refs[i].entry, column |-> column] :
                    column \in refs[i].entry.columns} : i \in DOMAIN refs}

proposedAlias(name, used) ==
    LET seeds == AliasSeeds[name]
        free == {i \in DOMAIN seeds : seeds[i] \notin used \cup RESERVED_ALIAS_WORDS}
        numbers == {n \in 2 .. Cardinality(used) + 2 :
                      seeds[1] \o ToString(n) \notin used}
    IN  IF free # {} THEN seeds[Min(free)] ELSE seeds[1] \o ToString(Min(numbers))

referencesObject(key, sourceSchema, target) ==
    /\ key.table = target.name
    /\ target.schema = IF key.schema = NoToken THEN sourceSchema ELSE key.schema

\* "source.column = target.column and ...", for the columns that have one.
Condition(key, sourceAlias, targetAlias) ==
    FlattenSeq([i \in 1 .. Min({Len(key.columns), Len(key.references)}) |->
        (IF i = 1 THEN << >> ELSE <<"and">>)
          \o <<sourceAlias, ".", key.columns[i], targetAlias, ".", key.references[i]>>])

joinFromForeignKeys(source, sourceAlias, target, targetAlias) ==
    LET fitting == SelectSeq(source.foreignKeys,
            LAMBDA key : /\ referencesObject(key, source.schema, target)
                         /\ key.columns # << >> /\ key.references # << >>)
    IN  IF fitting = << >> THEN << >> ELSE Condition(Head(fitting), sourceAlias, targetAlias)

\* Along a key of the candidate or, without one, along a key to it.
joinMatch(candidate, alias, ref) ==
    LET from == joinFromForeignKeys(candidate, alias, ref.entry, ref.alias)
    IN  IF from # << >> THEN from
        ELSE joinFromForeignKeys(ref.entry, ref.alias, candidate, alias)

firstJoinMatch(candidate, alias, refs) ==
    LET matches == SelectSeq([i \in DOMAIN refs |-> joinMatch(candidate, alias, refs[i])],
                             LAMBDA match : match # << >>)
    IN  IF matches = << >> THEN << >> ELSE Head(matches)

\* The joins with relations that are not in the statement yet.
addJoinCandidates(ts) ==
    LET refs == uniqueRelationRefs(resolveRelationRefs(ts))
        unread == ToSet(Relations) \ {refs[i].entry : i \in DOMAIN refs}
        Proposed(r) == proposedAlias(r.name, {refs[i].alias : i \in DOMAIN refs})
        joins == {[entry |-> p[1], alias |-> p[2], on |-> firstJoinMatch(p[1], p[2], refs)] :
                    p \in {<<r, Proposed(r)>> : r \in unread}}
    IN  {[entry |-> j.entry, alias |-> j.alias,
          insert |-> RelationInsert(j.entry) \o <<j.alias, "on">> \o j.on] :
            j \in {k \in joins : k.on # << >>}}

-----------------------------------------------------------------------------
(* The hover card.                                                           *)

HOVER_RESERVED == RESERVED_ALIAS_WORDS \ {"into", "with"}

readRelationObject(ts, i) ==
    LET two == IF Token(ts, i + 1) = "." /\ IsWord(ts, i + 2)
               THEN Qualified(ts[i], ts[i + 2]) ELSE {}
    IN  IF ~IsWord(ts, i) THEN {}
        ELSE IF two # {} THEN {[object |-> r, next |-> i + 3] : r \in two}
        ELSE {[object |-> r, next |-> i + 1] : r \in Only(Named(ts[i]))}

\* An aliased relation can be named by its own name, too.
readAlias(ts, found) ==
    LET alias == IF Token(ts, found.next) = "as" THEN found.next + 1 ELSE found.next
    IN  IF IsWord(ts, alias) /\ ts[alias] \notin HOVER_RESERVED
        THEN [names |-> {found.object.name, ts[alias]}, object |-> found.object,
              next |-> alias + 1]
        ELSE [names |-> {found.object.name}, object |-> found.object, next |-> found.next]

relationRefs(ts) ==
    LET refs[i \in Nat] ==
            IF i > Len(ts) THEN {}
            ELSE LET read == IF ts[i] \in RELATION_START_KEYWORDS
                             THEN {readAlias(ts, f) : f \in readRelationObject(ts, i + 1)}
                             ELSE {}
                 IN  IF read = {} THEN refs[i + 1]
                     ELSE UNION {{[alias |-> name, object |-> r.object] : name \in r.names}
                                   \cup refs[r.next] : r \in read}
    IN  refs[1]

lookupRefObject(refs, alias) ==
    Only({ref.object : ref \in {r \in refs : r.alias = alias}})

Column(objects, name) ==
    {[kind |-> "column", object |-> o, column |-> name] :
        o \in {r \in objects : name \in r.columns}}

Object(objects) == {[kind |-> "object", object |-> o, column |-> NoToken] : o \in objects}

\* What the card shows for a name that the pointer is in: for its last part, or for
\* one before it.
inspectName(parts, isLast, refs) ==
    LET last == Len(parts)
        owner == IF last >= 3 THEN Qualified(parts[last - 2], parts[last - 1])
                 ELSE lookupRefObject(refs, parts[1])
    IN  IF last >= 3 \/ (last = 2 /\ owner # {})
        THEN IF isLast THEN Column(owner, parts[last]) ELSE Object(owner)
        ELSE IF last = 2
        THEN IF Qualified(parts[1], parts[2]) # {}
             THEN Object(Qualified(parts[1], parts[2]))
             ELSE Column(Only(Named(parts[1])), parts[2])
        ELSE IF owner # {} THEN Object(owner)
        ELSE IF Only(Named(parts[1])) # {} THEN Object(Named(parts[1]))
        ELSE Only(Column({ref.object : ref \in refs}, parts[1]))

\* For the word at i: at most one relation or column.
inspectSqlMetadataAt(ts, i) ==
    LET before == DotsBefore(ts, i)
        after  == DotsAfter(ts, i)
    IN  inspectName(Parts(ts, i - 2 * before, before + after), after = 0, relationRefs(ts))

-----------------------------------------------------------------------------
NameInit == tokens = << >> /\ phrases = 0

TypePhrase ==
    \E phrase \in Phrases :
        /\ phrases < MaxPhrases
        /\ tokens' = tokens \o phrase
        /\ phrases' = phrases + 1

NameNext == TypePhrase
NameSpec == NameInit /\ [][NameNext]_nameVars

-----------------------------------------------------------------------------
(* Properties: a suggestion, once accepted, means what it was suggested for, *)
(* to both readers.  `Wrong` ones are names that stand for something else;   *)
(* the hover card may stay away, as it does where a name is ambiguous to it. *)

Accept(ts, caret, insert) ==
    SubSeq(ts, 1, caret) \o insert \o SubSeq(ts, caret + 1, Len(ts))

ShowsNothingElse(ts, i, target) == inspectSqlMetadataAt(ts, i) \subseteq {target}

\* No alias is given twice, or is the name of a relation or a schema, and no two
\* relations have one name.
WellNamedRefs(refs) ==
    /\ \A i, j \in DOMAIN refs :
          /\ refs[i].alias = refs[j].alias => i = j
          /\ refs[i].entry.name = refs[j].entry.name => refs[i].entry = refs[j].entry
    /\ \A i \in DOMAIN refs : refs[i].explicit =>
           refs[i].alias \notin SchemaNames \cup {r.name : r \in ToSet(Relations)}

WellNamed(ts) == WellNamedRefs(uniqueRelationRefs(resolveRelationRefs(ts)))

\* The card knows of no relation that completion does not.
SameRelations(ts) ==
    LET refs == resolveRelationRefs(ts)
    IN  \A ref \in relationRefs(ts) : \E k \in DOMAIN refs : refs[k].entry = ref.object

\* The caret is at the end of a name or apart from one.
Free(ts, caret) == Token(ts, caret + 1) # "."

\* An accepted relation is the one both readers find, wherever it is put.
RelationsAreFound ==
    \A caret \in {c \in 1 .. Len(tokens) :
                  Free(tokens, c) /\ classifyCompletion(tokens, c) = "relations"} :
        \A r \in ToSet(Relations) :
            LET ts == Accept(tokens, caret, RelationInsert(r))
                i  == caret + Len(RelationInsert(r))
                refs == resolveRelationRefs(ts)
            IN  WellNamed(ts) =>
                  /\ inspectSqlMetadataAt(ts, i)
                        = {[kind |-> "object", object |-> r, column |-> NoToken]}
                  /\ Token(ts, caret) \in {"from", "join", "update", "into"} =>
                        \E k \in DOMAIN refs : refs[k].entry = r

Refers(r, column, s, referenced) ==
    \E key \in ToSet(r.foreignKeys) :
        /\ referencesObject(key, r.schema, s)
        /\ \E n \in DOMAIN key.columns :
              key.columns[n] = column /\ key.references[n] = referenced

\* An accepted join, right behind the keyword, adds the relation it was made for
\* under an alias of its own, and is along a foreign key; the card shows nothing
\* else for its columns.
JoinsMeanTheirColumns ==
    \A caret \in 1 .. Len(tokens) :
        Token(tokens, caret) = "join" /\ Free(tokens, caret) =>
            \A join \in addJoinCandidates(tokens) :
                LET before == resolveRelationRefs(tokens)
                    ts     == Accept(tokens, caret, join.insert)
                    refs   == resolveRelationRefs(ts)
                    first  == caret + Len(RelationInsert(join.entry)) + 5
                    Aliased(alias) == {refs[k].entry : k \in {j \in DOMAIN refs : refs[j].alias = alias}}
                    Owner(i) == Aliased(ts[i - 2])
                IN  WellNamed(tokens) /\ Len(refs) = Len(before) + 1
                      /\ ToSet(before) \subseteq ToSet(refs) =>
                      /\ Aliased(join.alias) = {join.entry}
                      /\ \A i \in {j \in first .. caret + Len(join.insert) : (j - first) % 7 = 0} :
                            /\ \E r \in Owner(i), s \in Owner(i + 3) :
                                    \/ Refers(r, ts[i], s, ts[i + 3])
                                    \/ Refers(s, ts[i + 3], r, ts[i])
                            /\ WellNamed(ts) =>
                                  \A j \in {i, i + 3} :
                                      inspectSqlMetadataAt(ts, j) \subseteq Column(Owner(j), ts[j])

\* An accepted column is that column to the hover card, and its qualifier is its
\* relation to completion.
ColumnsMeanThemselves ==
    LET refs == resolveRelationRefs(tokens)
        candidates == addScopedColumnCandidates(tokens)
    IN  WellNamedRefs(uniqueRelationRefs(refs)) =>
          \A caret \in {c \in 0 .. Len(tokens) :
                        Free(tokens, c) /\ classifyCompletion(tokens, c) = "columns"} :
            \A s \in candidates :
                LET ts == Accept(tokens, caret, s.insert)
                IN  resolveRelationRefs(ts) = refs /\ SameRelations(ts) =>
                      /\ ShowsNothingElse(ts, caret + Len(s.insert),
                            [kind |-> "column", object |-> s.entry, column |-> s.column])
                      /\ Len(s.insert) = 3 => addQualifiedCandidates(ts, caret + 2) = {s.entry}

\* Where the card shows a column behind a qualifier, completion suggests the
\* columns of the same relation there.
ReadersAgree ==
    WellNamed(tokens) =>
        \A i \in DOMAIN tokens :
            IsWord(tokens, i) /\ Token(tokens, i - 1) = "." /\ IsWord(tokens, i - 2) =>
                \A shown \in inspectSqlMetadataAt(tokens, i) :
                    shown.kind = "column" =>
                        addQualifiedCandidates(tokens, i - 1) = {shown.object}

(* What completion suggests is, once accepted, what completion and the hover
   card then take it for (completion.ts 466-1100, metadata-inspection.ts
   104-690). *)
NamesAreReadAlike ==
    RelationsAreFound /\ JoinsMeanTheirColumns /\ ColumnsMeanThemselves /\ ReadersAgree
=============================================================================
