-------------------------- MODULE EditorWorkspaces --------------------------
(***************************************************************************)
(* The SQL editor's tabs, one workspace per connection, and what survives  *)
(* a restart of the window (app/editor-tabs.ts and                         *)
(* app/controllers/use-editor-groups.ts of apps/desktop/src).              *)
(*                                                                         *)
(* A workspace holds a primary and a secondary group of tabs.  Every       *)
(* operation the window offers works on the primary group.  Tab labels and *)
(* selections are left out; a tab is its id and its text.                  *)
(***************************************************************************)
EXTENDS Naturals, FiniteSets, SequencesExt

CONSTANTS Profiles,     \* connection ids
          Unconnected,  \* the workspace key while no connection is active
          SqlTabs,      \* ids of SQL tabs, in the order they are handed out
          TableTabs,    \* ids of the tabs tables open into
          NoTab,        \* activeTabId when no tab is open
          SQL,          \* texts a user types or loads
          MaxLaunches,  \* bound: how often the window is started
          MaxEdits      \* bound: how often a workspace is changed

ASSUME EditorConstants ==
    /\ Unconnected \notin Profiles
    /\ SqlTabs \in Seq(Range(SqlTabs)) /\ IsInjective(SqlTabs)
    /\ Len(SqlTabs) >= 2   \* the first-run tabs need two
    /\ NoTab \notin Range(SqlTabs) \cup TableTabs
    /\ Range(SqlTabs) \cap TableTabs = {}
    /\ MaxLaunches \in Nat \ {0} /\ MaxEdits \in Nat

BlankText   == "blank"  \* the empty text
Preview == "preview"    \* the SELECT a table tab is opened with
SampleSql  == "sample"  \* the query of the first-run tabs

WorkspaceIds == Profiles \cup {Unconnected}
Tabs   == Range(SqlTabs) \cup TableTabs
Texts  == SQL \cup {BlankText, Preview, SampleSql}
NoWorkspace == [absent |-> TRUE]

VARIABLES
    activeConnection,  \* the connection store's activeConnectionId
    workspaces,        \* React state: the workspaces edited since, or loaded
    blanks,            \* blankWorkspacesRef: shown, not edited yet
    seed,              \* pendingSeedRef: not adopted yet
    adopters,          \* history: the workspaces that adopted it, this launch
    timer,             \* the debounced persist is armed
    stored,            \* what localStorage holds
    storageWorks,      \* FALSE when every setItem throws (quota, privacy)
    importing,         \* the workspace an import file is being read for
    launches,
    edits

editorVars == <<activeConnection, workspaces, blanks, seed, adopters, timer,
                stored, storageWorks, importing, launches, edits>>

-----------------------------------------------------------------------------
(* One group of tabs.                                                      *)

EmptyGroup == [tabs |-> <<>>, open |-> {}, active |-> NoTab,
               text |-> [t \in Tabs \cup {NoTab} |-> BlankText]]

\* createSqlTabId: an id no tab of the group has.
NewTabId(g) == SelectInSeq(SqlTabs, LAMBDA t : ~Contains(g.tabs, t))
HasRoom(g)  == NewTabId(g) # 0

AddTab(g, t, sql) ==
    [tabs |-> Append(g.tabs, t), open |-> g.open \cup {t}, active |-> t,
     text |-> [g.text EXCEPT ![t] = sql]]

AddSqlTab(g, sql) == AddTab(g, SqlTabs[NewTabId(g)], sql)

BlankGroup == AddSqlTab(EmptyGroup, BlankText)

\* The first-run tabs: SQL in the first, the others (here one) blank.
SampleGroup(sql) ==
    [AddSqlTab(AddSqlTab(EmptyGroup, sql), BlankText) EXCEPT !.active = SqlTabs[1]]

SelectTab(g, t) == IF t \in g.open THEN [g EXCEPT !.active = t] ELSE g

ShowTableTab(g, t) ==
    IF t \in g.open THEN [g EXCEPT !.active = t]
    ELSE IF Contains(g.tabs, t)
         THEN [g EXCEPT !.open = @ \cup {t}, !.active = t, !.text[t] = Preview]
         ELSE AddTab(g, t, Preview)

\* The tab beside t among the open ones: the one after it, or the one before.
Neighbour(g, t) ==
    LET place  == CHOOSE i \in DOMAIN g.tabs : g.tabs[i] = t
        shown  == {i \in DOMAIN g.tabs : g.tabs[i] \in g.open}
        after  == {i \in shown : i > place}
        before == {i \in shown : i < place}
    IN  IF after # {} THEN g.tabs[Min(after)]
        ELSE IF before # {} THEN g.tabs[Max(before)] ELSE NoTab

CloseTab(g, t) ==
    [g EXCEPT !.open = @ \ {t},
              !.active = IF @ = t THEN Neighbour(g, t) ELSE @]

CloseOtherTabsBug(g, t) ==   \* their texts are dropped
    IF t \in g.open
    THEN [g EXCEPT !.open = {t}, !.active = t,
                   !.text = [u \in DOMAIN @ |-> IF u = t THEN @[u] ELSE BlankText]]
    ELSE g

CloseOtherTabs(g, t) ==
    IF t \in g.open THEN [g EXCEPT !.open = {t}, !.active = t] ELSE g

\* The places of the closed tabs; the first of them is reopened.
ClosedTabs(g) == {i \in DOMAIN g.tabs : g.tabs[i] \notin g.open}
ReopenTab(g) ==
    LET t == g.tabs[Min(ClosedTabs(g))]
    IN  [g EXCEPT !.open = @ \cup {t}, !.active = t]

SetTextBug(g, sql) ==   \* written under the active id, whatever it is
    [g EXCEPT !.text[g.active] = sql]

\* setEditorGroupQuery: a group with no open tab gets one to hold the text.
SetText(g, sql) ==
    IF g.active = NoTab THEN AddSqlTab(g, sql)
    ELSE [g EXCEPT !.text[g.active] = sql]

ReviveGroupBug(g) ==   \* the first tab is active and all are open
    [g EXCEPT !.open = Range(g.tabs), !.active = Head(g.tabs)]

\* A group read back from storage: tabs that do not exist are dropped, and the
\* active tab is one that is open.
ReviveGroup(g) ==
    LET open == g.open \cap Range(g.tabs)
    IN  [g EXCEPT !.open = open,
                  !.active = IF @ \in open THEN @
                             ELSE IF open = {} THEN NoTab
                             ELSE CHOOSE t \in open : TRUE]

-----------------------------------------------------------------------------
(* Workspaces.                                                             *)

BlankWorkspace == [primary |-> BlankGroup, secondary |-> BlankGroup]
FirstRun == [primary |-> SampleGroup(SampleSql), secondary |-> SampleGroup(BlankText)]

HoldsNothing(g) == g.open = {} /\ \A t \in Tabs : g.text[t] = BlankText
IsBlankWorkspace(w) == HoldsNothing(w.primary) /\ HoldsNothing(w.secondary)

Revive(w) ==
    IF w = NoWorkspace \/ w.primary.tabs = <<>> THEN NoWorkspace
    ELSE [primary   |-> ReviveGroup(w.primary),
          secondary |-> IF w.secondary.tabs = <<>> THEN BlankGroup
                        ELSE ReviveGroup(w.secondary)]

LoadWorkspaces(map) ==
    [c \in WorkspaceIds |->
        LET w == Revive(map[c])
        IN  IF w # NoWorkspace /\ IsBlankWorkspace(w) THEN NoWorkspace ELSE w]

\* workspaceStates: the edited workspace, else the blank one shown before,
\* else the pending seed, else a new blank one.
States(all, cached, pending, c) ==
    IF all[c] # NoWorkspace THEN all[c]
    ELSE IF cached[c] # NoWorkspace THEN cached[c]
    ELSE IF pending # NoWorkspace THEN pending ELSE BlankWorkspace

Adopts(all, cached, c) == all[c] = NoWorkspace /\ cached[c] = NoWorkspace

\* Rendering the workspace of c, given the edited workspaces: what it hands out
\* is remembered, and the seed is gone once one workspace was created.
Shows(c, all, cached, pending, took) ==
    IF Adopts(all, cached, c)
    THEN /\ blanks' = [cached EXCEPT ![c] = States(all, cached, pending, c)]
         /\ seed' = NoWorkspace
         /\ adopters' = IF pending # NoWorkspace THEN took \cup {c} ELSE took
    ELSE blanks' = cached /\ seed' = pending /\ adopters' = took

Group(c) == States(workspaces, blanks, seed, c).primary
Shown    == Group(activeConnection)

-----------------------------------------------------------------------------
\* A workspace of a launch: nothing edited, and the first-run tabs pending.
Launched(c, map) ==
    /\ activeConnection' = c
    /\ workspaces' = map
    /\ timer' = TRUE
    /\ Shows(c, map, [d \in WorkspaceIds |-> NoWorkspace], FirstRun, {})

EditorInit ==
    /\ activeConnection = Unconnected
    /\ workspaces = [c \in WorkspaceIds |-> NoWorkspace]
    /\ blanks = [c \in WorkspaceIds |->
                    IF c = Unconnected THEN FirstRun ELSE NoWorkspace]
    /\ seed = NoWorkspace /\ adopters = {Unconnected}
    /\ timer = TRUE
    /\ stored = [c \in WorkspaceIds |-> NoWorkspace]
    /\ storageWorks \in BOOLEAN
    /\ importing = NoTab
    /\ launches = 1 /\ edits = 0

PutBug(c, g) ==   \* the timer is not started again
    /\ edits < MaxEdits /\ edits' = edits + 1
    /\ workspaces' = [workspaces EXCEPT ![c] =
                        [States(workspaces, blanks, seed, c) EXCEPT !.primary = g]]
    /\ timer' = timer

\* updateEditorGroupState: the primary group of c becomes g; the timer restarts.
Put(c, g) ==
    /\ edits < MaxEdits /\ edits' = edits + 1
    /\ workspaces' = [workspaces EXCEPT ![c] =
                        [States(workspaces, blanks, seed, c) EXCEPT !.primary = g]]
    /\ timer' = TRUE

Update(g) ==
    /\ Put(activeConnection, g)
    /\ UNCHANGED <<activeConnection, blanks, seed, adopters, stored,
                   storageWorks, importing, launches>>

CanHold(g) == g.active # NoTab \/ HasRoom(g)   \* bound: as many tabs as SqlTabs

SetQuery(sql)      == CanHold(Shown) /\ Update(SetText(Shown, sql))
NewTab(sql)        == HasRoom(Shown) /\ Update(AddSqlTab(Shown, sql))
Select(t)          == Contains(Shown.tabs, t) /\ Update(SelectTab(Shown, t))
OpenTable(t)       == Update(ShowTableTab(Shown, t))
Close(t)           == t \in Shown.open /\ Update(CloseTab(Shown, t))
CloseOthers(t)     == Contains(Shown.tabs, t) /\ Update(CloseOtherTabs(Shown, t))
Reopen             == ClosedTabs(Shown) # {} /\ Update(ReopenTab(Shown))
ReplaceIn(t, sql)  == t \in Shown.open /\ Update([Shown EXCEPT !.text[t] = sql])
Duplicate(t) ==
    /\ Contains(Shown.tabs, t) /\ HasRoom(Shown)
    /\ Update(AddSqlTab(Shown, Shown.text[t]))

SwitchConnection(c) ==
    /\ c # activeConnection
    /\ activeConnection' = c
    /\ Shows(c, workspaces, blanks, seed, adopters)
    /\ UNCHANGED <<workspaces, timer, stored, storageWorks, importing, launches,
                   edits>>

\* loadHistoryItem: the connection of the item is made active, and its SQL is
\* set by the setQuery of the render before, which writes to the workspace that
\* was on screen then.
LoadHistoryItem(c, sql) ==
    /\ CanHold(Shown)
    /\ Put(activeConnection, SetText(Shown, sql))
    /\ activeConnection' = c
    /\ Shows(c, workspaces', blanks, seed, adopters)
    /\ UNCHANGED <<stored, storageWorks, importing, launches>>

\* handleImportFile: the text is awaited, and set by the closure it began with.
PickFile ==
    /\ importing = NoTab
    /\ importing' = activeConnection
    /\ UNCHANGED <<activeConnection, workspaces, blanks, seed, adopters, timer,
                   stored, storageWorks, launches, edits>>

FileRead(sql) ==
    /\ importing # NoTab /\ CanHold(Group(importing))
    /\ Put(importing, SetText(Group(importing), sql))
    /\ importing' = NoTab
    /\ UNCHANGED <<activeConnection, blanks, seed, adopters, stored,
                   storageWorks, launches>>

\* The timer, 400 ms after the last change.
Persist ==
    /\ timer
    /\ timer' = FALSE
    /\ stored' = IF storageWorks THEN workspaces ELSE stored
    /\ UNCHANGED <<activeConnection, workspaces, blanks, seed, adopters,
                   storageWorks, importing, launches, edits>>

\* exitApplication flushes first; a crash does not.  The next launch reads what
\* is stored, and offers the first-run tabs again.
Relaunch(c, map) ==
    /\ launches < MaxLaunches
    /\ launches' = launches + 1
    /\ stored' = map
    /\ importing' = NoTab
    /\ Launched(c, LoadWorkspaces(map))
    /\ UNCHANGED <<storageWorks, edits>>

Exit(c)  == Relaunch(c, IF storageWorks THEN workspaces ELSE stored)
Crash(c) == Relaunch(c, stored)

EditorNext ==
    \/ \E sql \in SQL : SetQuery(sql) \/ NewTab(sql) \/ FileRead(sql)
    \/ NewTab(BlankText) \/ Reopen \/ PickFile \/ Persist
    \/ \E t \in Tabs :
        Select(t) \/ Close(t) \/ CloseOthers(t) \/ Duplicate(t)
    \/ \E t \in TableTabs : OpenTable(t)
    \/ \E t \in Tabs, sql \in SQL : ReplaceIn(t, sql)
    \/ \E c \in WorkspaceIds : SwitchConnection(c) \/ Exit(c) \/ Crash(c)
    \/ \E c \in Profiles, sql \in SQL : LoadHistoryItem(c, sql)

EditorSpec == EditorInit /\ [][EditorNext]_editorVars

-----------------------------------------------------------------------------
(* Correctness.                                                            *)

IsGroup(g) ==
    /\ DOMAIN g = {"tabs", "open", "active", "text"}
    /\ Range(g.tabs) \subseteq Tabs /\ IsInjective(g.tabs) /\ g.tabs # <<>>
    /\ g.text \in [Tabs \cup {NoTab} -> Texts]

Kept == {workspaces[c] : c \in WorkspaceIds} \cup {blanks[c] : c \in WorkspaceIds}
        \cup {stored[c] : c \in WorkspaceIds} \cup {seed}
Groups == {w.primary : w \in Kept \ {NoWorkspace}} \cup {w.secondary : w \in Kept \ {NoWorkspace}}

\* Every variable keeps its type.
EditorTypeOK ==
    /\ activeConnection \in WorkspaceIds
    /\ \A g \in Groups : IsGroup(g)
    /\ adopters \subseteq WorkspaceIds
    /\ timer \in BOOLEAN /\ storageWorks \in BOOLEAN
    /\ importing \in WorkspaceIds \cup {NoTab}
    /\ launches \in 1..MaxLaunches /\ edits \in 0..MaxEdits

\* Whatever is closed, reopened, selected, loaded or read back: the tab a group
\* shows is one of its open tabs, and it shows none only when none is open
\* (reviveEditorGroupState and the close and reopen of editor-tabs.ts).
AnOpenTabIsActive ==
    \A g \in Groups :
        /\ g.open \subseteq Range(g.tabs)
        /\ g.active \in g.open \/ (g.active = NoTab /\ g.open = {})

\* No text is kept under an id that is no tab of its group, where nothing would
\* ever show it (the comment in setEditorGroupQuery).
NoSqlIsParked ==
    \A g \in Groups : \A t \in DOMAIN g.text :
        ~Contains(g.tabs, t) => g.text[t] = BlankText

\* Within one launch a single workspace takes the first-run tabs (the comment
\* on pendingSeedRef).
SeedIsTakenOnce == Cardinality(adopters) <= 1

\* The editor's state makes sense in every workspace, on screen or stored: types,
\* the tab shown, no hidden text, the seed taken once.
EditorIsSound ==
    EditorTypeOK /\ AnOpenTabIsActive /\ NoSqlIsParked /\ SeedIsTakenOnce

\* With a storage that works, a crash while no save is pending loses nothing: what
\* the next launch reads back is what is on screen, closed tabs and late imports
\* included.  Nothing bounds the time a save may be pending: the debounce is armed
\* again at each change, so a user who never pauses for 400 ms is never saved.
SavedWhenIdle == storageWorks /\ ~timer => LoadWorkspaces(stored) = workspaces

\* Leaving the application and starting it again gives every workspace back
\* as it was, closed tabs and their text included.
ExitKeepsEveryWorkspace ==
    [][launches' # launches /\ storageWorks /\ (\E c \in WorkspaceIds : Exit(c))
          => workspaces' = workspaces]_editorVars

\* The text of a tab that is not the active one of its workspace changes only
\* when a search replaces in it, or when the table of a closed tab is opened.
BackgroundTextIsKept ==
    [][launches' = launches /\ <<workspaces, blanks, seed>>' # <<workspaces, blanks, seed>> =>
        \A c \in WorkspaceIds : \A t \in Range(Group(c).tabs) :
            Group(c)'.text[t] # Group(c).text[t] =>
                \/ t = Group(c).active
                \/ t \in TableTabs \ Group(c).open /\ Group(c)'.active = t
                \/ c = activeConnection /\ \E sql \in SQL : ReplaceIn(t, sql)
      ]_editorVars
=============================================================================
