-------------------------- MODULE WindowConnections --------------------------
(***************************************************************************)
(* The window's connections (use-connection-actions.ts,                    *)
(* use-workbench-connections.ts, connection-store.ts): the saved profiles  *)
(* and the form, the rail of open connections, and the objects shown for   *)
(* each.  Every command is answered later; meanwhile anything else may     *)
(* happen, and a handler goes on with what was rendered when it was called.*)
(*                                                                         *)
(* The backend is external: it keeps at most one connection per id, and a  *)
(* version of its schema.                                                  *)
(***************************************************************************)
EXTENDS Naturals, FiniteSets, SequencesExt, Positions

CONSTANTS MaxId,          \* bound: profiles are connection-1 .. connection-MaxId
          MaxCommands,    \* bound: commands the user gives the backend
          MaxFormSteps,   \* bound: what the user does in the form
          UsedUp          \* bound: how much of the two a history starts with

ASSUME WindowConstants ==
    /\ {MaxId, MaxCommands, MaxFormSteps} \subseteq Nat \ {0}
    /\ UsedUp \subseteq (0..MaxCommands) \X (0..MaxFormSteps)

Sample   == 0                     \* the profile of sqliteSampleProfile
Ids      == 0..MaxId
NoId     == MaxId + 1             \* no active connection
Absent   == MaxCommands + 1       \* no objects are shown

VARIABLES
    profiles,    \* saved profiles, in order: id, and whether it was filled in
    draft,       \* the form: the same, and whether it came from Add
    active,      \* activeConnectionId
    rail,        \* connectedIds
    objects,     \* metadataByConnection: the schema version shown, or Absent
    failed,      \* metadataErrors
    loadingObjects, \* metadataLoading
    connecting,  \* ids a connect waits for, and what the backend did with each
    closing,     \* disconnects waited for, with what was rendered at the call
    deleting,    \* deleteProfiles: its targets, and those still to disconnect
    refreshing,  \* refreshes waited for, and the version read
    open,        \* backend: ids with a connection
    schema,      \* backend: the version of each id's schema
    snapshot,    \* the workspace snapshot was answered
    crossed,     \* history: a disconnect or a delete crossed another command,
                 \* the manager was closed on a profile being connected, or
                 \* the sample was not seeded
    raced,       \* history: ids with two refreshes at once
    commands, formSteps

userVars    == <<profiles, draft, formSteps>>
objectVars  == <<objects, failed, loadingObjects, refreshing, raced>>
backendVars == <<open, schema>>
railVars    == <<active, rail, snapshot>>
callVars    == <<connecting, closing, deleting, crossed, commands>>
windowVars  == <<userVars, objectVars, backendVars, railVars, callVars>>

Saved == {profiles[i].id : i \in DOMAIN profiles}
NoDelete == [targets |-> {}, todo |-> << >>]
NewDraft(id) == [id |-> id, edited |-> FALSE, fresh |-> TRUE]
FormOf(p)    == [id |-> p.id, edited |-> p.edited, fresh |-> FALSE]
RowOf(d)     == [id |-> d.id, edited |-> d.edited]

WindowInit ==
    /\ profiles \in {<<>>, <<[id |-> 1, edited |-> TRUE]>>}
    /\ draft = IF profiles = <<>> THEN NewDraft(1) ELSE FormOf(profiles[1])
    /\ active = IF profiles = <<>> THEN NoId ELSE profiles[1].id
    /\ rail = {} /\ objects = [i \in Ids |-> Absent] /\ failed = {} /\ loadingObjects = {}
    /\ connecting = <<>> /\ closing = {} /\ deleting = NoDelete /\ refreshing = {}
    /\ open = {} /\ schema = [i \in Ids |-> 0]
    /\ snapshot = FALSE /\ crossed = FALSE /\ raced = {}
    /\ \E u \in UsedUp : commands = u[1] /\ formSteps = u[2]

-----------------------------------------------------------------------------
(* The form.                                                               *)

FormStep == formSteps < MaxFormSteps /\ formSteps' = formSteps + 1
FormOnly == FormStep /\ UNCHANGED <<objectVars, backendVars, railVars, connecting,
                                     closing, deleting, commands>>

\* updateDraft
UpdateDraft ==
    /\ FormOnly /\ ~draft.edited
    /\ draft' = [draft EXCEPT !.edited = TRUE]
    /\ UNCHANGED <<profiles, crossed>>

\* selectProfile
SelectProfile(i) ==
    /\ FormOnly /\ i \in DOMAIN profiles
    /\ draft' = FormOf(profiles[i])
    /\ UNCHANGED <<profiles, crossed>>

FirstUnused ==
    CHOOSE n \in (Len(profiles) + 1)..(2 * Len(profiles) + 1) :
        /\ n \notin Saved
        /\ \A k \in (Len(profiles) + 1)..(n - 1) : k \in Saved

AddProfile ==
    /\ FormOnly /\ FirstUnused <= MaxId
    /\ draft' = NewDraft(FirstUnused)
    /\ UNCHANGED <<profiles, crossed>>

\* saveDraft of a form that is valid: replace the profile, or add it.
WithDraft ==
    IF draft.id \in Saved
    THEN [i \in DOMAIN profiles |->
             IF profiles[i].id = draft.id THEN RowOf(draft) ELSE profiles[i]]
    ELSE Append(profiles, RowOf(draft))

SaveDraft ==
    /\ FormOnly
    /\ profiles' = WithDraft
    /\ draft' = [draft EXCEPT !.fresh = FALSE]
    /\ UNCHANGED crossed

(* Mutated: an untouched profile goes, whether it is open or not. *)
KeepsUnconnected(p) == p.edited \/ (p.id = draft.id /\ draft.edited)

\* prunePristineDrafts: which saved profiles stay when the manager is closed.
KeepsProfile(p) ==
    p.edited \/ p.id \in rail \/ (p.id = draft.id /\ draft.edited)

Pruned == {p.id : p \in Range(profiles) \ Range(profiles')}

CloseManager ==
    /\ FormOnly
    /\ profiles' = Picked(profiles, {i \in DOMAIN profiles : KeepsProfile(profiles[i])})
    /\ profiles' # profiles
    /\ draft' = IF draft.id \in Pruned /\ profiles' # <<>>
                THEN FormOf(profiles'[1]) ELSE draft
    /\ crossed' = (crossed \/ Pruned \cap DOMAIN connecting # {})

\* importConnectionFile with one profile: withUniqueProfileIds renames it when
\* its id is taken; here the new name is a number nobody uses.
ImportProfile(id) ==
    /\ FormStep /\ id \notin Saved
    /\ profiles' = Append(profiles, [id |-> id, edited |-> TRUE])
    /\ draft' = FormOf(profiles'[Len(profiles')])
    /\ active' = id
    /\ UNCHANGED <<objectVars, backendVars, rail, snapshot, callVars>>

-----------------------------------------------------------------------------
(* Refreshing the objects of a connection.                                 *)

Waiting(id) == {r \in refreshing : r.id = id}

\* refreshObjects up to its await.  A refresh is known by a number.
StartRefresh(id) ==
    /\ refreshing' = refreshing \cup
           {[no |-> CHOOSE n \in 0..Cardinality(refreshing) :
                        \A r \in refreshing : r.no # n,
             id |-> id, got |-> Absent]}
    /\ loadingObjects' = loadingObjects \cup {id} /\ failed' = failed \ {id}
    /\ raced' = IF Waiting(id) = {} THEN raced \ {id} ELSE raced \cup {id}

\* The effect of useWorkbenchConnections.
AutoRefresh ==
    /\ active \in rail /\ objects[active] = Absent
    /\ active \notin loadingObjects /\ active \notin failed
    /\ StartRefresh(active)
    /\ UNCHANGED <<objects, userVars, backendVars, railVars, callVars>>

Command == commands < MaxCommands /\ commands' = commands + 1

\* The user's refresh, or the one after a statement that changed the schema.
Refresh(changed) ==
    /\ Command /\ active \in rail
    /\ changed => active \in open
    /\ schema' = IF changed THEN [schema EXCEPT ![active] = commands'] ELSE schema
    /\ StartRefresh(active)
    /\ UNCHANGED <<objects, userVars, railVars, open, connecting, closing,
                   deleting, crossed>>

\* The backend reads the schema of a connection that is open.
ReadSchema(r) ==
    /\ r \in refreshing /\ r.got = Absent /\ r.id \in open
    /\ refreshing' = (refreshing \ {r}) \cup {[r EXCEPT !.got = schema[r.id]]}
    /\ UNCHANGED <<objects, failed, loadingObjects, raced, userVars, backendVars,
                   railVars, callVars>>

(* Mutated: the answer for a connection that is not the active one is dropped. *)
RefreshEndsForActive(r) ==
    /\ refreshing' = refreshing \ {r}
    /\ loadingObjects' = IF r.id = active THEN loadingObjects \ {r.id} ELSE loadingObjects
    /\ IF r.id # active THEN UNCHANGED <<failed, objects>>
       ELSE IF r.got = Absent
       THEN failed' = failed \cup {r.id} /\ UNCHANGED objects
       ELSE objects' = [objects EXCEPT ![r.id] = r.got] /\ UNCHANGED failed
    /\ UNCHANGED <<raced, userVars, backendVars, railVars, callVars>>

\* The answer, with what was read or (any time) a failure.
RefreshEnds(r) ==
    /\ refreshing' = refreshing \ {r}
    /\ loadingObjects' = loadingObjects \ {r.id}
    /\ IF r.got = Absent
       THEN failed' = failed \cup {r.id} /\ UNCHANGED objects
       ELSE objects' = [objects EXCEPT ![r.id] = r.got] /\ UNCHANGED failed
    /\ UNCHANGED <<raced, userVars, backendVars, railVars, callVars>>

-----------------------------------------------------------------------------
(* Connecting.                                                             *)

With1(f, i, x) == [j \in DOMAIN f \cup {i} |-> IF j = i THEN x ELSE f[j]]
Less1(f, i)    == [j \in DOMAIN f \ {i} |-> f[j]]
Closing        == closing # {} \/ deleting # NoDelete

\* connectActiveProfile: the form is saved, and its profile connected.
Connect ==
    /\ Command /\ draft.id \notin DOMAIN connecting
    /\ profiles' = WithDraft /\ draft' = [draft EXCEPT !.fresh = FALSE]
    /\ connecting' = With1(connecting, draft.id, "sent")
    /\ crossed' = (crossed \/ Closing)
    /\ UNCHANGED <<formSteps, objectVars, backendVars, railVars, closing, deleting>>

\* openSqliteSample: switch to it when it is open, and connect it otherwise.
OpenSqliteSample ==
    /\ Command /\ Sample \notin DOMAIN connecting
    /\ draft' = [id |-> Sample, edited |-> TRUE, fresh |-> FALSE]
    /\ IF Sample \in rail
       THEN active' = Sample /\ UNCHANGED <<connecting, crossed>>
       ELSE /\ connecting' = With1(connecting, Sample, "sent")
            /\ crossed' = (crossed \/ Closing)
            /\ UNCHANGED active
    /\ UNCHANGED <<profiles, formSteps, objectVars, backendVars, rail, snapshot,
                   closing, deleting>>

\* The backend opens the connection; one of the same id is closed.
BackendConnects(id) ==
    /\ id \in DOMAIN connecting /\ connecting[id] = "sent"
    /\ connecting' = [connecting EXCEPT ![id] = "open"]
    /\ open' = open \cup {id}
    /\ schema' = [schema EXCEPT ![id] = commands]
    /\ UNCHANGED <<userVars, objectVars, railVars, closing, deleting, crossed,
                   commands>>

\* It is answered.  The sample is seeded and its profile saved first.
Connected(id) ==
    /\ id \in DOMAIN connecting /\ connecting[id] = "open"
    /\ connecting' = Less1(connecting, id)
    /\ profiles' = IF id # Sample \/ Sample \in Saved THEN profiles
                   ELSE Append(profiles, [id |-> Sample, edited |-> TRUE])
    /\ rail' = rail \cup {id} /\ active' = id
    /\ StartRefresh(id)
    /\ UNCHANGED <<objects, draft, formSteps, backendVars, snapshot, closing,
                   deleting, crossed, commands>>

\* It fails, or a statement that seeds the sample does.
ConnectFails(id) ==
    /\ id \in DOMAIN connecting
    /\ connecting[id] = "open" => id = Sample
    /\ connecting' = Less1(connecting, id)
    /\ crossed' = (crossed \/ connecting[id] = "open")
    /\ UNCHANGED <<userVars, objectVars, backendVars, railVars, closing,
                   deleting, commands>>

-----------------------------------------------------------------------------
(* Disconnecting and deleting.                                             *)

\* disconnectProfile up to its await.
Disconnect(id) ==
    /\ Command /\ id \in rail /\ \A c \in closing : c.id # id
    /\ closing' = closing \cup {[id |-> id, rail |-> rail, active |-> active,
                                 rows |-> profiles]}
    /\ crossed' = (crossed \/ Closing \/ connecting # <<>>)
    /\ UNCHANGED <<userVars, objectVars, backendVars, railVars, connecting,
                   deleting>>

\* The connection made active: the first open one of the rail, as it was.
Successor(c) ==
    LET stay == Picked(c.rows, {i \in DOMAIN c.rows : c.rows[i].id \in c.rail \ {c.id}})
    IN  IF c.active # c.id THEN active
        ELSE IF stay = <<>> THEN NoId ELSE stay[1].id

\* disconnectProfile after it: the backend has closed the connection.
Disconnected(c) ==
    /\ c \in closing
    /\ closing' = closing \ {c}
    /\ open' = open \ {c.id}
    /\ rail' = c.rail \ {c.id}
    /\ active' = Successor(c)
    /\ objects' = [objects EXCEPT ![c.id] = Absent]
    /\ failed' = failed \ {c.id}
    /\ UNCHANGED <<userVars, loadingObjects, refreshing, raced, schema, snapshot,
                   connecting, deleting, crossed, commands>>

\* deleteProfiles: the targets that were open are disconnected one by one.
DeleteProfiles(targets) ==
    /\ Command /\ deleting = NoDelete /\ targets # {} /\ targets \subseteq Saved
    /\ deleting' = [targets |-> targets,
                    todo    |-> Ascending(targets \cap rail)]
    /\ crossed' = (crossed \/ Closing \/ connecting # <<>>)
    /\ UNCHANGED <<userVars, objectVars, backendVars, railVars, connecting,
                   closing>>

TargetClosed ==
    /\ deleting.todo # <<>>
    /\ open' = open \ {Head(deleting.todo)}
    /\ deleting' = [deleting EXCEPT !.todo = Tail(@)]
    /\ UNCHANGED <<userVars, objectVars, schema, railVars, connecting, closing,
                   crossed, commands>>

\* The active connection and the objects shown stay what they were.
Deleted ==
    /\ deleting # NoDelete /\ deleting.todo = <<>>
    /\ deleting' = NoDelete
    /\ rail' = rail \ deleting.targets
    /\ profiles' = Picked(profiles, {i \in DOMAIN profiles :
                                         profiles[i].id \notin deleting.targets})
    /\ draft' = IF profiles' = <<>> THEN NewDraft(1) ELSE FormOf(profiles'[1])
    /\ UNCHANGED <<active, formSteps, objectVars, backendVars, snapshot, connecting,
                   closing, crossed, commands>>

-----------------------------------------------------------------------------
\* The rail shows the saved profiles that are connected.
SwitchTo(id) ==
    /\ FormStep /\ id \in rail \cap Saved /\ id # active
    /\ active' = id
    /\ draft' = FormOf(profiles[CHOOSE i \in DOMAIN profiles : profiles[i].id = id])
    /\ UNCHANGED <<profiles, objectVars, backendVars, rail, snapshot, callVars>>

\* The workspace snapshot names no connection.
SnapshotArrives ==
    /\ ~snapshot /\ snapshot' = TRUE
    /\ active' = NoId
    /\ UNCHANGED <<userVars, objectVars, backendVars, rail, callVars>>

WindowNext ==
    \/ UpdateDraft \/ AddProfile \/ SaveDraft \/ CloseManager
    \/ AutoRefresh \/ Connect \/ OpenSqliteSample \/ TargetClosed \/ Deleted
    \/ SnapshotArrives
    \/ \E i \in DOMAIN profiles : SelectProfile(i)
    \/ \E b \in BOOLEAN : Refresh(b)
    \/ \E r \in refreshing : ReadSchema(r) \/ RefreshEnds(r)
    \/ \E c \in closing : Disconnected(c)
    \/ \E targets \in SUBSET Saved : DeleteProfiles(targets)
    \/ \E id \in Ids :
        \/ ImportProfile(id) \/ BackendConnects(id) \/ Connected(id)
        \/ ConnectFails(id) \/ Disconnect(id) \/ SwitchTo(id)

\* React runs its effects, and every command is answered in the end.
WindowFairness ==
    /\ WF_windowVars(AutoRefresh)
    /\ WF_windowVars(\E r \in refreshing : RefreshEnds(r))
    /\ WF_windowVars(TargetClosed \/ Deleted)
    /\ WF_windowVars(\E c \in closing : Disconnected(c))
    /\ WF_windowVars(\E id \in Ids : Connected(id) \/ ConnectFails(id))

WindowSpec == WindowInit /\ [][WindowNext]_windowVars /\ WindowFairness

-----------------------------------------------------------------------------
\* Every variable keeps its type.
WindowTypeOK ==
    /\ \A i \in DOMAIN profiles : profiles[i] \in [id : Ids, edited : BOOLEAN]
    /\ draft \in [id : Ids, edited : BOOLEAN, fresh : BOOLEAN]
    /\ active \in Ids \cup {NoId} /\ rail \subseteq Ids
    /\ objects \in [Ids -> 0..MaxCommands \cup {Absent}]
    /\ failed \subseteq Ids /\ loadingObjects \subseteq Ids /\ raced \subseteq Ids
    /\ DOMAIN connecting \subseteq Ids
    /\ \A i \in DOMAIN connecting : connecting[i] \in {"sent", "open"}
    /\ \A c \in closing : c.id \in Ids /\ c.rail \subseteq Ids
    /\ deleting.targets \subseteq Ids /\ Range(deleting.todo) \subseteq deleting.targets
    /\ \A r \in refreshing : r \in [no : Nat, id : Ids, got : 0..MaxCommands \cup {Absent}]
    /\ open \subseteq Ids /\ schema \in [Ids -> 0..MaxCommands]

Settled == connecting = <<>> /\ closing = {} /\ deleting = NoDelete

\* As long as no command crossed a disconnect, the rail lists what is open,
\* and every open connection has a profile to be closed from.
RailIsWhatIsOpen == Settled /\ ~crossed => rail = open /\ open \subseteq Saved

\* No connection is shown as loading unless a refresh of it is under way, so
\* none spins for ever.
LoadingIsRefreshing == \A i \in loadingObjects : Waiting(i) # {}

\* The objects of an open connection are those it has now, once no refresh is
\* under way and no two were at once.
ObjectsAreUpToDate ==
    \A i \in rail \cap open :
        Settled /\ ~crossed /\ Waiting(i) = {} /\ i \notin raced /\ objects[i] # Absent
        /\ i \notin failed
            => objects[i] = schema[i]

\* A form opened by Add never saves over another profile, whatever was imported,
\* deleted or connected since; and no two profiles share an id.
AddReplacesNoProfile ==
    /\ Cardinality(Saved) = Len(profiles)
    /\ draft.fresh => draft.id \notin Saved

\* The profiles, the rail, the objects and what is said to load agree with what
\* is open and under way.
ConnectionsAreSound ==
    /\ WindowTypeOK /\ RailIsWhatIsOpen /\ AddReplacesNoProfile
    /\ LoadingIsRefreshing /\ ObjectsAreUpToDate

\* The active connection gets its objects, or the reason why not.
NoObjectsYet == active \in rail /\ objects[active] = Absent /\ active \notin failed
ObjectsArrive == NoObjectsYet ~> ~NoObjectsYet
=============================================================================
