---- MODULE ExtensionStoreProofs ----
(***************************************************************************)
(* Proofs about ExtensionStore, for any extensions, versions, number of    *)
(* operations under way and number of launches.                            *)
(***************************************************************************)
EXTENDS ExtensionStore, TLAPS

\* What the registry, the disk and an operation hold.
Entries == {NotInstalled} \cup [version : Versions, enabled : BOOLEAN]
Directories == Ids \X Versions

\* The steps of an install between taking the lock and giving it back.
LockedSteps == {"locked", "staged", "cleared", "renamed", "installed", "failed"}
Steps == LockedSteps \cup {"idle", "queued", "asked", "unlisted", "removing",
                           "done", "error", "listed"}

Kinds == {"none", "install", "batch", "uninstall", "enable", "disable"}
Lists == {NoList} \cup [Ids -> Entries]

Operations ==
    [kind : Kinds, at : Steps, id : Ids \cup {Nobody}, version : Nat,
     rest : SUBSET Directories, deferred : SUBSET Directories, list : Lists,
     alone : BOOLEAN]

\* The variables have their types.
ExtTyped ==
    /\ registry \in [Ids -> Entries] /\ catalog \in [Ids -> Versions]
    /\ dirs \subseteq Directories
    /\ op \in [Slots -> Operations]

\* What an operation is about: an idle slot is about nothing, an install has a
\* version there is, and an uninstall removes directories of its own extension.
OpInv == \A t \in Slots :
    /\ op[t].at = "idle" => op[t].id = Nobody /\ op[t].alone
    /\ op[t].at # "idle" => op[t].id \in Ids
    /\ op[t].at \in {"queued", "locked", "staged", "cleared", "renamed"} => op[t].version \in Versions
    /\ op[t].at \in {"asked", "unlisted"} => op[t].deferred = {}
    /\ op[t].at = "removing" => \A d \in op[t].rest \cup op[t].deferred : d[1] = op[t].id

\* The installs between the two ends of the lock are those that hold it: one; and
\* none goes on while the program does not run.
LockInv ==
    /\ \A t \in Slots : op[t].at \in LockedSteps <=> install_lock = t
    /\ ~running => \A t \in Slots : op[t].at = "idle"

\* An operation that is alone shares its extension with none, and the extension of
\* one that is not is broken and littered.
AloneInv ==
    \A t \in Slots :
        /\ op[t].alone => \A u \in Slots \ {t} : op[u].id # op[t].id \/ op[u].id = Nobody
        /\ ~op[t].alone => op[t].id \in broken /\ op[t].id \in littered

\* The files of an entry are there, or an install of the same version is about to
\* put them back.
EntryInv ==
    \A id \in Ids :
        id \notin broken /\ registry[id] # NotInstalled =>
            \/ <<id, registry[id].version>> \in dirs
            \/ \E t \in Slots : /\ op[t].id = id /\ op[t].at = "cleared"
                                /\ op[t].version = registry[id].version

\* An operation that is alone finds what it left: an install its directory, an
\* uninstall no entry, and no directory but those it read.
AloneFindsInv ==
    \A t \in Slots : op[t].alone =>
        /\ op[t].at = "renamed" => final_dir(t) \in dirs
        /\ op[t].at \in {"unlisted", "removing"} => registry[op[t].id] = NotInstalled
        /\ op[t].at = "removing" => DirsOf(op[t].id) \subseteq op[t].rest \cup op[t].deferred

\* A directory that no entry names is listed for removal, has just been put in its
\* place, or is about to be removed.
LitterInv ==
    \A d \in dirs :
        d[1] \in littered \/ d \in pending_removal \/ d = <<d[1], registry[d[1]].version>>
        \/ \E t \in Slots : /\ op[t].id = d[1]
                            /\ \/ op[t].at = "renamed" /\ d = final_dir(t)
                               \/ op[t].at \in {"unlisted", "removing"}

\* The inductive invariant of the extension store.
ExtIInv ==
    ExtTyped /\ OpInv /\ LockInv /\ AloneInv /\ EntryInv /\ AloneFindsInv /\ LitterInv
        /\ StagingIsCleared

\* An operation begins, or a batch goes on to its next.
Starts(t) ==
    \/ \E id \in Ids : installOrUpdate(t, id) \/ uninstallExtension(t, id) \/ toggleExtension(t, id)
    \/ updateAll(t) \/ NextOfBatch(t)

\* An idle slot is an operation that is about nothing.
LEMMA IdleTyped == Idle \in Operations
<1>1. "none" \in Kinds /\ "idle" \in Steps /\ NoList \in Lists
  BY DEF Kinds, Steps, Lists
<1> QED
  BY <1>1 DEF Idle, Operations

\* What enabling or disabling makes of an entry.
LEMMA EnablingMeans ==
    ASSUME ExtTyped, NEW t \in Slots, op[t].id \in Ids, set_enabled(t), NEW id \in Ids
    PROVE  /\ registry'[id].version = registry[id].version
           /\ registry[id] = NotInstalled => registry'[id] = NotInstalled
<1> USE DEF ExtTyped
<1>1. CASE registry[op[t].id] = NotInstalled
  BY <1>1 DEF set_enabled
<1>2. CASE registry[op[t].id] # NotInstalled
  <2> DEFINE b == op[t].kind = "enable"
             e == [registry[op[t].id] EXCEPT !.enabled = b]
  <2>1. registry' = [registry EXCEPT ![op[t].id] = e]
    BY <1>2 DEF set_enabled
  <2>2. registry[op[t].id] \in Entries
    OBVIOUS
  <2>3. e.version = registry[op[t].id].version
    BY <2>2 DEF Entries, NotInstalled
  <2> HIDE DEF e
  <2>4. CASE id = op[t].id
    BY <1>2, <2>1, <2>3, <2>4
  <2>5. CASE id # op[t].id
    BY <2>1, <2>5
  <2> QED
    BY <2>4, <2>5
<1> QED
  BY <1>1, <1>2

\* An operation that goes on stays one.
LEMMA GoesTyped ==
    ASSUME op \in [Slots -> Operations], NEW t \in Slots, NEW at \in Steps, Goes(t, at)
    PROVE  op' \in [Slots -> Operations]
<1>1. [op[t] EXCEPT !.at = at] \in Operations
  BY DEF Operations
<1> QED
  BY <1>1 DEF Goes

\* What a new operation o in slot t makes of the operations.
LEMMA BeginMeans ==
    ASSUME op \in [Slots -> Operations], NEW t \in Slots, NEW o \in Operations, Begin(t, o)
    PROVE  /\ op' \in [Slots -> Operations]
           /\ \A u \in Slots \ {t} :
                /\ op'[u].id = op[u].id /\ op'[u].at = op[u].at /\ op'[u].version = op[u].version
                /\ op'[u].rest = op[u].rest /\ op'[u].deferred = op[u].deferred
                /\ op'[u].alone <=> op[u].alone /\ op[u].id # o.id
           /\ op'[t].id = o.id /\ op'[t].at = o.at /\ op'[t].version = o.version
           /\ op'[t].rest = o.rest /\ op'[t].deferred = o.deferred
           /\ op'[t].alone <=> \A u \in Slots \ {t} : op[u].id # o.id
<1> DEFINE others == {u \in Slots \ {t} : op[u].id = o.id}
           new == [o EXCEPT !.alone = (others = {})]
<1>1. new \in Operations /\ new.id = o.id /\ new.at = o.at /\ new.version = o.version
      /\ new.rest = o.rest /\ new.deferred = o.deferred /\ (new.alone <=> others = {})
  BY DEF Operations
<1>2. \A u \in Slots : [op[u] EXCEPT !.alone = FALSE] \in Operations
  BY DEF Operations
<1>3. op' = [u \in Slots |-> IF u = t THEN new
                             ELSE IF u \in others THEN [op[u] EXCEPT !.alone = FALSE] ELSE op[u]]
  BY DEF Begin
<1>4. op' \in [Slots -> Operations]
  <2> HIDE DEF new, others
  <2> QED
    BY <1>1, <1>2, <1>3
<1>5. ASSUME NEW u \in Slots \ {t}
      PROVE  /\ op'[u].id = op[u].id /\ op'[u].at = op[u].at /\ op'[u].version = op[u].version
             /\ op'[u].rest = op[u].rest /\ op'[u].deferred = op[u].deferred
             /\ op'[u].alone <=> op[u].alone /\ op[u].id # o.id
  <2>1. CASE u \in others
    <3>1. op'[u] = [op[u] EXCEPT !.alone = FALSE]
      BY <1>3, <2>1
    <3> QED
      BY <2>1, <3>1 DEF Operations
  <2>2. CASE u \notin others
    BY <1>3, <2>2
  <2> QED
    BY <2>1, <2>2
<1>6. op'[t] = new
  BY <1>3
<1>7. others = {} <=> \A u \in Slots \ {t} : op[u].id # o.id
  OBVIOUS
<1> HIDE DEF new, others
<1> QED
  BY <1>1, <1>4, <1>5, <1>6, <1>7

\* It leaves the disk and the lock alone, and what it disturbs it says so.
LEMMA BeginKeeps ==
    ASSUME ExtIInv, NEW t \in Slots, op[t].at \in {"idle", "done", "error"}, running,
           NEW o \in Operations, o.id \in Ids, o.at \in {"queued", "asked"},
           o.at = "queued" => o.version \in Versions, o.at = "asked" => o.deferred = {},
           Begin(t, o), UNCHANGED <<diskVars, running, install_lock, catalog>>
    PROVE  ExtIInv'
<1> DEFINE meets == \E u \in Slots \ {t} : op[u].id = o.id
<1>1. op \in [Slots -> Operations]
  BY DEF ExtIInv, ExtTyped
<1>2. /\ op' \in [Slots -> Operations]
      /\ \A u \in Slots \ {t} :
            /\ op'[u].id = op[u].id /\ op'[u].at = op[u].at /\ op'[u].version = op[u].version
            /\ op'[u].rest = op[u].rest /\ op'[u].deferred = op[u].deferred
            /\ op'[u].alone <=> op[u].alone /\ op[u].id # o.id
      /\ op'[t].id = o.id /\ op'[t].at = o.at /\ op'[t].version = o.version
      /\ op'[t].rest = o.rest /\ op'[t].deferred = o.deferred
      /\ op'[t].alone <=> ~meets
  BY <1>1, BeginMeans
<1>3. /\ broken' = IF meets THEN broken \cup {o.id} ELSE broken
      /\ littered' = IF meets THEN littered \cup {o.id} ELSE littered
  BY DEF Begin, pastVars
<1>4. UNCHANGED <<registry, pending_removal, dirs, staging, running, install_lock, catalog>>
  BY DEF diskVars
<1> HIDE DEF meets
<1> USE StoreAssumption DEF ExtIInv
<1>5. ExtTyped'
  BY <1>2, <1>4 DEF ExtTyped
<1>6. OpInv'
  BY <1>2 DEF OpInv
<1>7. LockInv'
  BY <1>2, <1>4 DEF LockInv, LockedSteps
<1>8. AloneInv'
  BY <1>2, <1>3 DEF AloneInv, OpInv, meets
<1>9. EntryInv'
  BY <1>2, <1>3, <1>4 DEF EntryInv
<1>10. AloneFindsInv'
  BY <1>2, <1>4 DEF AloneFindsInv, final_dir, DirsOf
<1>11. LitterInv'
  BY <1>2, <1>3, <1>4 DEF LitterInv, final_dir
<1>12. StagingIsCleared'
  BY <1>2, <1>4 DEF StagingIsCleared
<1> QED
  BY <1>5, <1>6, <1>7, <1>8, <1>9, <1>10, <1>11, <1>12

\* To begin an operation keeps the invariant.
LEMMA StartsStep ==
    ASSUME ExtIInv, NEW t \in Slots, Starts(t)
    PROVE  ExtIInv'
<1>1. Idle \in Operations /\ Idle.deferred = {} /\ "queued" \in Steps /\ "asked" \in Steps
      /\ {"install", "batch", "uninstall", "enable", "disable"} \subseteq Kinds
  BY IdleTyped DEF Idle, Steps, Kinds
<1>2. \A id \in Ids : catalog[id] \in Versions /\ catalog[id] \in Nat
  BY StoreAssumption DEF ExtIInv, ExtTyped
<1>3. ASSUME NEW id \in Ids, installOrUpdate(t, id) PROVE ExtIInv'
  <2> DEFINE o == [Idle EXCEPT !.kind = "install", !.at = "queued", !.id = id, !.version = catalog[id]]
  <2>1. o \in Operations /\ o.id = id /\ o.at = "queued" /\ o.version \in Versions
    BY <1>1, <1>2 DEF Operations
  <2>2. running /\ op[t].at = "idle" /\ Begin(t, o)
        /\ UNCHANGED <<diskVars, running, install_lock, catalog>>
    BY <1>3 DEF installOrUpdate, Click
  <2> HIDE DEF o
  <2> QED
    BY <2>1, <2>2, BeginKeeps
<1>4. ASSUME NEW id \in Ids, uninstallExtension(t, id) PROVE ExtIInv'
  <2> DEFINE o == [Idle EXCEPT !.kind = "uninstall", !.at = "asked", !.id = id]
  <2>1. o \in Operations /\ o.id = id /\ o.at = "asked" /\ o.deferred = {}
    BY <1>1 DEF Operations
  <2>2. running /\ op[t].at = "idle" /\ Begin(t, o)
        /\ UNCHANGED <<diskVars, running, install_lock, catalog>>
    BY <1>4 DEF uninstallExtension, Click
  <2> HIDE DEF o
  <2> QED
    BY <2>1, <2>2, BeginKeeps
<1>5. ASSUME NEW id \in Ids, toggleExtension(t, id) PROVE ExtIInv'
  <2> DEFINE o == [Idle EXCEPT !.kind = IF shown[id].enabled THEN "disable" ELSE "enable",
                               !.at = "asked", !.id = id]
  <2>1. o \in Operations /\ o.id = id /\ o.at = "asked" /\ o.deferred = {}
    BY <1>1 DEF Operations
  <2>2. running /\ op[t].at = "idle" /\ Begin(t, o)
        /\ UNCHANGED <<diskVars, running, install_lock, catalog>>
    BY <1>5 DEF toggleExtension, Click
  <2> HIDE DEF o
  <2> QED
    BY <2>1, <2>2, BeginKeeps
<1>6. CASE updateAll(t)
  <2>1. PICK id \in Ids :
            Click(t, [Idle EXCEPT !.kind = "batch", !.at = "queued", !.id = id, !.version = catalog[id],
                        !.rest = {<<i, catalog[i]>> : i \in {j \in Ids \ {id} : Updatable(j)}}])
    BY <1>6 DEF updateAll
  <2> DEFINE others == {<<i, catalog[i]>> : i \in {j \in Ids \ {id} : Updatable(j)}}
             o == [Idle EXCEPT !.kind = "batch", !.at = "queued", !.id = id, !.version = catalog[id],
                        !.rest = others]
  <2>2. others \in SUBSET Directories
    BY <1>2 DEF Directories
  <2>3. o \in Operations /\ o.id = id /\ o.at = "queued" /\ o.version \in Versions
    <3> HIDE DEF others
    <3> QED
      BY <1>1, <1>2, <2>2 DEF Operations
  <2>4. running /\ op[t].at = "idle" /\ Begin(t, o)
        /\ UNCHANGED <<diskVars, running, install_lock, catalog>>
    BY <2>1 DEF Click
  <2> HIDE DEF o
  <2> QED
    BY <2>3, <2>4, BeginKeeps
<1>7. CASE NextOfBatch(t)
  <2>1. PICK next \in op[t].rest :
            Begin(t, [op[t] EXCEPT !.at = "queued", !.id = next[1], !.version = next[2],
                                   !.rest = @ \ {next}])
    BY <1>7 DEF NextOfBatch
  <2> DEFINE o == [op[t] EXCEPT !.at = "queued", !.id = next[1], !.version = next[2],
                                !.rest = @ \ {next}]
  <2>2. op[t] \in Operations
    BY DEF ExtIInv, ExtTyped
  <2>3. next \in Directories
    BY <2>1, <2>2 DEF Operations
  <2>4. next[1] \in Ids /\ next[2] \in Versions
    BY <2>3 DEF Directories
  <2>5. o \in Operations /\ o.id \in Ids /\ o.at = "queued" /\ o.version \in Versions
    BY <1>1, <2>2, <2>4, StoreAssumption DEF Operations
  <2>6. op[t].at \in {"done", "error"} /\ UNCHANGED <<diskVars, running, install_lock, catalog>>
    BY <1>7 DEF NextOfBatch
  <2>7. running
    BY <2>6 DEF ExtIInv, LockInv
  <2>8. Begin(t, o)
    BY <2>1
  <2> HIDE DEF o
  <2> QED
    BY <2>5, <2>6, <2>7, <2>8, BeginKeeps
<1> QED
  BY <1>3, <1>4, <1>5, <1>6, <1>7 DEF Starts

\* No step gives a variable another type.
LEMMA TypedStep ==
    ASSUME ExtIInv, [ExtNext]_extVars
    PROVE  ExtTyped'
<1> USE StoreAssumption DEF ExtIInv
<1>1. ASSUME NEW t \in Slots, Starts(t) PROVE ExtTyped'
  BY <1>1, StartsStep DEF ExtIInv
<1>2. ASSUME NEW t \in Slots, ReadList(t) PROVE ExtTyped'
  <2>1. [op[t] EXCEPT !.at = "listed", !.list = registry] \in Operations
    BY ZenonT(60) DEF ExtTyped, Operations, Steps, Lists
  <2> QED
    BY <1>2, <2>1 DEF ReadList, ExtTyped, diskVars
<1>3. ASSUME NEW t \in Slots, Answered(t) PROVE ExtTyped'
  BY <1>3, IdleTyped DEF Answered, ExtTyped, diskVars
<1>4. ASSUME NEW t \in Slots, LockInstall(t) PROVE ExtTyped'
  BY <1>4, GoesTyped DEF LockInstall, ExtTyped, Steps, LockedSteps, diskVars, tabVars
<1>5. ASSUME NEW t \in Slots, Unpack(t) PROVE ExtTyped'
  BY <1>5, GoesTyped DEF Unpack, ExtTyped, Steps, LockedSteps, diskVars, tabVars
<1>6. ASSUME NEW t \in Slots, Reject(t) PROVE ExtTyped'
  BY <1>6, GoesTyped DEF Reject, ExtTyped, Steps, LockedSteps, diskVars, tabVars
<1>7. ASSUME NEW t \in Slots, RemoveFinalDir(t) PROVE ExtTyped'
  BY <1>7, GoesTyped DEF RemoveFinalDir, ExtTyped, Steps, LockedSteps, diskVars, tabVars
<1>8. ASSUME NEW t \in Slots, Rename(t) PROVE ExtTyped'
  <2>1. final_dir(t) \in Directories
    BY <1>8 DEF Rename, ExtTyped, OpInv, final_dir, Directories
  <2> QED
    BY <1>8, <2>1, GoesTyped DEF Rename, ExtTyped, Steps, LockedSteps, tabVars
<1>9. ASSUME NEW t \in Slots, InstallFails(t) PROVE ExtTyped'
  BY <1>9, GoesTyped DEF InstallFails, ExtTyped, Steps, LockedSteps, diskVars, tabVars
<1>10. ASSUME NEW t \in Slots, upsert_installed(t) PROVE ExtTyped'
  <2>1. Installed(op[t].version) \in Entries /\ op[t].id \in Ids
    BY <1>10 DEF upsert_installed, OpInv, Entries, Installed
  <2> QED
    BY <1>10, <2>1, GoesTyped DEF upsert_installed, ExtTyped, Steps, LockedSteps, tabVars
<1>11. ASSUME NEW t \in Slots, EndInstall(t) PROVE ExtTyped'
  BY <1>11, GoesTyped DEF EndInstall, ExtTyped, Steps, LockedSteps, diskVars, tabVars
<1>12. ASSUME NEW t \in Slots, RemoveEntry(t) PROVE ExtTyped'
  <2>1. NotInstalled \in Entries
    BY DEF Entries
  <2> QED
    BY <1>12, <2>1, GoesTyped DEF RemoveEntry, ExtTyped, Steps, tabVars
<1>13. ASSUME NEW t \in Slots, ReadDirs(t) PROVE ExtTyped'
  <2>1. DirsOf(op[t].id) \subseteq Directories
    BY DEF ExtTyped, DirsOf
  <2>2. [op[t] EXCEPT !.at = "removing", !.rest = DirsOf(op[t].id)] \in Operations
    BY ZenonT(60), <2>1 DEF ExtTyped, Operations, Steps
  <2> QED
    BY <1>13, <2>2 DEF ReadDirs, ExtTyped, diskVars, tabVars
<1>14. ASSUME NEW t \in Slots, RemoveDir(t) PROVE ExtTyped'
  <2>1. PICK dir \in op[t].rest :
            /\ dirs' = IF Removable(dir) THEN dirs \ {dir} ELSE dirs
            /\ op' = [op EXCEPT ![t].rest = @ \ {dir},
                                ![t].deferred = IF dir \in dirs' THEN @ \cup {dir} ELSE @]
    BY <1>14, Zenon DEF RemoveDir
  <2>2. op[t] \in Operations /\ dir \in Directories
    BY <2>1 DEF ExtTyped, Operations
  <2>3. [op[t] EXCEPT !.rest = @ \ {dir}, !.deferred = IF dir \in dirs' THEN @ \cup {dir} ELSE @]
            \in Operations
    <3>1. op[t].rest \ {dir} \in SUBSET Directories
          /\ (IF dir \in dirs' THEN op[t].deferred \cup {dir} ELSE op[t].deferred) \in SUBSET Directories
      BY <2>2 DEF Operations
    <3> QED
      BY <2>2, <3>1 DEF Operations
  <2> QED
    BY <1>14, <2>1, <2>3 DEF RemoveDir, ExtTyped, tabVars
<1>15. ASSUME NEW t \in Slots, DeferRemoval(t) PROVE ExtTyped'
  BY <1>15, GoesTyped DEF DeferRemoval, ExtTyped, Steps, LockedSteps, diskVars, tabVars
<1>16. ASSUME NEW t \in Slots, DeferFails(t) PROVE ExtTyped'
  BY <1>16, GoesTyped DEF DeferFails, ExtTyped, Steps, LockedSteps, diskVars, tabVars
<1>17. ASSUME NEW t \in Slots, set_enabled(t) PROVE ExtTyped'
  <2>1. op[t].id \in Ids
    BY <1>17 DEF set_enabled, OpInv
  <2>2. registry[op[t].id] # NotInstalled =>
            [registry[op[t].id] EXCEPT !.enabled = op[t].kind = "enable"] \in Entries
    BY <2>1 DEF ExtTyped, Entries
  <2>3. registry' \in [Ids -> Entries]
    BY <1>17, <2>1, <2>2 DEF set_enabled, ExtTyped
  <2> QED
    BY <1>17, <2>3, GoesTyped DEF set_enabled, ExtTyped, Steps, tabVars
<1>18. ASSUME NEW t \in Slots, UpdateFails(t) PROVE ExtTyped'
  BY <1>18, GoesTyped DEF UpdateFails, ExtTyped, Steps, LockedSteps, diskVars, tabVars
<1>19. ASSUME NEW id \in Ids, LoadLibrary(id) PROVE ExtTyped'
  BY <1>19 DEF LoadLibrary, diskVars, tabVars, boundVars, pastVars, ExtTyped
<1>20. ASSUME NEW id \in Ids, CatalogChanges(id) PROVE ExtTyped'
  BY <1>20 DEF CatalogChanges, diskVars, tabVars, boundVars, pastVars, ExtTyped
<1>21. ASSUME NEW dir \in mapped, ReleaseLibrary(dir) PROVE ExtTyped'
  BY <1>21 DEF ReleaseLibrary, diskVars, tabVars, boundVars, pastVars, ExtTyped
<1>22. CASE refresh
  BY <1>22 DEF refresh, diskVars, tabVars, boundVars, pastVars, ExtTyped
<1>23. CASE Refreshed
  BY <1>23 DEF Refreshed, diskVars, tabVars, boundVars, pastVars, ExtTyped
<1>24. CASE Exit
  BY <1>24, IdleTyped DEF Exit, ExtTyped, diskVars
<1>25. CASE collect_garbage
  BY <1>25 DEF collect_garbage, diskVars, tabVars, boundVars, pastVars, ExtTyped
<1>26. CASE UNCHANGED extVars
  BY <1>26 DEF ExtTyped, extVars, diskVars, tabVars, boundVars, pastVars
<1> QED
  BY <1>1, <1>2, <1>3, <1>4, <1>5, <1>6, <1>7, <1>8, <1>9, <1>10, <1>11, <1>12, <1>13, <1>14, <1>15, <1>16, <1>17, <1>18, <1>19, <1>20, <1>21, <1>22, <1>23, <1>24, <1>25, <1>26 DEF ExtNext, TaskNext, Starts

\* An operation keeps what it is about.
LEMMA OpStep ==
    ASSUME ExtIInv, [ExtNext]_extVars
    PROVE  OpInv'
<1> USE StoreAssumption DEF ExtIInv, ExtTyped, Operations, OpInv, Idle, DirsOf
<1>1. ASSUME NEW t \in Slots, Starts(t) PROVE OpInv'
  BY <1>1, StartsStep DEF ExtIInv
<1>2. ASSUME NEW t \in Slots, ReadList(t) PROVE OpInv'
  BY <1>2 DEF ReadList, ListIsDue, diskVars, tabVars, boundVars, pastVars
<1>3. ASSUME NEW t \in Slots, Answered(t) PROVE OpInv'
  BY <1>3 DEF Answered, ListIsDue, diskVars, tabVars, boundVars, pastVars
<1>4. ASSUME NEW t \in Slots, LockInstall(t) PROVE OpInv'
  BY <1>4 DEF LockInstall, Goes, diskVars, tabVars, boundVars, pastVars
<1>5. ASSUME NEW t \in Slots, Unpack(t) PROVE OpInv'
  BY <1>5 DEF Unpack, Goes, diskVars, tabVars, boundVars, pastVars
<1>6. ASSUME NEW t \in Slots, Reject(t) PROVE OpInv'
  BY <1>6 DEF Reject, Goes, diskVars, tabVars, boundVars, pastVars
<1>7. ASSUME NEW t \in Slots, RemoveFinalDir(t) PROVE OpInv'
  BY <1>7 DEF RemoveFinalDir, Goes, diskVars, tabVars, boundVars, pastVars
<1>8. ASSUME NEW t \in Slots, Rename(t) PROVE OpInv'
  BY <1>8 DEF Rename, Goes, diskVars, tabVars, boundVars, pastVars
<1>9. ASSUME NEW t \in Slots, InstallFails(t) PROVE OpInv'
  BY <1>9 DEF InstallFails, Goes, Losing, diskVars, tabVars, boundVars, pastVars
<1>10. ASSUME NEW t \in Slots, upsert_installed(t) PROVE OpInv'
  BY <1>10 DEF upsert_installed, Goes, Superseded, Installed, diskVars, tabVars, boundVars, pastVars
<1>11. ASSUME NEW t \in Slots, EndInstall(t) PROVE OpInv'
  BY <1>11 DEF EndInstall, Goes, diskVars, tabVars, boundVars, pastVars
<1>12. ASSUME NEW t \in Slots, RemoveEntry(t) PROVE OpInv'
  BY <1>12 DEF RemoveEntry, Goes, diskVars, tabVars, boundVars, pastVars
<1>13. ASSUME NEW t \in Slots, ReadDirs(t) PROVE OpInv'
  BY <1>13 DEF ReadDirs, diskVars, tabVars, boundVars, pastVars
<1>14. ASSUME NEW t \in Slots, RemoveDir(t) PROVE OpInv'
  BY <1>14 DEF RemoveDir, diskVars, tabVars, boundVars, pastVars
<1>15. ASSUME NEW t \in Slots, DeferRemoval(t) PROVE OpInv'
  BY <1>15 DEF DeferRemoval, Goes, diskVars, tabVars, boundVars, pastVars
<1>16. ASSUME NEW t \in Slots, DeferFails(t) PROVE OpInv'
  BY <1>16 DEF DeferFails, Goes, diskVars, tabVars, boundVars, pastVars
<1>17. ASSUME NEW t \in Slots, set_enabled(t) PROVE OpInv'
  BY SMTT(30), <1>17 DEF set_enabled, Goes, diskVars, tabVars, boundVars, pastVars
<1>18. ASSUME NEW t \in Slots, UpdateFails(t) PROVE OpInv'
  BY <1>18 DEF UpdateFails, Goes, diskVars, tabVars, boundVars, pastVars
<1>19. ASSUME NEW id \in Ids, LoadLibrary(id) PROVE OpInv'
  BY <1>19 DEF LoadLibrary, diskVars, tabVars, boundVars, pastVars
<1>20. ASSUME NEW id \in Ids, CatalogChanges(id) PROVE OpInv'
  BY <1>20 DEF CatalogChanges, diskVars, tabVars, boundVars, pastVars
<1>21. ASSUME NEW dir \in mapped, ReleaseLibrary(dir) PROVE OpInv'
  BY <1>21 DEF ReleaseLibrary, diskVars, tabVars, boundVars, pastVars
<1>22. CASE refresh
  BY <1>22 DEF refresh, diskVars, tabVars, boundVars, pastVars
<1>23. CASE Refreshed
  BY <1>23 DEF Refreshed, diskVars, tabVars, boundVars, pastVars
<1>24. CASE Exit
  BY <1>24 DEF Exit, Losing, diskVars, tabVars, boundVars, pastVars
<1>25. CASE collect_garbage
  BY <1>25 DEF collect_garbage, diskVars, tabVars, boundVars, pastVars
<1>26. CASE UNCHANGED extVars
  BY <1>26 DEF extVars, diskVars, tabVars, boundVars, pastVars
<1> QED
  BY <1>1, <1>2, <1>3, <1>4, <1>5, <1>6, <1>7, <1>8, <1>9, <1>10, <1>11, <1>12, <1>13, <1>14, <1>15, <1>16, <1>17, <1>18, <1>19, <1>20, <1>21, <1>22, <1>23, <1>24, <1>25, <1>26 DEF ExtNext, TaskNext, Starts

\* The lock goes from install to install, and none is left when the program ends.
LEMMA LockStep ==
    ASSUME ExtIInv, [ExtNext]_extVars
    PROVE  LockInv'
<1> USE StoreAssumption DEF ExtIInv, ExtTyped, Operations, LockInv, LockedSteps, Idle
<1>1. ASSUME NEW t \in Slots, Starts(t) PROVE LockInv'
  BY <1>1, StartsStep DEF ExtIInv
<1>2. ASSUME NEW t \in Slots, ReadList(t) PROVE LockInv'
  BY <1>2 DEF ReadList, ListIsDue, diskVars, tabVars, boundVars, pastVars
<1>3. ASSUME NEW t \in Slots, Answered(t) PROVE LockInv'
  BY <1>3 DEF Answered, ListIsDue, diskVars, tabVars, boundVars, pastVars
<1>4. ASSUME NEW t \in Slots, LockInstall(t) PROVE LockInv'
  BY <1>4 DEF LockInstall, Goes, diskVars, tabVars, boundVars, pastVars
<1>5. ASSUME NEW t \in Slots, Unpack(t) PROVE LockInv'
  BY <1>5 DEF Unpack, Goes, diskVars, tabVars, boundVars, pastVars
<1>6. ASSUME NEW t \in Slots, Reject(t) PROVE LockInv'
  BY <1>6 DEF Reject, Goes, diskVars, tabVars, boundVars, pastVars
<1>7. ASSUME NEW t \in Slots, RemoveFinalDir(t) PROVE LockInv'
  BY <1>7 DEF RemoveFinalDir, Goes, diskVars, tabVars, boundVars, pastVars
<1>8. ASSUME NEW t \in Slots, Rename(t) PROVE LockInv'
  BY <1>8 DEF Rename, Goes, diskVars, tabVars, boundVars, pastVars
<1>9. ASSUME NEW t \in Slots, InstallFails(t) PROVE LockInv'
  BY <1>9 DEF InstallFails, Goes, Losing, diskVars, tabVars, boundVars, pastVars
<1>10. ASSUME NEW t \in Slots, upsert_installed(t) PROVE LockInv'
  BY <1>10 DEF upsert_installed, Goes, Superseded, Installed, diskVars, tabVars, boundVars, pastVars
<1>11. ASSUME NEW t \in Slots, EndInstall(t) PROVE LockInv'
  BY <1>11 DEF EndInstall, Goes, diskVars, tabVars, boundVars, pastVars
<1>12. ASSUME NEW t \in Slots, RemoveEntry(t) PROVE LockInv'
  BY <1>12 DEF RemoveEntry, Goes, diskVars, tabVars, boundVars, pastVars
<1>13. ASSUME NEW t \in Slots, ReadDirs(t) PROVE LockInv'
  BY <1>13 DEF ReadDirs, diskVars, tabVars, boundVars, pastVars
<1>14. ASSUME NEW t \in Slots, RemoveDir(t) PROVE LockInv'
  BY <1>14 DEF RemoveDir, diskVars, tabVars, boundVars, pastVars
<1>15. ASSUME NEW t \in Slots, DeferRemoval(t) PROVE LockInv'
  BY <1>15 DEF DeferRemoval, Goes, diskVars, tabVars, boundVars, pastVars
<1>16. ASSUME NEW t \in Slots, DeferFails(t) PROVE LockInv'
  BY <1>16 DEF DeferFails, Goes, diskVars, tabVars, boundVars, pastVars
<1>17. ASSUME NEW t \in Slots, set_enabled(t) PROVE LockInv'
  BY <1>17 DEF set_enabled, Goes, diskVars, tabVars, boundVars, pastVars
<1>18. ASSUME NEW t \in Slots, UpdateFails(t) PROVE LockInv'
  BY <1>18 DEF UpdateFails, Goes, diskVars, tabVars, boundVars, pastVars
<1>19. ASSUME NEW id \in Ids, LoadLibrary(id) PROVE LockInv'
  BY <1>19 DEF LoadLibrary, diskVars, tabVars, boundVars, pastVars
<1>20. ASSUME NEW id \in Ids, CatalogChanges(id) PROVE LockInv'
  BY <1>20 DEF CatalogChanges, diskVars, tabVars, boundVars, pastVars
<1>21. ASSUME NEW dir \in mapped, ReleaseLibrary(dir) PROVE LockInv'
  BY <1>21 DEF ReleaseLibrary, diskVars, tabVars, boundVars, pastVars
<1>22. CASE refresh
  BY <1>22 DEF refresh, diskVars, tabVars, boundVars, pastVars
<1>23. CASE Refreshed
  BY <1>23 DEF Refreshed, diskVars, tabVars, boundVars, pastVars
<1>24. CASE Exit
  BY <1>24 DEF Exit, Losing, diskVars, tabVars, boundVars, pastVars
<1>25. CASE collect_garbage
  BY <1>25 DEF collect_garbage, diskVars, tabVars, boundVars, pastVars
<1>26. CASE UNCHANGED extVars
  BY <1>26 DEF extVars, diskVars, tabVars, boundVars, pastVars
<1> QED
  BY <1>1, <1>2, <1>3, <1>4, <1>5, <1>6, <1>7, <1>8, <1>9, <1>10, <1>11, <1>12, <1>13, <1>14, <1>15, <1>16, <1>17, <1>18, <1>19, <1>20, <1>21, <1>22, <1>23, <1>24, <1>25, <1>26 DEF ExtNext, TaskNext, Starts

\* What is mended was broken by none that is still there.
LEMMA AloneStep ==
    ASSUME ExtIInv, [ExtNext]_extVars
    PROVE  AloneInv'
<1> USE StoreAssumption DEF ExtIInv, ExtTyped, Operations, OpInv, AloneInv, Idle
<1>1. ASSUME NEW t \in Slots, Starts(t) PROVE AloneInv'
  BY <1>1, StartsStep DEF ExtIInv
<1>2. ASSUME NEW t \in Slots, ReadList(t) PROVE AloneInv'
  BY <1>2 DEF ReadList, ListIsDue, diskVars, tabVars, boundVars, pastVars
<1>3. ASSUME NEW t \in Slots, Answered(t) PROVE AloneInv'
  BY <1>3 DEF Answered, ListIsDue, diskVars, tabVars, boundVars, pastVars
<1>4. ASSUME NEW t \in Slots, LockInstall(t) PROVE AloneInv'
  BY <1>4 DEF LockInstall, Goes, diskVars, tabVars, boundVars, pastVars
<1>5. ASSUME NEW t \in Slots, Unpack(t) PROVE AloneInv'
  BY <1>5 DEF Unpack, Goes, diskVars, tabVars, boundVars, pastVars
<1>6. ASSUME NEW t \in Slots, Reject(t) PROVE AloneInv'
  BY <1>6 DEF Reject, Goes, diskVars, tabVars, boundVars, pastVars
<1>7. ASSUME NEW t \in Slots, RemoveFinalDir(t) PROVE AloneInv'
  BY <1>7 DEF RemoveFinalDir, Goes, diskVars, tabVars, boundVars, pastVars
<1>8. ASSUME NEW t \in Slots, Rename(t) PROVE AloneInv'
  BY <1>8 DEF Rename, Goes, diskVars, tabVars, boundVars, pastVars
<1>9. ASSUME NEW t \in Slots, InstallFails(t) PROVE AloneInv'
  BY <1>9 DEF InstallFails, Goes, Losing, diskVars, tabVars, boundVars, pastVars
<1>10. ASSUME NEW t \in Slots, upsert_installed(t) PROVE AloneInv'
  BY <1>10 DEF upsert_installed, Goes, Superseded, Installed, diskVars, tabVars, boundVars, pastVars
<1>11. ASSUME NEW t \in Slots, EndInstall(t) PROVE AloneInv'
  BY <1>11 DEF EndInstall, Goes, diskVars, tabVars, boundVars, pastVars
<1>12. ASSUME NEW t \in Slots, RemoveEntry(t) PROVE AloneInv'
  BY <1>12 DEF RemoveEntry, Goes, diskVars, tabVars, boundVars, pastVars
<1>13. ASSUME NEW t \in Slots, ReadDirs(t) PROVE AloneInv'
  BY <1>13 DEF ReadDirs, diskVars, tabVars, boundVars, pastVars
<1>14. ASSUME NEW t \in Slots, RemoveDir(t) PROVE AloneInv'
  BY <1>14 DEF RemoveDir, diskVars, tabVars, boundVars, pastVars
<1>15. ASSUME NEW t \in Slots, DeferRemoval(t) PROVE AloneInv'
  BY <1>15 DEF DeferRemoval, Goes, diskVars, tabVars, boundVars, pastVars
<1>16. ASSUME NEW t \in Slots, DeferFails(t) PROVE AloneInv'
  BY <1>16 DEF DeferFails, Goes, diskVars, tabVars, boundVars, pastVars
<1>17. ASSUME NEW t \in Slots, set_enabled(t) PROVE AloneInv'
  BY <1>17 DEF set_enabled, Goes, diskVars, tabVars, boundVars, pastVars
<1>18. ASSUME NEW t \in Slots, UpdateFails(t) PROVE AloneInv'
  BY <1>18 DEF UpdateFails, Goes, diskVars, tabVars, boundVars, pastVars
<1>19. ASSUME NEW id \in Ids, LoadLibrary(id) PROVE AloneInv'
  BY <1>19 DEF LoadLibrary, diskVars, tabVars, boundVars, pastVars
<1>20. ASSUME NEW id \in Ids, CatalogChanges(id) PROVE AloneInv'
  BY <1>20 DEF CatalogChanges, diskVars, tabVars, boundVars, pastVars
<1>21. ASSUME NEW dir \in mapped, ReleaseLibrary(dir) PROVE AloneInv'
  BY <1>21 DEF ReleaseLibrary, diskVars, tabVars, boundVars, pastVars
<1>22. CASE refresh
  BY <1>22 DEF refresh, diskVars, tabVars, boundVars, pastVars
<1>23. CASE Refreshed
  BY <1>23 DEF Refreshed, diskVars, tabVars, boundVars, pastVars
<1>24. CASE Exit
  BY <1>24 DEF Exit, Losing, diskVars, tabVars, boundVars, pastVars
<1>25. CASE collect_garbage
  BY <1>25 DEF collect_garbage, diskVars, tabVars, boundVars, pastVars
<1>26. CASE UNCHANGED extVars
  BY <1>26 DEF extVars, diskVars, tabVars, boundVars, pastVars
<1> QED
  BY <1>1, <1>2, <1>3, <1>4, <1>5, <1>6, <1>7, <1>8, <1>9, <1>10, <1>11, <1>12, <1>13, <1>14, <1>15, <1>16, <1>17, <1>18, <1>19, <1>20, <1>21, <1>22, <1>23, <1>24, <1>25, <1>26 DEF ExtNext, TaskNext, Starts

\* The files of an entry stay, whatever fails or is cut short.
LEMMA EntryStep ==
    ASSUME ExtIInv, [ExtNext]_extVars
    PROVE  EntryInv'
<1> USE StoreAssumption DEF ExtIInv, ExtTyped, Operations, OpInv, LockInv, AloneInv, AloneFindsInv, EntryInv, Idle, final_dir, Entries, NotInstalled
<1>1. ASSUME NEW t \in Slots, Starts(t) PROVE EntryInv'
  BY <1>1, StartsStep DEF ExtIInv
<1>2. ASSUME NEW t \in Slots, ReadList(t) PROVE EntryInv'
  BY <1>2 DEF ReadList, ListIsDue, diskVars, tabVars, boundVars, pastVars
<1>3. ASSUME NEW t \in Slots, Answered(t) PROVE EntryInv'
  BY <1>3 DEF Answered, ListIsDue, diskVars, tabVars, boundVars, pastVars
<1>4. ASSUME NEW t \in Slots, LockInstall(t) PROVE EntryInv'
  BY <1>4 DEF LockInstall, Goes, diskVars, tabVars, boundVars, pastVars
<1>5. ASSUME NEW t \in Slots, Unpack(t) PROVE EntryInv'
  BY <1>5 DEF Unpack, Goes, diskVars, tabVars, boundVars, pastVars
<1>6. ASSUME NEW t \in Slots, Reject(t) PROVE EntryInv'
  BY <1>6 DEF Reject, Goes, diskVars, tabVars, boundVars, pastVars
<1>7. ASSUME NEW t \in Slots, RemoveFinalDir(t) PROVE EntryInv'
  BY SMTT(30), <1>7 DEF RemoveFinalDir, Goes, diskVars, tabVars, boundVars, pastVars
<1>8. ASSUME NEW t \in Slots, Rename(t) PROVE EntryInv'
  BY <1>8 DEF Rename, Goes, diskVars, tabVars, boundVars, pastVars
<1>9. ASSUME NEW t \in Slots, InstallFails(t) PROVE EntryInv'
  BY <1>9 DEF InstallFails, Goes, Losing, diskVars, tabVars, boundVars, pastVars
<1>10. ASSUME NEW t \in Slots, upsert_installed(t) PROVE EntryInv'
  <2>1. op[t].id \in Ids /\ op[t].version \in Versions /\ install_lock = t
    BY <1>10 DEF upsert_installed, LockedSteps
  <2>2. registry' = [registry EXCEPT ![op[t].id] = Installed(op[t].version)] /\ dirs' = dirs
    BY <1>10 DEF upsert_installed
  <2>3. \A u \in Slots : op'[u].id = op[u].id /\ op'[u].version = op[u].version
                        /\ (u # t => op'[u].at = op[u].at)
    BY <1>10 DEF upsert_installed, Goes
  <2>4. ASSUME NEW id \in Ids, id \notin broken', registry'[id] # NotInstalled
        PROVE  \/ <<id, registry'[id].version>> \in dirs'
               \/ \E u \in Slots : /\ op'[u].id = id /\ op'[u].at = "cleared"
                                   /\ op'[u].version = registry'[id].version
    <3>1. CASE id = op[t].id
      <4>1. op[t].alone
        BY <1>10, <2>4, <3>1 DEF upsert_installed
      <4>2. final_dir(t) \in dirs
        BY <1>10, <4>1 DEF upsert_installed
      <4>3. registry'[id].version = op[t].version
        BY <2>1, <2>2, <3>1 DEF Installed
      <4> QED
        BY <2>2, <3>1, <4>2, <4>3
    <3>2. CASE id # op[t].id
      <4>1. id \notin broken /\ registry'[id] = registry[id]
        BY <1>10, <2>2, <2>4, <3>2 DEF upsert_installed
      <4>2. \/ <<id, registry[id].version>> \in dirs
            \/ \E u \in Slots : op[u].id = id /\ op[u].at = "cleared" /\ op[u].version = registry[id].version
        BY <2>4, <4>1
      <4> QED
        BY <2>2, <2>3, <3>2, <4>1, <4>2
    <3> QED
      BY <3>1, <3>2
  <2> QED
    BY <2>4
<1>11. ASSUME NEW t \in Slots, EndInstall(t) PROVE EntryInv'
  BY <1>11 DEF EndInstall, Goes, diskVars, tabVars, boundVars, pastVars
<1>12. ASSUME NEW t \in Slots, RemoveEntry(t) PROVE EntryInv'
  <2>1. registry' = [registry EXCEPT ![op[t].id] = NotInstalled] /\ dirs' = dirs /\ broken' = broken
    BY <1>12 DEF RemoveEntry, pastVars
  <2>2. \A u \in Slots : op'[u].id = op[u].id /\ op'[u].version = op[u].version
                        /\ (op[u].at = "cleared" => op'[u].at = "cleared")
    BY <1>12 DEF RemoveEntry, Goes
  <2>3. \A id \in Ids : registry'[id] # NotInstalled => registry'[id] = registry[id]
    BY <2>1
  <2> QED
    <3> HIDE DEF NotInstalled, Entries, ExtTyped, Operations, OpInv, LockInv, AloneInv, AloneFindsInv, Idle
    <3> QED
      BY <2>1, <2>2, <2>3
<1>13. ASSUME NEW t \in Slots, ReadDirs(t) PROVE EntryInv'
  BY <1>13 DEF ReadDirs, diskVars, tabVars, boundVars, pastVars
<1>14. ASSUME NEW t \in Slots, RemoveDir(t) PROVE EntryInv'
  <2>1. PICK dir \in op[t].rest : dirs' = IF Removable(dir) THEN dirs \ {dir} ELSE dirs
    BY <1>14 DEF RemoveDir
  <2>2. registry' = registry /\ broken' = broken /\ op[t].at = "removing"
    BY <1>14 DEF RemoveDir, pastVars
  <2>3. dir[1] = op[t].id
    BY <2>1, <2>2
  <2>4. \A u \in Slots : op'[u].id = op[u].id /\ op'[u].version = op[u].version /\ op'[u].at = op[u].at
    BY <1>14 DEF RemoveDir
  <2>5. ASSUME NEW id \in Ids, id \notin broken, registry[id] # NotInstalled
        PROVE  dir # <<id, registry[id].version>>
    <3>1. op[t].id = id => op[t].alone
      BY <2>5 DEF AloneInv
    <3>2. op[t].alone => registry[op[t].id] = NotInstalled
      BY <2>2 DEF AloneFindsInv
    <3> QED
      BY <2>3, <2>5, <3>1, <3>2
  <2>6. ASSUME NEW id \in Ids, id \notin broken', registry'[id] # NotInstalled
        PROVE  \/ <<id, registry'[id].version>> \in dirs'
               \/ \E u \in Slots : /\ op'[u].id = id /\ op'[u].at = "cleared"
                                   /\ op'[u].version = registry'[id].version
    <3>1. id \notin broken /\ registry[id] # NotInstalled
      BY <2>2, <2>6
    <3>2. CASE <<id, registry[id].version>> \in dirs
      BY <2>1, <2>2, <2>5, <3>1, <3>2
    <3>3. CASE \E u \in Slots : op[u].id = id /\ op[u].at = "cleared" /\ op[u].version = registry[id].version
      BY <2>2, <2>4, <3>3
    <3> QED
      BY <3>1, <3>2, <3>3
  <2> QED
    BY <2>6
<1>15. ASSUME NEW t \in Slots, DeferRemoval(t) PROVE EntryInv'
  <2>1. registry' = registry /\ dirs' = dirs /\ op[t].at = "removing"
        /\ broken' = IF op[t].alone THEN broken \ {op[t].id} ELSE broken
    BY <1>15 DEF DeferRemoval
  <2>2. \A u \in Slots : op'[u].id = op[u].id /\ op'[u].version = op[u].version
                        /\ (op[u].at = "cleared" => op'[u].at = "cleared")
    BY <1>15 DEF DeferRemoval, Goes
  <2>3. op[t].alone => registry[op[t].id] = NotInstalled
    BY <2>1
  <2> QED
    BY <2>1, <2>2, <2>3
<1>16. ASSUME NEW t \in Slots, DeferFails(t) PROVE EntryInv'
  BY <1>16 DEF DeferFails, Goes, diskVars, tabVars, boundVars, pastVars
<1>17. ASSUME NEW t \in Slots, set_enabled(t) PROVE EntryInv'
  <2>1. dirs' = dirs /\ broken' = broken /\ op[t].id \in Ids
    BY <1>17 DEF set_enabled, pastVars
  <2>2. \A u \in Slots : op'[u].id = op[u].id /\ op'[u].version = op[u].version
                        /\ (op[u].at = "cleared" => op'[u].at = "cleared")
    BY <1>17 DEF set_enabled, Goes
  <2>3. \A id \in Ids : /\ registry'[id].version = registry[id].version
                        /\ registry[id] = NotInstalled => registry'[id] = NotInstalled
    <3> HIDE DEF NotInstalled
    <3> QED
      BY <1>17, <2>1, EnablingMeans
  <2>4. ASSUME NEW id \in Ids, id \notin broken', registry'[id] # NotInstalled
        PROVE  \/ <<id, registry'[id].version>> \in dirs'
               \/ \E u \in Slots : /\ op'[u].id = id /\ op'[u].at = "cleared"
                                   /\ op'[u].version = registry'[id].version
    <3> HIDE DEF NotInstalled, Entries, ExtTyped, Operations, OpInv, LockInv, AloneInv, AloneFindsInv, Idle, final_dir
    <3>1. id \notin broken /\ registry[id] # NotInstalled
      BY <2>1, <2>3, <2>4
    <3>2. CASE <<id, registry[id].version>> \in dirs
      BY <2>1, <2>3, <3>2
    <3>3. CASE \E u \in Slots : op[u].id = id /\ op[u].at = "cleared" /\ op[u].version = registry[id].version
      BY <2>2, <2>3, <3>3
    <3> QED
      BY <3>1, <3>2, <3>3
  <2> QED
    BY <2>4
<1>18. ASSUME NEW t \in Slots, UpdateFails(t) PROVE EntryInv'
  BY <1>18 DEF UpdateFails, Goes, diskVars, tabVars, boundVars, pastVars
<1>19. ASSUME NEW id \in Ids, LoadLibrary(id) PROVE EntryInv'
  BY <1>19 DEF LoadLibrary, diskVars, tabVars, boundVars, pastVars
<1>20. ASSUME NEW id \in Ids, CatalogChanges(id) PROVE EntryInv'
  BY <1>20 DEF CatalogChanges, diskVars, tabVars, boundVars, pastVars
<1>21. ASSUME NEW dir \in mapped, ReleaseLibrary(dir) PROVE EntryInv'
  BY <1>21 DEF ReleaseLibrary, diskVars, tabVars, boundVars, pastVars
<1>22. CASE refresh
  BY <1>22 DEF refresh, diskVars, tabVars, boundVars, pastVars
<1>23. CASE Refreshed
  BY <1>23 DEF Refreshed, diskVars, tabVars, boundVars, pastVars
<1>24. CASE Exit
  BY <1>24 DEF Exit, Losing, diskVars, tabVars, boundVars, pastVars
<1>25. CASE collect_garbage
  BY <1>25 DEF collect_garbage, diskVars, tabVars, boundVars, pastVars
<1>26. CASE UNCHANGED extVars
  BY <1>26 DEF extVars, diskVars, tabVars, boundVars, pastVars
<1> QED
  BY <1>1, <1>2, <1>3, <1>4, <1>5, <1>6, <1>7, <1>8, <1>9, <1>10, <1>11, <1>12, <1>13, <1>14, <1>15, <1>16, <1>17, <1>18, <1>19, <1>20, <1>21, <1>22, <1>23, <1>24, <1>25, <1>26 DEF ExtNext, TaskNext, Starts

\* No operation on another extension takes from one that is alone what it left.
LEMMA AloneFindsStep ==
    ASSUME ExtIInv, [ExtNext]_extVars
    PROVE  AloneFindsInv'
<1> USE StoreAssumption DEF ExtIInv, ExtTyped, Operations, OpInv, LockInv, AloneInv, AloneFindsInv, Idle, final_dir, NotInstalled, DirsOf
<1>1. ASSUME NEW t \in Slots, Starts(t) PROVE AloneFindsInv'
  BY <1>1, StartsStep DEF ExtIInv
<1>2. ASSUME NEW t \in Slots, ReadList(t) PROVE AloneFindsInv'
  BY <1>2 DEF ReadList, ListIsDue, diskVars, tabVars, boundVars, pastVars
<1>3. ASSUME NEW t \in Slots, Answered(t) PROVE AloneFindsInv'
  BY <1>3 DEF Answered, ListIsDue, diskVars, tabVars, boundVars, pastVars
<1>4. ASSUME NEW t \in Slots, LockInstall(t) PROVE AloneFindsInv'
  BY <1>4 DEF LockInstall, Goes, diskVars, tabVars, boundVars, pastVars
<1>5. ASSUME NEW t \in Slots, Unpack(t) PROVE AloneFindsInv'
  BY <1>5 DEF Unpack, Goes, diskVars, tabVars, boundVars, pastVars
<1>6. ASSUME NEW t \in Slots, Reject(t) PROVE AloneFindsInv'
  BY <1>6 DEF Reject, Goes, diskVars, tabVars, boundVars, pastVars
<1>7. ASSUME NEW t \in Slots, RemoveFinalDir(t) PROVE AloneFindsInv'
  BY <1>7 DEF RemoveFinalDir, Goes, diskVars, tabVars, boundVars, pastVars
<1>8. ASSUME NEW t \in Slots, Rename(t) PROVE AloneFindsInv'
  BY <1>8 DEF Rename, Goes, diskVars, tabVars, boundVars, pastVars
<1>9. ASSUME NEW t \in Slots, InstallFails(t) PROVE AloneFindsInv'
  BY <1>9 DEF InstallFails, Goes, Losing, diskVars, tabVars, boundVars, pastVars
<1>10. ASSUME NEW t \in Slots, upsert_installed(t) PROVE AloneFindsInv'
  BY <1>10 DEF upsert_installed, Goes, Superseded, Installed, diskVars, tabVars, boundVars, pastVars
<1>11. ASSUME NEW t \in Slots, EndInstall(t) PROVE AloneFindsInv'
  BY <1>11 DEF EndInstall, Goes, diskVars, tabVars, boundVars, pastVars
<1>12. ASSUME NEW t \in Slots, RemoveEntry(t) PROVE AloneFindsInv'
  BY <1>12 DEF RemoveEntry, Goes, diskVars, tabVars, boundVars, pastVars
<1>13. ASSUME NEW t \in Slots, ReadDirs(t) PROVE AloneFindsInv'
  BY <1>13 DEF ReadDirs, diskVars, tabVars, boundVars, pastVars
<1>14. ASSUME NEW t \in Slots, RemoveDir(t) PROVE AloneFindsInv'
  BY <1>14 DEF RemoveDir, diskVars, tabVars, boundVars, pastVars
<1>15. ASSUME NEW t \in Slots, DeferRemoval(t) PROVE AloneFindsInv'
  BY <1>15 DEF DeferRemoval, Goes, diskVars, tabVars, boundVars, pastVars
<1>16. ASSUME NEW t \in Slots, DeferFails(t) PROVE AloneFindsInv'
  BY <1>16 DEF DeferFails, Goes, diskVars, tabVars, boundVars, pastVars
<1>17. ASSUME NEW t \in Slots, set_enabled(t) PROVE AloneFindsInv'
  BY <1>17 DEF set_enabled, Goes, diskVars, tabVars, boundVars, pastVars
<1>18. ASSUME NEW t \in Slots, UpdateFails(t) PROVE AloneFindsInv'
  BY <1>18 DEF UpdateFails, Goes, diskVars, tabVars, boundVars, pastVars
<1>19. ASSUME NEW id \in Ids, LoadLibrary(id) PROVE AloneFindsInv'
  BY <1>19 DEF LoadLibrary, diskVars, tabVars, boundVars, pastVars
<1>20. ASSUME NEW id \in Ids, CatalogChanges(id) PROVE AloneFindsInv'
  BY <1>20 DEF CatalogChanges, diskVars, tabVars, boundVars, pastVars
<1>21. ASSUME NEW dir \in mapped, ReleaseLibrary(dir) PROVE AloneFindsInv'
  BY <1>21 DEF ReleaseLibrary, diskVars, tabVars, boundVars, pastVars
<1>22. CASE refresh
  BY <1>22 DEF refresh, diskVars, tabVars, boundVars, pastVars
<1>23. CASE Refreshed
  BY <1>23 DEF Refreshed, diskVars, tabVars, boundVars, pastVars
<1>24. CASE Exit
  BY <1>24 DEF Exit, Losing, diskVars, tabVars, boundVars, pastVars
<1>25. CASE collect_garbage
  BY <1>25 DEF collect_garbage, diskVars, tabVars, boundVars, pastVars
<1>26. CASE UNCHANGED extVars
  BY <1>26 DEF extVars, diskVars, tabVars, boundVars, pastVars
<1> QED
  BY <1>1, <1>2, <1>3, <1>4, <1>5, <1>6, <1>7, <1>8, <1>9, <1>10, <1>11, <1>12, <1>13, <1>14, <1>15, <1>16, <1>17, <1>18, <1>19, <1>20, <1>21, <1>22, <1>23, <1>24, <1>25, <1>26 DEF ExtNext, TaskNext, Starts

\* What no entry names is removed, listed for the next launch, or was left by an operation cut short.
LEMMA LitterStep ==
    ASSUME ExtIInv, [ExtNext]_extVars
    PROVE  LitterInv'
<1> USE StoreAssumption DEF ExtIInv, ExtTyped, Operations, OpInv, LockInv, AloneInv, AloneFindsInv, LitterInv, Idle, final_dir, NotInstalled, DirsOf, Directories
<1>1. ASSUME NEW t \in Slots, Starts(t) PROVE LitterInv'
  BY <1>1, StartsStep DEF ExtIInv
<1>2. ASSUME NEW t \in Slots, ReadList(t) PROVE LitterInv'
  BY <1>2 DEF ReadList, ListIsDue, diskVars, tabVars, boundVars, pastVars
<1>3. ASSUME NEW t \in Slots, Answered(t) PROVE LitterInv'
  BY <1>3 DEF Answered, ListIsDue, diskVars, tabVars, boundVars, pastVars
<1>4. ASSUME NEW t \in Slots, LockInstall(t) PROVE LitterInv'
  BY <1>4 DEF LockInstall, Goes, diskVars, tabVars, boundVars, pastVars
<1>5. ASSUME NEW t \in Slots, Unpack(t) PROVE LitterInv'
  BY <1>5 DEF Unpack, Goes, diskVars, tabVars, boundVars, pastVars
<1>6. ASSUME NEW t \in Slots, Reject(t) PROVE LitterInv'
  BY <1>6 DEF Reject, Goes, diskVars, tabVars, boundVars, pastVars
<1>7. ASSUME NEW t \in Slots, RemoveFinalDir(t) PROVE LitterInv'
  BY <1>7 DEF RemoveFinalDir, Goes, diskVars, tabVars, boundVars, pastVars
<1>8. ASSUME NEW t \in Slots, Rename(t) PROVE LitterInv'
  BY <1>8 DEF Rename, Goes, diskVars, tabVars, boundVars, pastVars
<1>9. ASSUME NEW t \in Slots, InstallFails(t) PROVE LitterInv'
  BY <1>9 DEF InstallFails, Goes, Losing, diskVars, tabVars, boundVars, pastVars
<1>10. ASSUME NEW t \in Slots, upsert_installed(t) PROVE LitterInv'
  BY <1>10 DEF upsert_installed, Goes, Superseded, Installed, diskVars, tabVars, boundVars, pastVars
<1>11. ASSUME NEW t \in Slots, EndInstall(t) PROVE LitterInv'
  BY <1>11 DEF EndInstall, Goes, diskVars, tabVars, boundVars, pastVars
<1>12. ASSUME NEW t \in Slots, RemoveEntry(t) PROVE LitterInv'
  BY <1>12 DEF RemoveEntry, Goes, diskVars, tabVars, boundVars, pastVars
<1>13. ASSUME NEW t \in Slots, ReadDirs(t) PROVE LitterInv'
  BY <1>13 DEF ReadDirs, diskVars, tabVars, boundVars, pastVars
<1>14. ASSUME NEW t \in Slots, RemoveDir(t) PROVE LitterInv'
  BY <1>14 DEF RemoveDir, diskVars, tabVars, boundVars, pastVars
<1>15. ASSUME NEW t \in Slots, DeferRemoval(t) PROVE LitterInv'
  <2>1. /\ registry' = registry /\ dirs' = dirs /\ op[t].at = "removing" /\ op[t].rest = {}
        /\ pending_removal' = pending_removal \cup op[t].deferred
        /\ littered' = IF op[t].alone THEN littered \ {op[t].id} ELSE littered
    BY <1>15 DEF DeferRemoval
  <2>2. \A u \in Slots \ {t} : op'[u] = op[u]
    BY <1>15 DEF DeferRemoval, Goes
  <2>3. op[t].alone => \A d \in dirs : d[1] = op[t].id => d \in op[t].deferred
    BY <2>1 DEF DirsOf
  <2>4. ~op[t].alone => op[t].id \in littered
    OBVIOUS
  <2> QED
    BY <2>1, <2>2, <2>3, <2>4
<1>16. ASSUME NEW t \in Slots, DeferFails(t) PROVE LitterInv'
  BY <1>16 DEF DeferFails, Goes, diskVars, tabVars, boundVars, pastVars
<1>17. ASSUME NEW t \in Slots, set_enabled(t) PROVE LitterInv'
  <2>1. UNCHANGED <<dirs, pending_removal, littered>> /\ op[t].id \in Ids
    BY <1>17 DEF set_enabled, pastVars
  <2>2. \A u \in Slots : op'[u].id = op[u].id /\ op'[u].version = op[u].version
                        /\ (u = t \/ op'[u].at = op[u].at)
    BY <1>17 DEF set_enabled, Goes
  <2>3. \A id \in Ids : registry'[id].version = registry[id].version
    <3> HIDE DEF NotInstalled
    <3> QED
      BY <1>17, <2>1, EnablingMeans
  <2>4. op[t].at = "asked"
    BY <1>17 DEF set_enabled
  <2>5. ASSUME NEW d \in dirs'
        PROVE  \/ d[1] \in littered' \/ d \in pending_removal' \/ d = <<d[1], registry'[d[1]].version>>
               \/ \E u \in Slots : /\ op'[u].id = d[1]
                                   /\ \/ op'[u].at = "renamed" /\ d = final_dir(u)'
                                      \/ op'[u].at \in {"unlisted", "removing"}
    <3>1. d \in dirs /\ d[1] \in Ids
      BY <2>1, <2>5 DEF Directories
    <3>2. CASE d[1] \in littered \/ d \in pending_removal \/ d = <<d[1], registry[d[1]].version>>
      BY <2>1, <2>3, <3>1, <3>2
    <3>3. CASE \E u \in Slots : /\ op[u].id = d[1]
                               /\ \/ op[u].at = "renamed" /\ d = final_dir(u)
                                  \/ op[u].at \in {"unlisted", "removing"}
      BY <2>2, <2>4, <3>3
    <3> QED
      BY <3>1, <3>2, <3>3
  <2> QED
    BY <2>5
<1>18. ASSUME NEW t \in Slots, UpdateFails(t) PROVE LitterInv'
  BY <1>18 DEF UpdateFails, Goes, diskVars, tabVars, boundVars, pastVars
<1>19. ASSUME NEW id \in Ids, LoadLibrary(id) PROVE LitterInv'
  BY <1>19 DEF LoadLibrary, diskVars, tabVars, boundVars, pastVars
<1>20. ASSUME NEW id \in Ids, CatalogChanges(id) PROVE LitterInv'
  BY <1>20 DEF CatalogChanges, diskVars, tabVars, boundVars, pastVars
<1>21. ASSUME NEW dir \in mapped, ReleaseLibrary(dir) PROVE LitterInv'
  BY <1>21 DEF ReleaseLibrary, diskVars, tabVars, boundVars, pastVars
<1>22. CASE refresh
  BY <1>22 DEF refresh, diskVars, tabVars, boundVars, pastVars
<1>23. CASE Refreshed
  BY <1>23 DEF Refreshed, diskVars, tabVars, boundVars, pastVars
<1>24. CASE Exit
  BY <1>24 DEF Exit, Losing, diskVars, tabVars, boundVars, pastVars
<1>25. CASE collect_garbage
  BY <1>25 DEF collect_garbage, diskVars, tabVars, boundVars, pastVars
<1>26. CASE UNCHANGED extVars
  BY <1>26 DEF extVars, diskVars, tabVars, boundVars, pastVars
<1> QED
  BY <1>1, <1>2, <1>3, <1>4, <1>5, <1>6, <1>7, <1>8, <1>9, <1>10, <1>11, <1>12, <1>13, <1>14, <1>15, <1>16, <1>17, <1>18, <1>19, <1>20, <1>21, <1>22, <1>23, <1>24, <1>25, <1>26 DEF ExtNext, TaskNext, Starts

\* What is half unpacked belongs to the install under way.
LEMMA StagingStep ==
    ASSUME ExtIInv, [ExtNext]_extVars
    PROVE  StagingIsCleared'
<1> USE StoreAssumption DEF ExtIInv, ExtTyped, Operations, LockInv, StagingIsCleared, LockedSteps, Idle
<1>1. ASSUME NEW t \in Slots, Starts(t) PROVE StagingIsCleared'
  BY <1>1, StartsStep DEF ExtIInv
<1>2. ASSUME NEW t \in Slots, ReadList(t) PROVE StagingIsCleared'
  BY <1>2 DEF ReadList, ListIsDue, diskVars, tabVars, boundVars, pastVars
<1>3. ASSUME NEW t \in Slots, Answered(t) PROVE StagingIsCleared'
  BY <1>3 DEF Answered, ListIsDue, diskVars, tabVars, boundVars, pastVars
<1>4. ASSUME NEW t \in Slots, LockInstall(t) PROVE StagingIsCleared'
  BY <1>4 DEF LockInstall, Goes, diskVars, tabVars, boundVars, pastVars
<1>5. ASSUME NEW t \in Slots, Unpack(t) PROVE StagingIsCleared'
  BY <1>5 DEF Unpack, Goes, diskVars, tabVars, boundVars, pastVars
<1>6. ASSUME NEW t \in Slots, Reject(t) PROVE StagingIsCleared'
  BY <1>6 DEF Reject, Goes, diskVars, tabVars, boundVars, pastVars
<1>7. ASSUME NEW t \in Slots, RemoveFinalDir(t) PROVE StagingIsCleared'
  BY <1>7 DEF RemoveFinalDir, Goes, diskVars, tabVars, boundVars, pastVars
<1>8. ASSUME NEW t \in Slots, Rename(t) PROVE StagingIsCleared'
  BY <1>8 DEF Rename, Goes, diskVars, tabVars, boundVars, pastVars
<1>9. ASSUME NEW t \in Slots, InstallFails(t) PROVE StagingIsCleared'
  BY <1>9 DEF InstallFails, Goes, Losing, diskVars, tabVars, boundVars, pastVars
<1>10. ASSUME NEW t \in Slots, upsert_installed(t) PROVE StagingIsCleared'
  BY <1>10 DEF upsert_installed, Goes, Superseded, Installed, diskVars, tabVars, boundVars, pastVars
<1>11. ASSUME NEW t \in Slots, EndInstall(t) PROVE StagingIsCleared'
  BY <1>11 DEF EndInstall, Goes, diskVars, tabVars, boundVars, pastVars
<1>12. ASSUME NEW t \in Slots, RemoveEntry(t) PROVE StagingIsCleared'
  BY <1>12 DEF RemoveEntry, Goes, diskVars, tabVars, boundVars, pastVars
<1>13. ASSUME NEW t \in Slots, ReadDirs(t) PROVE StagingIsCleared'
  BY <1>13 DEF ReadDirs, diskVars, tabVars, boundVars, pastVars
<1>14. ASSUME NEW t \in Slots, RemoveDir(t) PROVE StagingIsCleared'
  BY <1>14 DEF RemoveDir, diskVars, tabVars, boundVars, pastVars
<1>15. ASSUME NEW t \in Slots, DeferRemoval(t) PROVE StagingIsCleared'
  BY <1>15 DEF DeferRemoval, Goes, diskVars, tabVars, boundVars, pastVars
<1>16. ASSUME NEW t \in Slots, DeferFails(t) PROVE StagingIsCleared'
  BY <1>16 DEF DeferFails, Goes, diskVars, tabVars, boundVars, pastVars
<1>17. ASSUME NEW t \in Slots, set_enabled(t) PROVE StagingIsCleared'
  BY <1>17 DEF set_enabled, Goes, diskVars, tabVars, boundVars, pastVars
<1>18. ASSUME NEW t \in Slots, UpdateFails(t) PROVE StagingIsCleared'
  BY <1>18 DEF UpdateFails, Goes, diskVars, tabVars, boundVars, pastVars
<1>19. ASSUME NEW id \in Ids, LoadLibrary(id) PROVE StagingIsCleared'
  BY <1>19 DEF LoadLibrary, diskVars, tabVars, boundVars, pastVars
<1>20. ASSUME NEW id \in Ids, CatalogChanges(id) PROVE StagingIsCleared'
  BY <1>20 DEF CatalogChanges, diskVars, tabVars, boundVars, pastVars
<1>21. ASSUME NEW dir \in mapped, ReleaseLibrary(dir) PROVE StagingIsCleared'
  BY <1>21 DEF ReleaseLibrary, diskVars, tabVars, boundVars, pastVars
<1>22. CASE refresh
  BY <1>22 DEF refresh, diskVars, tabVars, boundVars, pastVars
<1>23. CASE Refreshed
  BY <1>23 DEF Refreshed, diskVars, tabVars, boundVars, pastVars
<1>24. CASE Exit
  BY <1>24 DEF Exit, Losing, diskVars, tabVars, boundVars, pastVars
<1>25. CASE collect_garbage
  BY <1>25 DEF collect_garbage, diskVars, tabVars, boundVars, pastVars
<1>26. CASE UNCHANGED extVars
  BY <1>26 DEF extVars, diskVars, tabVars, boundVars, pastVars
<1> QED
  BY <1>1, <1>2, <1>3, <1>4, <1>5, <1>6, <1>7, <1>8, <1>9, <1>10, <1>11, <1>12, <1>13, <1>14, <1>15, <1>16, <1>17, <1>18, <1>19, <1>20, <1>21, <1>22, <1>23, <1>24, <1>25, <1>26 DEF ExtNext, TaskNext, Starts

\* The invariant holds at the first launch, and every step keeps it.
LEMMA ExtInitially == ExtInit => ExtIInv
<1> SUFFICES ASSUME ExtInit PROVE ExtIInv
  OBVIOUS
<1>1. op \in [Slots -> Operations] /\ \A t \in Slots : op[t].at = "idle" /\ op[t].id = Nobody /\ op[t].alone
  BY IdleTyped DEF ExtInit, Idle
<1>2. registry \in [Ids -> Entries] /\ \A id \in Ids : registry[id] # NotInstalled => registry[id].version \in Versions
  <2>1. \A v \in Versions : /\ Installed(v) \in [version : Versions, enabled : BOOLEAN]
                            /\ Installed(v).version = v
    BY DEF Installed
  <2> QED
    BY <2>1 DEF ExtInit, Entries
<1>3. dirs = {<<id, registry[id].version>> : id \in {i \in Ids : registry[i] # NotInstalled}}
  BY DEF ExtInit
<1>4. ExtTyped
  BY <1>1, <1>2, <1>3 DEF ExtInit, ExtTyped, Directories
<1>5. OpInv /\ AloneInv /\ AloneFindsInv
  BY <1>1 DEF OpInv, AloneInv, AloneFindsInv
<1>6. LockInv /\ StagingIsCleared
  BY <1>1, StoreAssumption DEF ExtInit, LockInv, LockedSteps, StagingIsCleared
<1>7. EntryInv /\ LitterInv
  BY <1>3 DEF EntryInv, LitterInv
<1> QED
  BY <1>4, <1>5, <1>6, <1>7 DEF ExtIInv

\* The invariant holds in every state.
LEMMA ExtInvariant == ExtSpec => []ExtIInv
<1>1. ExtIInv /\ [ExtNext]_extVars => ExtIInv'
  BY TypedStep, OpStep, LockStep, AloneStep, EntryStep, AloneFindsStep, LitterStep, StagingStep
     DEF ExtIInv
<1> QED
  BY ExtInitially, <1>1, PTL DEF ExtSpec

\* For any number of extensions, versions and operations: an extension no operation is
\* under way on has the files its entry names and no others but those listed for
\* removal, whatever failed or was cut short before, unless it is broken or littered;
\* and what is half unpacked belongs to the install under way.
THEOREM ExtensionsStaySound == ExtSpec => []ExtensionsAreSound
<1>1. ASSUME ExtIInv PROVE FilesFollowEntries
  <2> SUFFICES ASSUME NEW id \in Ids, AtRest(id)
               PROVE  /\ id \notin broken /\ registry[id] # NotInstalled =>
                            <<id, registry[id].version>> \in dirs
                      /\ id \notin littered =>
                            DirsOf(id) \subseteq pending_removal \cup {<<id, registry[id].version>>}
    BY DEF FilesFollowEntries
  <2>1. \A t \in Slots : op[t].id # id
    BY DEF AtRest
  <2>2. id \notin broken /\ registry[id] # NotInstalled => <<id, registry[id].version>> \in dirs
    BY <1>1, <2>1 DEF ExtIInv, EntryInv
  <2>3. id \notin littered => DirsOf(id) \subseteq pending_removal \cup {<<id, registry[id].version>>}
    BY <1>1, <2>1 DEF ExtIInv, LitterInv, DirsOf
  <2> QED
    BY <2>2, <2>3
<1>2. ExtIInv => ExtensionsAreSound
  BY <1>1 DEF ExtIInv, ExtensionsAreSound
<1> QED
  BY ExtInvariant, <1>2, PTL
====
