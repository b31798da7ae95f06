--------------------------- MODULE ExtensionStore ---------------------------
(***************************************************************************)
(* Extensions on disk (extensions/store.rs): a directory for every version *)
(* of every extension, and the registry file that names the version of     *)
(* each that is installed and the directories to delete at the next launch.*)
(* The settings tab (ExtensionsTab.tsx) starts operations on it, which run *)
(* beside each other and may be cut short at any step by an error or by    *)
(* the end of the program.  What survives that is `registry`,              *)
(* `pending_removal`, `dirs` and `staging`.                                *)
(*                                                                         *)
(* The registry is read, changed and written under a lock of its own, and  *)
(* written to a temporary file that replaces it, so each update is one     *)
(* step.  A library a connection has loaded is `mapped`; where the system  *)
(* locks such files, its directory cannot be removed.                      *)
(***************************************************************************)
EXTENDS Integers, FiniteSets

CONSTANTS Ids,            (* extensions                                    *)
          Versions,       (* versions of one; 0 stands for none            *)
          Slots,          (* operations of the tab in flight               *)
          Nobody,         (* no extension, no operation                    *)
          LibrariesLock,  (* a mapped library cannot be removed            *)
          MaxOperations,  (* bound of operations started and connections   *)
          MaxEvents       (* bound of releases, exits and refreshes        *)

ASSUME StoreAssumption ==
    /\ Versions \subseteq Nat \ {0} /\ Versions # {}
    /\ Nobody \notin Ids /\ Nobody \notin Slots
    /\ LibrariesLock \in BOOLEAN
    /\ MaxOperations \in Nat /\ MaxEvents \in Nat

VARIABLES registry, pending_removal, dirs, staging,       (* on disk       *)
          running, install_lock, mapped, op,               (* the backend   *)
          catalog, shown, refreshing, operationId,         (* the tab       *)
          operations, events,                              (* bounds        *)
          broken, littered                                 (* history       *)

diskVars  == <<registry, pending_removal, dirs, staging>>
tabVars   == <<catalog, shown, refreshing, operationId>>
boundVars == <<operations, events>>
pastVars  == <<broken, littered>>
extVars   == <<diskVars, running, install_lock, mapped, op, tabVars, boundVars, pastVars>>

\* `rest` is what an operation has yet to do: the updates of a batch, or the
\* directories of an uninstall; `deferred`, the directories it could not remove;
\* `list`, the answer to the list asked for when it is over.
NoList == << >>

Idle == [kind |-> "none", at |-> "idle", id |-> Nobody, version |-> 0, rest |-> {},
         deferred |-> {}, list |-> NoList, alone |-> TRUE]

NotInstalled == [version |-> 0, enabled |-> FALSE]
Installed(version) == [version |-> version, enabled |-> TRUE]

DirsOf(id) == {d \in dirs : d[1] = id}

Removable(dir) == dir \notin mapped \/ ~LibrariesLock

-----------------------------------------------------------------------------
(* The tab.  `shown` is its list of what is installed, `operationId` the one *)
(* extension whose buttons are off: the last one an operation was started    *)
(* for, and none once any operation has ended.                               *)

Updatable(id) == shown[id].version # 0 /\ catalog[id] > shown[id].version

\* t begins with an operation on id; the history remembers who is disturbed.
Begin(t, operation) ==
    LET others == {u \in Slots \ {t} : op[u].id = operation.id}
    IN  /\ op' = [u \in Slots |->
                    IF u = t THEN [operation EXCEPT !.alone = (others = {})]
                    ELSE IF u \in others THEN [op[u] EXCEPT !.alone = FALSE] ELSE op[u]]
        /\ IF others = {} THEN UNCHANGED pastVars
           ELSE broken' = broken \cup {operation.id} /\ littered' = littered \cup {operation.id}
        /\ operationId' = operation.id

Click(t, operation) ==
    /\ running /\ op[t].at = "idle" /\ operations < MaxOperations
    /\ operations' = operations + 1
    /\ Begin(t, operation)
    /\ UNCHANGED <<diskVars, running, install_lock, mapped, catalog, shown, refreshing, events>>

installOrUpdate(t, id) ==
    /\ operationId # id
    /\ shown[id].version = 0 \/ Updatable(id)
    /\ Click(t, [Idle EXCEPT !.kind = "install", !.at = "queued", !.id = id,
                             !.version = catalog[id]])

\* One after another, in an order the list decides; the versions are those of now.
updateAll(t) ==
    /\ operationId = Nobody
    /\ \E id \in Ids :
          /\ Updatable(id)
          /\ Click(t, [Idle EXCEPT !.kind = "batch", !.at = "queued", !.id = id,
                !.version = catalog[id],
                !.rest = {<<i, catalog[i]>> : i \in {j \in Ids \ {id} : Updatable(j)}}])

uninstallExtension(t, id) ==
    /\ operationId # id /\ shown[id].version # 0
    /\ Click(t, [Idle EXCEPT !.kind = "uninstall", !.at = "asked", !.id = id])

toggleExtension(t, id) ==
    /\ operationId # id /\ shown[id].version # 0
    /\ Click(t, [Idle EXCEPT !.kind = IF shown[id].enabled THEN "disable" ELSE "enable",
                             !.at = "asked", !.id = id])

\* A batch goes on to its next extension, whether the last one failed or not.
NextOfBatch(t) ==
    /\ op[t].at \in {"done", "error"}
    /\ \E next \in op[t].rest :
          Begin(t, [op[t] EXCEPT !.at = "queued", !.id = next[1], !.version = next[2],
                                 !.rest = @ \ {next}])
    /\ UNCHANGED <<diskVars, running, install_lock, mapped, catalog, shown, refreshing, boundVars>>

\* The list is asked for when an operation went through, and after every batch.
ListIsDue(t) ==
    /\ op[t].rest = {}
    /\ op[t].at = "done" \/ (op[t].kind = "batch" /\ op[t].at = "error")

ReadList(t) ==
    /\ ListIsDue(t)
    /\ op' = [op EXCEPT ![t].at = "listed", ![t].list = registry]
    /\ operationId' = IF op[t].kind = "batch" THEN Nobody ELSE operationId
    /\ UNCHANGED <<diskVars, running, install_lock, mapped, catalog, shown, refreshing,
                   boundVars, pastVars>>

\* The list arrives, or none does; a single operation that failed asks for none.
Answered(t) ==
    /\ \/ op[t].at = "listed" /\ shown' = op[t].list
       \/ /\ ListIsDue(t) \/ (op[t].at = "error" /\ op[t].kind # "batch")
          /\ UNCHANGED shown
    /\ operationId' = IF op[t].kind = "batch" /\ op[t].at = "listed" THEN operationId ELSE Nobody
    /\ op' = [op EXCEPT ![t] = Idle]
    /\ UNCHANGED <<diskVars, running, install_lock, mapped, catalog, refreshing, boundVars,
                   pastVars>>

\* The tab is opened or refreshed: the list is read at once, and shown when the
\* catalog has been fetched as well.
refresh ==
    /\ running /\ refreshing = NoList /\ events < MaxEvents
    /\ events' = events + 1
    /\ refreshing' = registry
    /\ UNCHANGED <<diskVars, running, install_lock, mapped, op, catalog, shown, operationId,
                   operations, pastVars>>

Refreshed ==
    /\ refreshing # NoList
    /\ shown' \in {refreshing, [id \in Ids |-> NotInstalled]}
    /\ refreshing' = NoList
    /\ UNCHANGED <<diskVars, running, install_lock, mapped, op, catalog, operationId,
                   boundVars, pastVars>>

-----------------------------------------------------------------------------
(* install: one at a time, from the download to the registry.                *)

Goes(t, at) == op' = [op EXCEPT ![t].at = at]

\* An install that stops here has removed the files an entry names, if it installs
\* the very version that is installed.
Losing(t) ==
    IF op[t].at = "cleared" /\ op[t].version = registry[op[t].id].version
    THEN {op[t].id} ELSE {}

LockInstall(t) ==
    /\ op[t].at = "queued" /\ install_lock = Nobody
    /\ install_lock' = t
    /\ Goes(t, "locked")
    /\ UNCHANGED <<diskVars, running, mapped, tabVars, boundVars, pastVars>>

Unpack(t) ==
    /\ op[t].at = "locked"
    /\ staging' = TRUE
    /\ Goes(t, "staged")
    /\ UNCHANGED <<registry, pending_removal, dirs, running, install_lock, mapped, tabVars,
                   boundVars, pastVars>>

\* The catalog, the download, its digest, the manifest or the probe of the library fails.
Reject(t) ==
    /\ op[t].at \in {"queued", "locked", "staged"}
    /\ Goes(t, IF op[t].at = "queued" THEN "error" ELSE "failed")
    /\ UNCHANGED <<diskVars, running, install_lock, mapped, tabVars, boundVars, pastVars>>

final_dir(t) == <<op[t].id, op[t].version>>

\* A library that is in use keeps the directory, and the install fails.
RemoveFinalDir(t) ==
    /\ op[t].at = "staged"
    /\ IF final_dir(t) \notin dirs \/ Removable(final_dir(t))
       THEN dirs' = dirs \ {final_dir(t)} /\ Goes(t, "cleared")
       ELSE UNCHANGED dirs /\ Goes(t, "failed")
    /\ UNCHANGED <<registry, pending_removal, staging, running, install_lock, mapped, tabVars,
                   boundVars, pastVars>>

Rename(t) ==
    /\ op[t].at = "cleared"
    /\ staging' = FALSE /\ dirs' = dirs \cup {final_dir(t)}
    /\ Goes(t, "renamed")
    /\ UNCHANGED <<registry, pending_removal, running, install_lock, mapped, tabVars,
                   boundVars, pastVars>>

\* The rename or the writing of the registry fails: what was done before stays.
InstallFails(t) ==
    /\ op[t].at \in {"cleared", "renamed"}
    /\ broken' = broken \cup Losing(t) /\ littered' = littered \cup {op[t].id}
    /\ Goes(t, "failed")
    /\ UNCHANGED <<diskVars, running, install_lock, mapped, tabVars, boundVars>>

\* Mutated: the registry forgets the version it no longer names.
ForgetsSuperseded(id, version) == {}

\* The version this one takes the place of goes at the next launch.
Superseded(id, version) ==
    IF registry[id].version \in {0, version} THEN {} ELSE {<<id, registry[id].version>>}

upsert_installed(t) ==
    /\ op[t].at = "renamed"
    /\ pending_removal' = pending_removal \cup Superseded(op[t].id, op[t].version)
    /\ registry' = [registry EXCEPT ![op[t].id] = Installed(op[t].version)]
    /\ broken' = IF op[t].alone THEN broken \ {op[t].id} ELSE broken
    /\ Goes(t, "installed")
    /\ UNCHANGED <<dirs, staging, running, install_lock, mapped, tabVars, boundVars, littered>>

\* What is left of the staging directory goes, and the lock with it.
EndInstall(t) ==
    /\ op[t].at \in {"installed", "failed"} /\ install_lock = t
    /\ staging' = FALSE
    /\ install_lock' = Nobody
    /\ Goes(t, IF op[t].at = "installed" THEN "done" ELSE "error")
    /\ UNCHANGED <<registry, pending_removal, dirs, running, mapped, tabVars, boundVars,
                   pastVars>>

-----------------------------------------------------------------------------
(* uninstall and set_enabled, which take only the registry's lock.           *)

RemoveEntry(t) ==
    /\ op[t].kind = "uninstall" /\ op[t].at = "asked"
    /\ registry' = [registry EXCEPT ![op[t].id] = NotInstalled]
    /\ Goes(t, IF registry[op[t].id] = NotInstalled THEN "done" ELSE "unlisted")
    /\ UNCHANGED <<pending_removal, dirs, staging, running, install_lock, mapped, tabVars,
                   boundVars, pastVars>>

ReadDirs(t) ==
    /\ op[t].at = "unlisted"
    /\ op' = [op EXCEPT ![t].at = "removing", ![t].rest = DirsOf(op[t].id)]
    /\ UNCHANGED <<diskVars, running, install_lock, mapped, tabVars, boundVars, pastVars>>

\* One of the directories read; one that is gone meanwhile is passed over.
RemoveDir(t) ==
    /\ op[t].at = "removing"
    /\ \E dir \in op[t].rest :
          /\ dirs' = IF Removable(dir) THEN dirs \ {dir} ELSE dirs
          /\ op' = [op EXCEPT ![t].rest = @ \ {dir},
                              ![t].deferred = IF dir \in dirs' THEN @ \cup {dir} ELSE @]
    /\ UNCHANGED <<registry, pending_removal, staging, running, install_lock, mapped, tabVars,
                   boundVars, pastVars>>

\* The directories that could not be removed are left to the next launch.
DeferRemoval(t) ==
    /\ op[t].at = "removing" /\ op[t].rest = {}
    /\ pending_removal' = pending_removal \cup op[t].deferred
    /\ broken'   = IF op[t].alone THEN broken \ {op[t].id} ELSE broken
    /\ littered' = IF op[t].alone THEN littered \ {op[t].id} ELSE littered
    /\ Goes(t, "done")
    /\ UNCHANGED <<registry, dirs, staging, running, install_lock, mapped, tabVars, boundVars>>

DeferFails(t) ==
    /\ op[t].at = "removing" /\ op[t].rest = {} /\ op[t].deferred # {}
    /\ littered' = littered \cup {op[t].id}
    /\ Goes(t, "error")
    /\ UNCHANGED <<diskVars, running, install_lock, mapped, tabVars, boundVars, broken>>

set_enabled(t) ==
    /\ op[t].kind \in {"enable", "disable"} /\ op[t].at = "asked"
    /\ IF registry[op[t].id] = NotInstalled THEN UNCHANGED registry /\ Goes(t, "error")
       ELSE /\ registry' = [registry EXCEPT ![op[t].id].enabled = op[t].kind = "enable"]
            /\ Goes(t, "done")
    /\ UNCHANGED <<pending_removal, dirs, staging, running, install_lock, mapped, tabVars,
                   boundVars, pastVars>>

\* The registry cannot be read or written: nothing is changed.
UpdateFails(t) ==
    /\ op[t].at = "asked"
    /\ Goes(t, "error")
    /\ UNCHANGED <<diskVars, running, install_lock, mapped, tabVars, boundVars, pastVars>>

-----------------------------------------------------------------------------
(* Connections, the catalog, and the program's end and start.                *)

\* A connection loads the library of an enabled extension, and lets it go.
LoadLibrary(id) ==
    /\ running /\ registry[id].enabled /\ operations < MaxOperations
    /\ operations' = operations + 1
    /\ <<id, registry[id].version>> \in dirs \ mapped
    /\ mapped' = mapped \cup {<<id, registry[id].version>>}
    /\ UNCHANGED <<diskVars, running, install_lock, op, tabVars, events, pastVars>>

ReleaseLibrary(dir) ==
    /\ dir \in mapped
    /\ mapped' = mapped \ {dir}
    /\ UNCHANGED <<diskVars, running, install_lock, op, tabVars, boundVars, pastVars>>

\* A release is published, or withdrawn.
CatalogChanges(id) ==
    /\ events < MaxEvents
    /\ events' = events + 1
    /\ \E version \in Versions \ {catalog[id]} :
          catalog' = [catalog EXCEPT ![id] = version]
    /\ UNCHANGED <<diskVars, running, install_lock, mapped, op, shown, refreshing,
                   operationId, operations, pastVars>>

\* The program ends, with whatever it was doing.
Exit ==
    /\ running /\ events < MaxEvents
    /\ events' = events + 1
    /\ running' = FALSE
    /\ broken' = broken \cup UNION {Losing(t) : t \in Slots}
    /\ littered' = littered \cup {op[t].id : t \in {u \in Slots : op[u].at # "idle"}}
    /\ op' = [t \in Slots |-> Idle] /\ install_lock' = Nobody /\ mapped' = {}
    /\ shown' = [id \in Ids |-> NotInstalled] /\ refreshing' = NoList /\ operationId' = Nobody
    /\ UNCHANGED <<diskVars, catalog, operations>>

\* Before any connector is loaded.  Where the registry cannot be read nothing is
\* removed, and where it cannot be written what was to go stays on its list.
collect_garbage ==
    /\ ~running
    /\ running' = TRUE
    /\ staging' = FALSE
    /\ \/ dirs' = dirs \ pending_removal /\ pending_removal' = {}
       \/ dirs' = dirs \ pending_removal /\ UNCHANGED pending_removal
       \/ UNCHANGED <<dirs, pending_removal>>
    /\ broken' = broken \cup {id \in Ids : <<id, registry[id].version>> \in dirs \ dirs'}
    /\ UNCHANGED <<registry, install_lock, mapped, op, tabVars, boundVars, littered>>

-----------------------------------------------------------------------------
ExtInit ==
    /\ catalog \in [Ids -> Versions]
    /\ registry \in [Ids -> {NotInstalled} \cup {Installed(v) : v \in Versions}]
    /\ dirs = {<<id, registry[id].version>> : id \in {i \in Ids : registry[i] # NotInstalled}}
    /\ pending_removal = {} /\ staging = FALSE
    /\ running = TRUE /\ install_lock = Nobody /\ mapped = {}
    /\ op = [t \in Slots |-> Idle]
    /\ shown = registry /\ refreshing = NoList /\ operationId = Nobody
    /\ operations = 0 /\ events = 0
    /\ broken = {} /\ littered = {}

TaskNext(t) ==
    \/ \E id \in Ids : \/ installOrUpdate(t, id) \/ uninstallExtension(t, id)
                       \/ toggleExtension(t, id)
    \/ updateAll(t) \/ NextOfBatch(t) \/ ReadList(t) \/ Answered(t)
    \/ LockInstall(t) \/ Unpack(t) \/ Reject(t) \/ RemoveFinalDir(t) \/ Rename(t)
    \/ InstallFails(t) \/ upsert_installed(t) \/ EndInstall(t)
    \/ RemoveEntry(t) \/ ReadDirs(t) \/ RemoveDir(t) \/ DeferRemoval(t) \/ DeferFails(t)
    \/ set_enabled(t) \/ UpdateFails(t)

ExtNext ==
    \/ \E t \in Slots : TaskNext(t)
    \/ \E id \in Ids : LoadLibrary(id) \/ CatalogChanges(id)
    \/ \E dir \in mapped : ReleaseLibrary(dir)
    \/ refresh \/ Refreshed \/ Exit \/ collect_garbage

ExtSpec == ExtInit /\ [][ExtNext]_extVars

-----------------------------------------------------------------------------
(* Properties.  `broken` has the extensions whose installed version was about *)
(* to be put in its own place, or whose last operation another one joined, or *)
(* whose files a launch took; `littered`, those an operation on which was cut *)
(* short or failed half way, or another one joined.  An install that goes     *)
(* through alone mends the entry, and only an uninstall what lies about.      *)

AtRest(id) == \A t \in Slots : op[t].id # id

FilesFollowEntries ==
    \A id \in {i \in Ids : AtRest(i)} :
        /\ id \notin broken /\ registry[id] # NotInstalled =>
              <<id, registry[id].version>> \in dirs
        /\ id \notin littered =>
              DirsOf(id) \subseteq pending_removal \cup {<<id, registry[id].version>>}

StagingIsCleared ==
    running /\ staging =>
        \E t \in Slots : install_lock = t /\ op[t].at \in {"staged", "cleared", "failed"}

(* Whatever is started, fails, or is cut short: the entry of an extension names
   files that are there, so an update that does not go through leaves the version
   before it usable; what an operation left no entry for is removed by it or by
   the next launch; and what is half unpacked belongs to the install under way
   (store.rs 171-263, 317-448, 618-644, 912-929).  Excepted are the extensions
   that are broken or littered. *)
ExtensionsAreSound == FilesFollowEntries /\ StagingIsCleared

(* "Clear staged leftovers and superseded versions" (lib.rs 49): a launch takes
   the files of no version that an entry names. *)
LaunchKeepsWhatIsInstalled ==
    [][~running /\ running' =>
         \A id \in {i \in Ids : registry[i] # NotInstalled} :
            <<id, registry[id].version>> \in dirs => <<id, registry[id].version>> \in dirs'
      ]_extVars
=============================================================================
