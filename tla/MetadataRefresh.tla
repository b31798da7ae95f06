--------------------------- MODULE MetadataRefresh ---------------------------
(***************************************************************************)
(* The metadata cache of db/state.rs, db/metadata_manager.rs and           *)
(* list_objects_impl of db/mod.rs: one snapshot per connection id, filled  *)
(* by background refreshes, by refresh jobs and by callers that find the   *)
(* cache empty, and emptied by statements that may change the schema, by   *)
(* the user and by a disconnect.  A single generation counter, shared by   *)
(* every connection, decides whether a fetched snapshot may still be       *)
(* stored.                                                                 *)
(*                                                                         *)
(* A schema is its version number.  The clock behind is_stale is a free    *)
(* choice.  Tasks and Runs bound how many refreshes/calls and statements   *)
(* are in flight at once; MaxSchema bounds the schema changes.             *)
(***************************************************************************)
EXTENDS Naturals

CONSTANTS Connections,      (* connection ids                              *)
          Tasks,            (* slots for refreshes and list_objects calls  *)
          Runs,             (* slots for statements in flight              *)
          None,             (* no snapshot, no holder, no value yet        *)
          MaxSchema,        (* bound: schema changes per connection        *)
          MetadataMayFail   (* the kinds of tasks whose read may fail      *)

ASSUME SomeConnection == Connections # {}
ASSUME NoneIsNoVersion == None \notin Nat
ASSUME NoneIsNoTask == None \notin Tasks
ASSUME MaxSchemaNat == MaxSchema \in Nat

VARIABLES
    open,         (* [Connections -> BOOLEAN]: the keys of DbState.conns   *)
    closing,      (* connections whose disconnect has yet to empty cache   *)
    schema,       (* [Connections -> version the server is at]             *)
    generation,   (* DbState.metadata_generation                           *)
    cache,        (* [Connections -> version of the snapshot, or None]     *)
    cacheLock,    (* the task inside upsert's critical section, or None    *)
    tasks,        (* [Tasks -> Task]                                       *)
    runs,         (* [Runs -> Run]                                         *)
    floor         (* history: newest change whose run invalidated cache    *)

vars == <<open, closing, schema, generation, cache, cacheLock, tasks, runs,
          floor>>

SC == INSTANCE SchemaCache

TaskKinds == {"background", "job", "list"}
TaskPcs == {"idle", "spawned", "reading", "rereading", "cold", "cloned",
            "fetching", "fetched", "checked", "locked", "answered"}
Task == [kind : TaskKinds, pc : TaskPcs, conn : Connections, gen : Nat,
         version : Nat, asked : Nat]
Run == [pc : {"idle", "running", "executed", "bumped", "invalidated"},
        conn : Connections, version : Nat]

TypeOK ==
    /\ open \in [Connections -> BOOLEAN]
    /\ closing \in SUBSET Connections
    /\ schema \in [Connections -> Nat]
    /\ generation \in Nat
    /\ cache \in [Connections -> Nat \cup {None}]
    /\ cacheLock \in Tasks \cup {None}
    /\ tasks \in [Tasks -> Task]
    /\ runs \in [Runs -> Run]
    /\ floor \in [Connections -> Nat]

(* A task or run that is not in flight; the other fields mean nothing. *)
NoTask == [kind |-> "background", pc |-> "idle",
           conn |-> CHOOSE c \in Connections : TRUE,
           gen |-> 0, version |-> 0, asked |-> 0]
NoRun == [pc |-> "idle", conn |-> CHOOSE c \in Connections : TRUE,
          version |-> 0]

Init ==
    /\ open = [c \in Connections |-> FALSE]
    /\ closing = {}
    /\ schema = [c \in Connections |-> 0]
    /\ generation = 0
    /\ cache = [c \in Connections |-> None]
    /\ cacheLock = None
    /\ tasks = [t \in Tasks |-> NoTask]
    /\ runs = [r \in Runs |-> NoRun]
    /\ floor = [c \in Connections |-> 0]

-----------------------------------------------------------------------------
(* Task bookkeeping *)

TaskAt(t, pc) == tasks[t].pc = pc

Goto(t, pc) == tasks' = [tasks EXCEPT ![t].pc = pc]

(* The generation is read when the refresh is triggered, before the spawned
   task first runs. *)
Spawned(c, kind) ==
    [NoTask EXCEPT !.kind = kind, !.pc = "spawned", !.conn = c,
                   !.gen = generation]

TriggerRefresh(t, c, kind) ==
    /\ TaskAt(t, "idle")
    /\ tasks' = [tasks EXCEPT ![t] = Spawned(c, kind)]

(* The end of a refresh.  A background refresh or a job is over; a caller
   returns what it fetched, stored or not. *)
Ended(t) ==
    IF tasks[t].kind = "list" THEN [tasks[t] EXCEPT !.pc = "answered"] ELSE NoTask

EndTask(t) == tasks' = [tasks EXCEPT ![t] = Ended(t)]

AbandonTask(t) == tasks' = [tasks EXCEPT ![t] = NoTask]

-----------------------------------------------------------------------------
(* Background refreshes and refresh jobs *)

(* The spawned task looks its connection up; a closed one ends it. *)
CloneForRefresh(t) ==
    /\ TaskAt(t, "spawned")
    /\ IF open[tasks[t].conn] THEN Goto(t, "fetching") ELSE AbandonTask(t)
    /\ UNCHANGED <<open, closing, schema, generation, cache, cacheLock, runs,
                   floor>>

(* conn.metadata() reads the server's catalog. *)
FetchMetadata(t) ==
    /\ TaskAt(t, "fetching")
    /\ tasks' = [tasks EXCEPT ![t] =
                    [@ EXCEPT !.pc = "fetched",
                              !.version = schema[tasks[t].conn]]]
    /\ UNCHANGED <<open, closing, schema, generation, cache, cacheLock, runs,
                   floor>>

FetchFails(t) ==
    /\ tasks[t].kind \in MetadataMayFail
    /\ TaskAt(t, "fetching")
    /\ AbandonTask(t)
    /\ UNCHANGED <<open, closing, schema, generation, cache, cacheLock, runs,
                   floor>>

(* A job polls its cancel flag before and after the fetch. *)
CancelJob(t) ==
    /\ tasks[t].kind = "job"
    /\ TaskAt(t, "spawned") \/ TaskAt(t, "fetched")
    /\ AbandonTask(t)
    /\ UNCHANGED <<open, closing, schema, generation, cache, cacheLock, runs,
                   floor>>

(* upsert_metadata_snapshot_if_current: the check without the lock, *)
CheckGeneration(t) ==
    /\ TaskAt(t, "fetched")
    /\ IF tasks[t].gen = generation THEN Goto(t, "checked") ELSE EndTask(t)
    /\ UNCHANGED <<open, closing, schema, generation, cache, cacheLock, runs,
                   floor>>

(* Mutated: only the check before the lock. *)
LockWithoutCheck(t) ==
    /\ TaskAt(t, "checked")
    /\ cacheLock = None
    /\ Goto(t, "locked")
    /\ cacheLock' = t
    /\ UNCHANGED <<open, closing, schema, generation, cache, runs, floor>>

(* the check under the lock, *)
LockAndCheck(t) ==
    /\ TaskAt(t, "checked")
    /\ cacheLock = None
    /\ \/ /\ tasks[t].gen = generation
          /\ Goto(t, "locked")
          /\ cacheLock' = t
       \/ /\ tasks[t].gen # generation
          /\ EndTask(t)
          /\ UNCHANGED cacheLock
    /\ UNCHANGED <<open, closing, schema, generation, cache, runs, floor>>

(* and the store.  The counter is not protected by the lock: another thread
   may bump it between the check and this step. *)
Upsert(t) ==
    /\ TaskAt(t, "locked")
    /\ cache' = [cache EXCEPT ![tasks[t].conn] = tasks[t].version]
    /\ cacheLock' = None
    /\ EndTask(t)
    /\ UNCHANGED <<open, closing, schema, generation, runs, floor>>

-----------------------------------------------------------------------------
(* list_objects: answer from the cache, or fetch and store.  autocomplete
   takes the same two paths. *)

ListObjects(t, c) ==
    /\ TaskAt(t, "idle")
    /\ cacheLock = None
    /\ tasks' = [tasks EXCEPT ![t] =
                    [NoTask EXCEPT !.kind = "list", !.conn = c,
                        !.asked = floor[c],
                        !.pc = IF cache[c] = None THEN "cold" ELSE "reading"]]
    /\ UNCHANGED <<open, closing, schema, generation, cache, cacheLock, runs,
                   floor>>

(* The snapshot was fresh: go back for it. *)
SnapshotFresh(t) ==
    /\ TaskAt(t, "reading")
    /\ Goto(t, "rereading")
    /\ UNCHANGED <<open, closing, schema, generation, cache, cacheLock, runs,
                   floor>>

(* The snapshot was stale: trigger a refresh b, then go back for it. *)
SnapshotStale(t, b) ==
    /\ TaskAt(t, "reading")
    /\ TaskAt(b, "idle")
    /\ tasks' = [tasks EXCEPT ![t].pc = "rereading",
                              ![b] = Spawned(tasks[t].conn, "background")]
    /\ UNCHANGED <<open, closing, schema, generation, cache, cacheLock, runs,
                   floor>>

ReadSnapshot(t) ==
    LET c == tasks[t].conn IN
    /\ TaskAt(t, "rereading")
    /\ cacheLock = None
    /\ IF cache[c] = None
       THEN Goto(t, "cold")
       ELSE tasks' = [tasks EXCEPT ![t] =
                        [@ EXCEPT !.pc = "answered", !.version = cache[c]]]
    /\ UNCHANGED <<open, closing, schema, generation, cache, cacheLock, runs,
                   floor>>

(* The direct fetch: the connection first, then the generation. *)
CloneForList(t) ==
    /\ TaskAt(t, "cold")
    /\ IF open[tasks[t].conn] THEN Goto(t, "cloned") ELSE AbandonTask(t)
    /\ UNCHANGED <<open, closing, schema, generation, cache, cacheLock, runs,
                   floor>>

ReadGeneration(t) ==
    /\ TaskAt(t, "cloned")
    /\ tasks' = [tasks EXCEPT ![t] =
                    [@ EXCEPT !.pc = "fetching", !.gen = generation]]
    /\ UNCHANGED <<open, closing, schema, generation, cache, cacheLock, runs,
                   floor>>

ReturnAnswer(t) ==
    /\ TaskAt(t, "answered")
    /\ AbandonTask(t)
    /\ UNCHANGED <<open, closing, schema, generation, cache, cacheLock, runs,
                   floor>>

-----------------------------------------------------------------------------
(* Statements, and the refresh that follows one that may change the schema *)

StartRun(r, c) ==
    /\ runs[r].pc = "idle"
    /\ open[c]
    /\ runs' = [runs EXCEPT ![r] = [pc |-> "running", conn |-> c, version |-> 0]]
    /\ UNCHANGED <<open, closing, schema, generation, cache, cacheLock, tasks,
                   floor>>

(* The server commits the change. *)
ExecuteRun(r) ==
    LET c == runs[r].conn IN
    /\ runs[r].pc = "running"
    /\ schema[c] < MaxSchema
    /\ schema' = [schema EXCEPT ![c] = @ + 1]
    /\ runs' = [runs EXCEPT ![r].pc = "executed", ![r].version = schema[c] + 1]
    /\ UNCHANGED <<open, closing, generation, cache, cacheLock, tasks, floor>>

(* An error, a cancel or a timeout, before the change or after it: nothing is
   invalidated then. *)
FailRun(r) ==
    /\ runs[r].pc \in {"running", "executed"}
    /\ runs' = [runs EXCEPT ![r] = NoRun]
    /\ UNCHANGED <<open, closing, schema, generation, cache, cacheLock, tasks,
                   floor>>

(* Mutated: the generation stays. *)
BumpForgotten(r) ==
    /\ runs[r].pc = "executed"
    /\ runs' = [runs EXCEPT ![r].pc = "bumped"]
    /\ UNCHANGED <<open, closing, schema, generation, cache, cacheLock, tasks,
                   floor>>

(* refresh_metadata_after_query_if_needed: bump, *)
BumpGeneration(r) ==
    /\ runs[r].pc = "executed"
    /\ generation' = generation + 1
    /\ runs' = [runs EXCEPT ![r].pc = "bumped"]
    /\ UNCHANGED <<open, closing, schema, cache, cacheLock, tasks, floor>>

(* Mutated: the snapshot stays. *)
InvalidateForgotten(r) ==
    LET c == runs[r].conn IN
    /\ runs[r].pc = "bumped"
    /\ cacheLock = None
    /\ floor' = [floor EXCEPT ![c] = IF @ < runs[r].version
                                     THEN runs[r].version ELSE @]
    /\ runs' = [runs EXCEPT ![r].pc = "invalidated"]
    /\ UNCHANGED <<open, closing, schema, generation, cache, cacheLock, tasks>>

(* invalidate, *)
InvalidateAfterRun(r) ==
    LET c == runs[r].conn IN
    /\ runs[r].pc = "bumped"
    /\ cacheLock = None
    /\ cache' = [cache EXCEPT ![c] = None]
    /\ floor' = [floor EXCEPT ![c] = IF @ < runs[r].version
                                     THEN runs[r].version ELSE @]
    /\ runs' = [runs EXCEPT ![r].pc = "invalidated"]
    /\ UNCHANGED <<open, closing, schema, generation, cacheLock, tasks>>

(* Mutated: nothing refreshes what was invalidated. *)
RefreshForgotten(r, t) ==
    /\ runs[r].pc = "invalidated"
    /\ TaskAt(t, "idle")
    /\ runs' = [runs EXCEPT ![r] = NoRun]
    /\ UNCHANGED <<open, closing, schema, generation, cache, cacheLock, tasks,
                   floor>>

(* refresh. *)
RefreshAfterRun(r, t) ==
    /\ runs[r].pc = "invalidated"
    /\ TriggerRefresh(t, runs[r].conn, "background")
    /\ runs' = [runs EXCEPT ![r] = NoRun]
    /\ UNCHANGED <<open, closing, schema, generation, cache, cacheLock, floor>>

-----------------------------------------------------------------------------
(* The rest of the environment *)

(* Another client of the database changes its schema. *)
ForeignChange(c) ==
    /\ schema[c] < MaxSchema
    /\ schema' = [schema EXCEPT ![c] = @ + 1]
    /\ UNCHANGED <<open, closing, generation, cache, cacheLock, tasks, runs,
                   floor>>

(* The user's "refresh": invalidate_cache, which only starts a refresh when
   there was something to throw away. *)
InvalidateCache(c, t) ==
    /\ cacheLock = None
    /\ cache[c] # None
    /\ cache' = [cache EXCEPT ![c] = None]
    /\ \E kind \in {"job", "background"} : TriggerRefresh(t, c, kind)
    /\ UNCHANGED <<open, closing, schema, generation, cacheLock, runs, floor>>

(* connect_impl, seen from the cache: neither the generation nor the cache
   changes, and a refresh warms the cache up. *)
Connect(c, t) ==
    /\ open' = [open EXCEPT ![c] = TRUE]
    /\ TriggerRefresh(t, c, "background")
    /\ UNCHANGED <<closing, schema, generation, cache, cacheLock, runs, floor>>

(* disconnect_impl: the connection goes first, *)
Disconnect(c) ==
    /\ open[c]
    /\ c \notin closing
    /\ open' = [open EXCEPT ![c] = FALSE]
    /\ closing' = closing \cup {c}
    /\ UNCHANGED <<schema, generation, cache, cacheLock, tasks, runs, floor>>

(* its snapshot last, and without a bump. *)
InvalidateOnDisconnect(c) ==
    /\ c \in closing
    /\ cacheLock = None
    /\ closing' = closing \ {c}
    /\ cache' = [cache EXCEPT ![c] = None]
    /\ UNCHANGED <<open, schema, generation, cacheLock, tasks, runs, floor>>

-----------------------------------------------------------------------------
(* The steps a task takes on its own. *)
TaskStep(t) ==
    \/ CloneForRefresh(t)
    \/ FetchMetadata(t)
    \/ FetchFails(t)
    \/ CheckGeneration(t)
    \/ LockAndCheck(t)
    \/ Upsert(t)
    \/ SnapshotFresh(t)
    \/ \E b \in Tasks : SnapshotStale(t, b)
    \/ ReadSnapshot(t)
    \/ CloneForList(t)
    \/ ReadGeneration(t)
    \/ ReturnAnswer(t)

(* The steps a statement takes once the server has executed it. *)
AfterRun(r) ==
    \/ BumpGeneration(r)
    \/ InvalidateAfterRun(r)
    \/ \E t \in Tasks : RefreshAfterRun(r, t)

Next ==
    \/ \E t \in Tasks : TaskStep(t) \/ CancelJob(t)
    \/ \E r \in Runs : AfterRun(r) \/ ExecuteRun(r) \/ FailRun(r)
    \/ \E c \in Connections :
        \/ \E r \in Runs : StartRun(r, c)
        \/ \E t \in Tasks : ListObjects(t, c) \/ InvalidateCache(c, t)
                            \/ Connect(c, t)
        \/ ForeignChange(c)
        \/ Disconnect(c)
        \/ InvalidateOnDisconnect(c)

Spec == Init /\ [][Next]_vars

(* Spawned tasks and statements past the server are driven by the runtime to
   their end; tokio's mutex is first come first served, hence strong fairness
   for what waits on the cache lock or on a free slot. *)
Fairness ==
    /\ \A t \in Tasks : SF_vars(TaskStep(t))
    /\ \A r \in Runs : SF_vars(AfterRun(r))

FairSpec == Spec /\ Fairness

-----------------------------------------------------------------------------
(* Properties *)

(* A snapshot is never older than the last schema-changing statement whose run
   got as far as invalidating the cache (state.rs 235-251): no refresh that
   read the catalog before that statement can put its answer back, however it
   interleaves with the bump, the two generation checks and the lock. *)
Fresh == \A c \in Connections : cache[c] # None => cache[c] >= floor[c]

(* Read your own schema change: a list_objects or autocomplete call made after
   such a run sees its change, whether it is answered from the cache, by its
   own fetch, or by a fetch whose store was refused (mod.rs 231-270). *)
ReadYourChange ==
    \A t \in Tasks : TaskAt(t, "answered") => tasks[t].version >= tasks[t].asked

(* The inductive strengthening of the two above: who may hold the cache lock,
   how versions are ordered, and what a fetched answer of the current
   generation is known to include. *)
LockInv == \A t \in Tasks : TaskAt(t, "locked") <=> cacheLock = t

VersionInv ==
    \A c \in Connections :
        /\ floor[c] <= schema[c]
        /\ cache[c] # None => cache[c] <= schema[c]

RunInv == \A r \in Runs : runs[r].version <= schema[runs[r].conn]

KnowsBumps(t) ==
    /\ tasks[t].version >= floor[tasks[t].conn]
    /\ \A r \in Runs : runs[r].pc = "bumped" /\ runs[r].conn = tasks[t].conn
                        => tasks[t].version >= runs[r].version

TaskInv ==
    \A t \in Tasks :
        /\ tasks[t].gen <= generation
        /\ tasks[t].asked <= floor[tasks[t].conn]
        /\ tasks[t].pc \in {"fetched", "checked", "locked"} =>
              /\ tasks[t].asked <= tasks[t].version
              /\ tasks[t].version <= schema[tasks[t].conn]
        /\ tasks[t].pc \in {"fetched", "checked"}
           /\ tasks[t].gen = generation => KnowsBumps(t)
        /\ TaskAt(t, "locked") => tasks[t].version >= floor[tasks[t].conn]

IInv == TypeOK /\ LockInv /\ VersionInv /\ RunInv /\ TaskInv /\ Fresh
        /\ ReadYourChange

(* The cache implements SchemaCache (refinement: its variables are the same). *)
ImplementsSchemaCache == SC!CacheSpec

(* A successful schema-changing statement is followed by a snapshot, without
   anyone asking for one (tests.rs 216,
   successful_mutation_refreshes_metadata_without_manual_invalidation), as
   long as the connection stays open and its catalog can be read. *)
MutationRefreshes ==
    \A r \in Runs, c \in Connections :
        (runs[r].pc = "invalidated" /\ runs[r].conn = c)
            ~> (cache[c] # None \/ ~open[c])
=============================================================================
