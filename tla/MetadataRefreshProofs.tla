------------------------ MODULE MetadataRefreshProofs ------------------------
(***************************************************************************)
(* The cache of MetadataRefresh is fresh, its readers read their own       *)
(* schema changes, and it implements SchemaCache: for any number of        *)
(* connections, refreshes and statements.                                  *)
(*                                                                         *)
(* The invariant IInv is proved action by action.  Its heart is TaskInv:   *)
(* an answer whose generation is still the current one includes every      *)
(* change already bumped, because a bump makes every older answer's        *)
(* generation obsolete; and while a task holds the lock no invalidation    *)
(* can raise the floor.                                                    *)
(***************************************************************************)
EXTENDS MetadataRefresh, TLAPS

USE NoneIsNoVersion, NoneIsNoTask

(* What the idle task and the idle run look like, so that the CHOOSE inside
   them stays folded. *)
LEMMA IdleRecords ==
    /\ NoTask \in Task
    /\ NoTask.pc = "idle" /\ NoTask.gen = 0
    /\ NoTask.version = 0 /\ NoTask.asked = 0
    /\ NoTask.kind = "background"
    /\ NoRun \in Run /\ NoRun.pc = "idle" /\ NoRun.version = 0
<1>1. (CHOOSE c \in Connections : TRUE) \in Connections
  BY SomeConnection
<1>2. QED
  BY <1>1 DEF NoTask, NoRun, Task, Run, TaskKinds, TaskPcs

\* The invariant holds before the first task and the first run.
LEMMA InitIInv == Init => IInv
<1> SUFFICES ASSUME Init PROVE IInv
  OBVIOUS
<1> USE IdleRecords DEF Init
<1>1. TypeOK
  BY DEF TypeOK
<1>2. LockInv /\ VersionInv /\ Fresh
  BY DEF LockInv, VersionInv, Fresh, TaskAt
<1>3. RunInv
  BY DEF RunInv, Run
<1>4. TaskInv /\ ReadYourChange
  BY DEF TaskInv, ReadYourChange, KnowsBumps, TaskAt, Task
<1>5. QED
  BY <1>1, <1>2, <1>3, <1>4 DEF IInv

-----------------------------------------------------------------------------
(* A step that changes one task and nothing the invariant reads elsewhere: it
   is enough to look at the new value of that task. *)
OneTaskOK(t) ==
    /\ tasks[t].gen <= generation
    /\ tasks[t].asked <= floor[tasks[t].conn]
    /\ tasks[t].pc \in {"fetched", "checked", "locked"} =>
          /\ tasks[t].asked <= tasks[t].version
          /\ tasks[t].version <= schema[tasks[t].conn]
    /\ tasks[t].pc \in {"fetched", "checked"}
       /\ tasks[t].gen = generation => KnowsBumps(t)
    /\ TaskAt(t, "locked") => tasks[t].version >= floor[tasks[t].conn]
    /\ TaskAt(t, "answered") => tasks[t].version >= tasks[t].asked

\* The two parts of the invariant about tasks, task by task.
LEMMA TasksOK == TaskInv /\ ReadYourChange <=> \A t \in Tasks : OneTaskOK(t)
  BY DEF TaskInv, ReadYourChange, OneTaskOK

\* Such a step, outside the lock, keeps the invariant if the new value of the task may be one.
LEMMA OneTaskStep ==
  ASSUME IInv, NEW t \in Tasks, NEW new \in Task,
         tasks' = [tasks EXCEPT ![t] = new],
         new.pc # "locked", ~TaskAt(t, "locked"),
         UNCHANGED <<open, closing, schema, generation, cache, cacheLock, runs,
                     floor>>,
         OneTaskOK(t)'
  PROVE  IInv'
<1>1. TypeOK'
  BY DEF IInv, TypeOK
<1>2. LockInv' /\ VersionInv' /\ RunInv' /\ Fresh'
  BY DEF IInv, TypeOK, LockInv, VersionInv, RunInv, Fresh, TaskAt
<1>3. ASSUME NEW u \in Tasks PROVE OneTaskOK(u)'
  <2>1. CASE u = t
    BY <2>1
  <2>2. CASE u # t
    <3>1. tasks'[u] = tasks[u]
      BY <2>2 DEF IInv, TypeOK
    <3>2. OneTaskOK(u)
      BY TasksOK DEF IInv
    <3>3. QED
      BY <3>1, <3>2 DEF OneTaskOK, KnowsBumps, TaskAt
  <2>3. QED
    BY <2>1, <2>2
<1>4. QED
  <2>1. TaskInv' /\ ReadYourChange'
    BY <1>3 DEF TaskInv, ReadYourChange, OneTaskOK
  <2>2. QED
    BY <1>1, <1>2, <2>1 DEF IInv

(* The two commonest single-task steps: moving on, and ending for good. *)
MayGoto(t, pc) ==
    \/ pc \in {"rereading", "cold", "cloned", "fetching"}
       /\ tasks[t].pc \in {"spawned", "reading", "rereading", "cold"}
    \/ pc = "checked" /\ tasks[t].pc = "fetched"

\* Moving on keeps the invariant,
LEMMA GotoStep ==
  ASSUME IInv, NEW t \in Tasks, NEW pc, Goto(t, pc), MayGoto(t, pc),
         UNCHANGED <<open, closing, schema, generation, cache, cacheLock, runs,
                     floor>>
  PROVE  IInv'
<1> DEFINE new == [tasks[t] EXCEPT !.pc = pc]
<1>1. new \in Task /\ new.pc # "locked" /\ tasks' = [tasks EXCEPT ![t] = new]
  BY DEF IInv, TypeOK, Goto, Task, MayGoto, TaskPcs
<1>2. OneTaskOK(t)
  BY TasksOK DEF IInv
<1>3. /\ tasks'[t].pc = pc
      /\ tasks'[t].conn = tasks[t].conn /\ tasks'[t].gen = tasks[t].gen
      /\ tasks'[t].version = tasks[t].version
      /\ tasks'[t].asked = tasks[t].asked
  BY DEF IInv, TypeOK, Goto, Task
<1>4. OneTaskOK(t)'
  BY <1>2, <1>3 DEF OneTaskOK, KnowsBumps, TaskAt, MayGoto
<1>5. ~TaskAt(t, "locked")
  BY DEF MayGoto, TaskAt
<1>6. QED
  BY <1>1, <1>4, <1>5, OneTaskStep

\* and so does ending for good, as cancelled jobs do.
LEMMA AbandonStep ==
  ASSUME IInv, NEW t \in Tasks, AbandonTask(t), ~TaskAt(t, "locked"),
         UNCHANGED <<open, closing, schema, generation, cache, cacheLock, runs,
                     floor>>
  PROVE  IInv'
<1>1. tasks'[t] = NoTask
  BY DEF IInv, TypeOK, AbandonTask
<1>2. OneTaskOK(t)'
  BY <1>1, IdleRecords DEF IInv, TypeOK, OneTaskOK, TaskAt, Task
<1>3. QED
  BY <1>2, IdleRecords, OneTaskStep DEF AbandonTask

(* Ending a refresh that is past its fetch and does not hold the lock. *)
LEMMA EndStep ==
  ASSUME IInv, NEW t \in Tasks, EndTask(t),
         TaskAt(t, "fetched") \/ TaskAt(t, "checked"),
         UNCHANGED <<open, closing, schema, generation, cache, cacheLock, runs,
                     floor>>
  PROVE  IInv'
<1>1. CASE tasks[t].kind # "list"
  BY <1>1, AbandonStep DEF EndTask, Ended, AbandonTask, TaskAt
<1>2. CASE tasks[t].kind = "list"
  <2> DEFINE new == [tasks[t] EXCEPT !.pc = "answered"]
  <2>1. new \in Task /\ new.pc # "locked" /\ tasks' = [tasks EXCEPT ![t] = new]
    BY <1>2 DEF IInv, TypeOK, EndTask, Ended, Task, TaskPcs
  <2>2. OneTaskOK(t)
    BY TasksOK DEF IInv
  <2>3. /\ tasks'[t].pc = "answered"
        /\ tasks'[t].conn = tasks[t].conn /\ tasks'[t].gen = tasks[t].gen
        /\ tasks'[t].version = tasks[t].version
        /\ tasks'[t].asked = tasks[t].asked
    BY <2>1 DEF IInv, TypeOK, Task
  <2>4. OneTaskOK(t)'
    BY <2>2, <2>3 DEF OneTaskOK, KnowsBumps, TaskAt, IInv, TypeOK, Task
  <2>5. QED
    BY <2>1, <2>4, OneTaskStep DEF TaskAt
<1>3. QED
  BY <1>1, <1>2

-----------------------------------------------------------------------------
(* Refreshes and callers, one lemma per action that is not a plain move. *)

\* What is fetched now includes every change acknowledged so far.
LEMMA FetchMetadataStep ==
  ASSUME IInv, NEW t \in Tasks, FetchMetadata(t)
  PROVE  IInv'
<1> DEFINE c == tasks[t].conn
           new == [tasks[t] EXCEPT !.pc = "fetched", !.version = schema[c]]
<1>1. c \in Connections /\ schema[c] \in Nat /\ floor[c] \in Nat
  BY DEF IInv, TypeOK, Task
<1>2. new \in Task /\ new.pc # "locked" /\ tasks' = [tasks EXCEPT ![t] = new]
  <2>1. tasks' = [tasks EXCEPT ![t] = new]
    BY Zenon DEF FetchMetadata
  <2>2. new \in Task /\ new.pc # "locked"
    <3>1. tasks[t] \in Task
      BY DEF IInv, TypeOK
    <3>2. ASSUME NEW v \in Nat
          PROVE  LET n == [tasks[t] EXCEPT !.pc = "fetched", !.version = v]
                 IN  n \in Task /\ n.pc = "fetched"
      BY <3>1 DEF Task, TaskPcs
    <3>3. QED
      BY <1>1, <3>2
  <2>3. QED
    BY <2>1, <2>2
<1>3. OneTaskOK(t)
  BY TasksOK DEF IInv
<1>4. /\ tasks'[t].pc = "fetched" /\ tasks'[t].version = schema[c]
      /\ tasks'[t].conn = c /\ tasks'[t].gen = tasks[t].gen
      /\ tasks'[t].asked = tasks[t].asked
  BY <1>2 DEF IInv, TypeOK, Task
<1>5. floor[c] <= schema[c] /\ tasks[t].asked <= floor[c]
      /\ tasks[t].asked \in Nat
  BY <1>1, <1>3 DEF IInv, VersionInv, OneTaskOK, TypeOK, Task
<1>6. \A r \in Runs : runs[r].conn = c => schema[c] >= runs[r].version
  BY <1>1 DEF IInv, RunInv, TypeOK, Run
<1>7. UNCHANGED <<open, closing, schema, generation, cache, cacheLock, runs,
                  floor>>
  BY DEF FetchMetadata
<1>8. OneTaskOK(t)'
  BY <1>1, <1>3, <1>4, <1>5, <1>6, <1>7 DEF OneTaskOK, KnowsBumps, TaskAt
<1>9. QED
  BY <1>2, <1>7, <1>8, OneTaskStep DEF FetchMetadata, TaskAt

\* The check under the lock: a task that passes it knows every change that was acknowledged.
LEMMA LockAndCheckStep ==
  ASSUME IInv, NEW t \in Tasks, LockAndCheck(t)
  PROVE  IInv'
<1>1. CASE tasks[t].gen # generation
  BY <1>1, EndStep DEF LockAndCheck, TaskAt
<1>2. CASE tasks[t].gen = generation
  <2>1. /\ TaskAt(t, "checked") /\ Goto(t, "locked") /\ cacheLock' = t
        /\ cacheLock = None
        /\ UNCHANGED <<open, closing, schema, generation, cache, runs, floor>>
    BY <1>2 DEF LockAndCheck
  <2>2. /\ tasks' \in [Tasks -> Task]
        /\ tasks'[t] = [tasks[t] EXCEPT !.pc = "locked"]
        /\ \A u \in Tasks : u # t => tasks'[u] = tasks[u]
    BY <2>1 DEF IInv, TypeOK, Goto, Task, TaskPcs
  <2>3. TypeOK'
    BY <2>1, <2>2 DEF IInv, TypeOK
  <2>4. LockInv'
    BY <2>1, <2>2 DEF IInv, TypeOK, LockInv, TaskAt, Task
  <2>5. VersionInv' /\ RunInv' /\ Fresh'
    BY <2>1 DEF IInv, VersionInv, RunInv, Fresh
  <2>6. ASSUME NEW u \in Tasks PROVE OneTaskOK(u)'
    <3>1. OneTaskOK(u)
      BY TasksOK DEF IInv
    <3>2. CASE u # t
      BY <2>1, <2>2, <3>1, <3>2 DEF OneTaskOK, KnowsBumps, TaskAt
    <3>3. CASE u = t
      <4>1. tasks[t].version >= floor[tasks[t].conn]
        BY <1>2, <2>1, <3>1, <3>3 DEF OneTaskOK, KnowsBumps, TaskAt
      <4>2. /\ tasks'[t].pc = "locked"
            /\ tasks'[t].conn = tasks[t].conn /\ tasks'[t].gen = tasks[t].gen
            /\ tasks'[t].version = tasks[t].version
            /\ tasks'[t].asked = tasks[t].asked
        BY <2>2 DEF IInv, TypeOK, Task
      <4>3. QED
        BY <2>1, <3>1, <3>3, <4>1, <4>2 DEF OneTaskOK, KnowsBumps, TaskAt
    <3>4. QED
      BY <3>2, <3>3
  <2>7. TaskInv' /\ ReadYourChange'
    BY <2>6 DEF TaskInv, ReadYourChange, OneTaskOK
  <2>8. QED
    BY <2>3, <2>4, <2>5, <2>7 DEF IInv
<1>3. QED
  BY <1>1, <1>2

\* So what it stores is fresh.
LEMMA UpsertStep ==
  ASSUME IInv, NEW t \in Tasks, Upsert(t)
  PROVE  IInv'
<1> DEFINE c == tasks[t].conn
<1>1. /\ TaskAt(t, "locked") /\ cacheLock' = None /\ EndTask(t)
      /\ cache' = [cache EXCEPT ![c] = tasks[t].version]
      /\ UNCHANGED <<open, closing, schema, generation, runs, floor>>
  BY DEF Upsert
<1>2. /\ c \in Connections /\ tasks[t] \in Task
      /\ tasks[t].version \in Nat
      /\ OneTaskOK(t)
  BY TasksOK DEF IInv, TypeOK, Task
<1>3. /\ tasks' = [tasks EXCEPT ![t] = Ended(t)]
      /\ Ended(t) \in Task
      /\ Ended(t).pc # "locked"
      /\ Ended(t).gen <= generation
      /\ Ended(t).asked <= floor'[Ended(t).conn]
      /\ Ended(t).pc \notin {"fetched", "checked"}
      /\ Ended(t).pc = "answered" => Ended(t).version >= Ended(t).asked
  <2>1. CASE tasks[t].kind = "list"
    BY <1>1, <1>2, <2>1 DEF EndTask, Ended, Task, TaskPcs, OneTaskOK, TaskAt
  <2>2. CASE tasks[t].kind # "list"
    BY <1>1, <1>2, <2>2, IdleRecords
    DEF EndTask, Ended, Task, IInv, TypeOK
  <2>3. QED
    BY <2>1, <2>2
<1>4. TypeOK'
  BY <1>1, <1>2, <1>3 DEF IInv, TypeOK
<1>5. LockInv'
  <2>1. \A u \in Tasks : u # t => ~TaskAt(u, "locked")
    BY <1>1 DEF IInv, LockInv
  <2>2. \A u \in Tasks : tasks'[u].pc # "locked"
    BY <1>3, <2>1 DEF IInv, TypeOK, TaskAt
  <2>3. QED
    BY <1>1, <2>2 DEF LockInv, TaskAt
<1>6. VersionInv' /\ RunInv' /\ Fresh'
  BY <1>1, <1>2 DEF IInv, TypeOK, VersionInv, RunInv, Fresh, OneTaskOK, TaskAt
<1>7. ASSUME NEW u \in Tasks PROVE OneTaskOK(u)'
  <2>1. OneTaskOK(u)
    BY TasksOK DEF IInv
  <2>2. CASE u # t
    <3>1. tasks'[u] = tasks[u]
      BY <1>3, <2>2 DEF IInv, TypeOK
    <3>2. QED
      BY <1>1, <2>1, <3>1 DEF OneTaskOK, KnowsBumps, TaskAt
  <2>3. CASE u = t
    <3>1. tasks'[t] = Ended(t)
      BY <1>3 DEF IInv, TypeOK
    <3>2. QED
      BY <1>1, <1>3, <2>3, <3>1 DEF OneTaskOK, TaskAt
  <2>4. QED
    BY <2>2, <2>3
<1>8. QED
  <2>1. TaskInv' /\ ReadYourChange'
    BY <1>7 DEF TaskInv, ReadYourChange, OneTaskOK
  <2>2. QED
    BY <1>4, <1>5, <1>6, <2>1 DEF IInv

(* A freshly spawned refresh may be added to any state. *)
LEMMA SpawnedOK ==
  ASSUME IInv, NEW c \in Connections, NEW kind \in TaskKinds
  PROVE  /\ Spawned(c, kind) \in Task
         /\ Spawned(c, kind).pc = "spawned"
         /\ Spawned(c, kind).gen = generation
         /\ Spawned(c, kind).asked = 0
<1>1. generation \in Nat
  BY DEF IInv, TypeOK
<1>2. QED
  BY <1>1, IdleRecords DEF Spawned, Task, TaskPcs

(* Steps that spawn a refresh, in an idle slot, and lower the cache at most:
   the user's invalidation, a connect, the end of a run. *)
LEMMA TriggerStep ==
  ASSUME IInv, NEW t \in Tasks, NEW c \in Connections, NEW kind \in TaskKinds,
         TriggerRefresh(t, c, kind),
         UNCHANGED <<schema, generation, cacheLock, floor, closing>>,
         open' \in [Connections -> BOOLEAN],
         cache' \in [Connections -> Nat \cup {None}],
         \A d \in Connections : cache'[d] \in {cache[d], None},
         runs' \in [Runs -> Run],
         \A r \in Runs : runs'[r] \in {runs[r], NoRun}
  PROVE  IInv'
<1>1. /\ tasks' = [tasks EXCEPT ![t] = Spawned(c, kind)]
      /\ TaskAt(t, "idle")
  BY DEF TriggerRefresh
<1>2. TypeOK'
  BY <1>1, SpawnedOK DEF IInv, TypeOK
<1>3. LockInv'
  BY <1>1, SpawnedOK DEF IInv, TypeOK, LockInv, TaskAt
<1>4. VersionInv' /\ Fresh'
  BY DEF IInv, TypeOK, VersionInv, Fresh
<1>5. RunInv'
  <2>1. ASSUME NEW r \in Runs, runs'[r] = NoRun
        PROVE  runs'[r].version <= schema'[runs'[r].conn]
    BY <2>1, IdleRecords DEF IInv, TypeOK, Run
  <2>2. QED
    BY <2>1 DEF IInv, RunInv
<1>6. ASSUME NEW u \in Tasks PROVE OneTaskOK(u)'
  <2>1. OneTaskOK(u)
    BY TasksOK DEF IInv
  <2>2. CASE u # t
    <3>1. tasks'[u] = tasks[u]
      BY <1>1, <2>2 DEF IInv, TypeOK
    <3>2. \A r \in Runs : runs'[r].pc = "bumped" => runs'[r] = runs[r]
      BY IdleRecords
    <3>3. QED
      BY <2>1, <3>1, <3>2 DEF OneTaskOK, KnowsBumps, TaskAt
  <2>3. CASE u = t
    <3>1. tasks'[t] = Spawned(c, kind)
      BY <1>1 DEF IInv, TypeOK
    <3>2. QED
      BY <2>3, <3>1, SpawnedOK DEF OneTaskOK, TaskAt, IInv, TypeOK, Task
  <2>4. QED
    BY <2>2, <2>3
<1>7. QED
  <2>1. TaskInv' /\ ReadYourChange'
    BY <1>6 DEF TaskInv, ReadYourChange, OneTaskOK
  <2>2. QED
    BY <1>2, <1>3, <1>4, <1>5, <2>1 DEF IInv

\* A caller notes what was acknowledged when it asked.
LEMMA ListObjectsStep ==
  ASSUME IInv, NEW t \in Tasks, NEW c \in Connections, ListObjects(t, c)
  PROVE  IInv'
<1> DEFINE pc == IF cache[c] = None THEN "cold" ELSE "reading"
           call(n, p) == [NoTask EXCEPT !.kind = "list", !.conn = c,
                                        !.asked = n, !.pc = p]
           new == call(floor[c], pc)
<1>1. floor[c] \in Nat /\ pc \in {"cold", "reading"}
  BY DEF IInv, TypeOK
<1>2. /\ tasks' = [tasks EXCEPT ![t] = new]
      /\ TaskAt(t, "idle")
      /\ UNCHANGED <<open, closing, schema, generation, cache, cacheLock, runs,
                     floor>>
  BY Zenon DEF ListObjects
<1>3. ASSUME NEW n \in Nat, NEW p \in {"cold", "reading"}
      PROVE  /\ call(n, p) \in Task /\ call(n, p).pc = p
             /\ call(n, p).asked = n /\ call(n, p).gen = 0
             /\ call(n, p).conn = c
  BY IdleRecords DEF Task, TaskPcs, TaskKinds
<1> HIDE DEF pc, call
<1>4. /\ new \in Task /\ new.pc = pc /\ new.asked = floor[c]
      /\ new.gen = 0 /\ new.conn = c
  BY <1>1, <1>3
<1> HIDE DEF new
<1>5. tasks'[t] = new
  BY <1>2 DEF IInv, TypeOK
<1>6. OneTaskOK(t)'
  BY <1>1, <1>2, <1>4, <1>5 DEF OneTaskOK, TaskAt, IInv, TypeOK
<1>7. new.pc # "locked" /\ ~TaskAt(t, "locked")
  BY <1>1, <1>2, <1>4 DEF TaskAt
<1>8. QED
  BY <1>2, <1>4, <1>6, <1>7, OneTaskStep

\* What a caller finds in the cache includes what it asked for.
LEMMA ReadSnapshotStep ==
  ASSUME IInv, NEW t \in Tasks, ReadSnapshot(t)
  PROVE  IInv'
<1> DEFINE c == tasks[t].conn
<1>1. CASE cache[c] = None
  <2>1. /\ Goto(t, "cold")
        /\ UNCHANGED <<open, closing, schema, generation, cache, cacheLock,
                       runs, floor>>
    BY <1>1 DEF ReadSnapshot
  <2>2. MayGoto(t, "cold")
    BY DEF ReadSnapshot, TaskAt, MayGoto
  <2>3. QED
    BY <2>1, <2>2, GotoStep
<1>2. CASE cache[c] # None
  <2> DEFINE new == [tasks[t] EXCEPT !.pc = "answered", !.version = cache[c]]
  <2>1. c \in Connections /\ tasks[t] \in Task
    BY DEF IInv, TypeOK, Task
  <2>2. cache[c] \in Nat /\ floor[c] \in Nat /\ cache[c] >= floor[c]
    BY <1>2, <2>1 DEF IInv, TypeOK, Fresh
  <2>3. tasks' = [tasks EXCEPT ![t] = new]
    BY <1>2, Zenon DEF ReadSnapshot
  <2>4. ASSUME NEW v \in Nat
        PROVE  LET n == [tasks[t] EXCEPT !.pc = "answered", !.version = v]
               IN  /\ n \in Task /\ n.pc = "answered" /\ n.version = v
                   /\ n.asked = tasks[t].asked /\ n.gen = tasks[t].gen
                   /\ n.conn = c
    BY <2>1 DEF Task, TaskPcs
  <2>5. /\ new \in Task /\ new.pc = "answered" /\ new.version = cache[c]
        /\ new.asked = tasks[t].asked /\ new.gen = tasks[t].gen
        /\ new.conn = c
    BY <2>2, <2>4
  <2> HIDE DEF new
  <2>6. tasks'[t] = new
    BY <2>3 DEF IInv, TypeOK
  <2>7. OneTaskOK(t) /\ tasks[t].asked \in Nat
    BY <2>1, TasksOK DEF IInv, Task
  <2>8. OneTaskOK(t)'
    BY <2>2, <2>5, <2>6, <2>7 DEF ReadSnapshot, OneTaskOK, TaskAt
  <2>9. QED
    BY <2>3, <2>5, <2>8, OneTaskStep DEF ReadSnapshot, TaskAt
<1>3. QED
  BY <1>1, <1>2

\* A task that reads the generation now knows every bump, for it has yet to fetch.
LEMMA ReadGenerationStep ==
  ASSUME IInv, NEW t \in Tasks, ReadGeneration(t)
  PROVE  IInv'
<1> DEFINE new == [tasks[t] EXCEPT !.pc = "fetching", !.gen = generation]
<1>1. tasks[t] \in Task /\ generation \in Nat
  BY DEF IInv, TypeOK
<1>2. /\ new \in Task /\ new.pc = "fetching" /\ new.gen = generation
      /\ new.conn = tasks[t].conn /\ new.asked = tasks[t].asked
  BY <1>1 DEF Task, TaskPcs
<1>3. tasks' = [tasks EXCEPT ![t] = new]
  BY Zenon DEF ReadGeneration
<1> HIDE DEF new
<1>4. tasks'[t] = new
  BY <1>3 DEF IInv, TypeOK
<1>5. OneTaskOK(t)'
  <2>1. OneTaskOK(t)
    BY TasksOK DEF IInv
  <2>2. QED
    BY <1>1, <1>2, <1>4, <2>1 DEF ReadGeneration, OneTaskOK, TaskAt
<1>6. QED
  BY <1>2, <1>3, <1>5, OneTaskStep DEF ReadGeneration, TaskAt

(* Two tasks change: the caller moves on, a refresh is spawned. *)
LEMMA SnapshotStaleStep ==
  ASSUME IInv, NEW t \in Tasks, NEW b \in Tasks, SnapshotStale(t, b)
  PROVE  IInv'
<1> DEFINE c == tasks[t].conn
           spawned == Spawned(c, "background")
<1>1. c \in Connections /\ tasks[t] \in Task /\ t # b
  BY DEF IInv, TypeOK, Task, SnapshotStale, TaskAt
<1>2. /\ spawned \in Task /\ spawned.pc = "spawned"
      /\ spawned.gen = generation /\ spawned.asked = 0
  BY <1>1, SpawnedOK DEF TaskKinds
<1>3. UNCHANGED <<open, closing, schema, generation, cache, cacheLock, runs,
                  floor>>
  BY DEF SnapshotStale
<1> HIDE DEF spawned
<1>4. /\ tasks' \in [Tasks -> Task]
      /\ tasks'[b] = spawned
      /\ tasks'[t] = [tasks[t] EXCEPT !.pc = "rereading"]
      /\ \A u \in Tasks : u # t /\ u # b => tasks'[u] = tasks[u]
  <2>1. [tasks[t] EXCEPT !.pc = "rereading"] \in Task
    BY <1>1 DEF Task, TaskPcs
  <2>2. tasks' = [[tasks EXCEPT ![t].pc = "rereading"] EXCEPT ![b] = spawned]
    BY Zenon DEF SnapshotStale, spawned
  <2>3. [tasks EXCEPT ![t].pc = "rereading"]
          = [tasks EXCEPT ![t] = [tasks[t] EXCEPT !.pc = "rereading"]]
    BY DEF IInv, TypeOK
  <2>4. QED
    BY <1>1, <1>2, <2>1, <2>2, <2>3 DEF IInv, TypeOK
<1>5. /\ tasks'[t].pc = "rereading" /\ tasks'[t].gen = tasks[t].gen
      /\ tasks'[t].conn = c /\ tasks'[t].asked = tasks[t].asked
  BY <1>1, <1>4 DEF Task
<1>6. TypeOK'
  BY <1>3, <1>4 DEF IInv, TypeOK
<1>7. LockInv'
  BY <1>2, <1>3, <1>4, <1>5 DEF IInv, LockInv, TaskAt, SnapshotStale
<1>8. VersionInv' /\ RunInv' /\ Fresh'
  BY <1>3 DEF IInv, VersionInv, RunInv, Fresh
<1>9. ASSUME NEW u \in Tasks PROVE OneTaskOK(u)'
  <2>1. OneTaskOK(u)
    BY TasksOK DEF IInv
  <2>2. CASE u # t /\ u # b
    BY <1>3, <1>4, <2>1, <2>2 DEF OneTaskOK, KnowsBumps, TaskAt
  <2>3. CASE u = t
    BY <1>3, <1>5, <2>1, <2>3 DEF OneTaskOK, TaskAt
  <2>4. CASE u = b
    BY <1>2, <1>3, <1>4, <2>4 DEF OneTaskOK, TaskAt, IInv, TypeOK, Task
  <2>5. QED
    BY <2>2, <2>3, <2>4
<1>10. QED
  <2>1. TaskInv' /\ ReadYourChange'
    BY <1>9 DEF TaskInv, ReadYourChange, OneTaskOK
  <2>2. QED
    BY <1>6, <1>7, <1>8, <2>1 DEF IInv

-----------------------------------------------------------------------------
(* Statements and the environment *)

(* Steps that leave tasks, generation and floor alone, may let the schema grow
   or empty the cache, and bring no run to the point of having bumped. *)
LEMMA QuietStep ==
  ASSUME IInv, UNCHANGED <<tasks, generation, cacheLock, floor>>,
         open' \in [Connections -> BOOLEAN],
         closing' \in SUBSET Connections,
         schema' \in [Connections -> Nat],
         \A c \in Connections : schema'[c] >= schema[c],
         cache' \in [Connections -> Nat \cup {None}],
         \A c \in Connections : cache'[c] \in {cache[c], None},
         runs' \in [Runs -> Run],
         \A r \in Runs : runs'[r] = runs[r] \/
             /\ runs'[r].pc # "bumped"
             /\ runs'[r].version <= schema'[runs'[r].conn]
  PROVE  IInv'
<1>1. TypeOK' /\ LockInv'
  BY DEF IInv, TypeOK, LockInv, TaskAt
<1>2. VersionInv' /\ Fresh'
  <2>1. ASSUME NEW c \in Connections
        PROVE  /\ floor[c] \in Nat /\ schema[c] \in Nat /\ schema'[c] \in Nat
               /\ floor[c] <= schema[c]
               /\ cache[c] # None => /\ cache[c] \in Nat
                                     /\ floor[c] <= cache[c]
                                     /\ cache[c] <= schema[c]
    BY DEF IInv, TypeOK, VersionInv, Fresh
  <2>2. QED
    BY <2>1 DEF VersionInv, Fresh
<1>3. RunInv'
  <2>1. ASSUME NEW r \in Runs, runs'[r] = runs[r]
        PROVE  runs'[r].version <= schema'[runs'[r].conn]
    <3>1. runs[r].version \in Nat /\ runs[r].conn \in Connections
      BY DEF IInv, TypeOK, Run
    <3>2. QED
      BY <2>1, <3>1 DEF IInv, RunInv, TypeOK
  <2>2. QED
    BY <2>1 DEF RunInv
<1>4. ASSUME NEW u \in Tasks PROVE OneTaskOK(u)'
  <2>1. OneTaskOK(u)
    BY TasksOK DEF IInv
  <2>2. /\ tasks[u].conn \in Connections /\ tasks[u].version \in Nat
        /\ schema[tasks[u].conn] \in Nat /\ schema'[tasks[u].conn] \in Nat
    BY DEF IInv, TypeOK, Task
  <2>3. tasks[u].version <= schema[tasks[u].conn]
          => tasks[u].version <= schema'[tasks[u].conn]
    BY <2>2
  <2>4. KnowsBumps(u) => KnowsBumps(u)'
    BY DEF KnowsBumps
  <2>5. QED
    BY <2>1, <2>3, <2>4 DEF OneTaskOK, TaskAt
<1>5. QED
  <2>1. TaskInv' /\ ReadYourChange'
    BY <1>4 DEF TaskInv, ReadYourChange, OneTaskOK
  <2>2. QED
    BY <1>1, <1>2, <1>3, <2>1 DEF IInv

\* A bump makes the generation of every task obsolete.
LEMMA BumpGenerationStep ==
  ASSUME IInv, NEW r \in Runs, BumpGeneration(r)
  PROVE  IInv'
<1>1. /\ generation' = generation + 1 /\ generation \in Nat
      /\ runs' = [runs EXCEPT ![r].pc = "bumped"]
      /\ UNCHANGED <<open, closing, schema, cache, cacheLock, tasks, floor>>
  BY DEF BumpGeneration, IInv, TypeOK
<1>2. /\ runs' \in [Runs -> Run]
      /\ \A q \in Runs : /\ runs'[q].version = runs[q].version
                          /\ runs'[q].conn = runs[q].conn
  BY <1>1 DEF IInv, TypeOK, Run
<1>3. TypeOK' /\ LockInv' /\ VersionInv' /\ Fresh'
  BY <1>1, <1>2 DEF IInv, TypeOK, LockInv, VersionInv, Fresh, TaskAt
<1>4. RunInv'
  BY <1>1, <1>2 DEF IInv, RunInv
<1>5. ASSUME NEW u \in Tasks PROVE OneTaskOK(u)'
  <2>1. OneTaskOK(u) /\ tasks[u].gen \in Nat
    BY TasksOK DEF IInv, TypeOK, Task
  <2>2. tasks[u].gen # generation' /\ tasks[u].gen <= generation'
    BY <1>1, <2>1 DEF OneTaskOK
  <2>3. QED
    BY <1>1, <2>1, <2>2 DEF OneTaskOK, TaskAt
<1>6. QED
  <2>1. TaskInv' /\ ReadYourChange'
    BY <1>5 DEF TaskInv, ReadYourChange, OneTaskOK
  <2>2. QED
    BY <1>3, <1>4, <2>1 DEF IInv

\* An invalidation drops what is stale, and follows its bump, so no task of that generation is left.
LEMMA InvalidateAfterRunStep ==
  ASSUME IInv, NEW r \in Runs, InvalidateAfterRun(r)
  PROVE  IInv'
<1> DEFINE c == runs[r].conn
           v == runs[r].version
           top == IF floor[c] < v THEN v ELSE floor[c]
<1>1. /\ runs[r].pc = "bumped" /\ cacheLock = None
      /\ cache' = [cache EXCEPT ![c] = None]
      /\ runs' = [runs EXCEPT ![r].pc = "invalidated"]
      /\ floor' = [floor EXCEPT ![c] = top]
      /\ UNCHANGED <<open, closing, schema, generation, cacheLock, tasks>>
  BY DEF InvalidateAfterRun
<1>2. /\ c \in Connections /\ v \in Nat /\ floor[c] \in Nat
      /\ schema[c] \in Nat /\ v <= schema[c] /\ floor[c] <= schema[c]
  BY DEF IInv, TypeOK, Run, RunInv, VersionInv
<1>3. /\ top \in Nat /\ top >= v /\ top >= floor[c] /\ top <= schema[c]
      /\ top \in {v, floor[c]}
  BY <1>2
<1> HIDE DEF top
<1>4. /\ runs' \in [Runs -> Run]
      /\ \A q \in Runs : /\ runs'[q].version = runs[q].version
                          /\ runs'[q].conn = runs[q].conn
                          /\ runs'[q].pc = "bumped" => runs[q].pc = "bumped"
  BY <1>1 DEF IInv, TypeOK, Run
<1>5. /\ floor' \in [Connections -> Nat] /\ floor'[c] = top
      /\ \A d \in Connections : d # c => floor'[d] = floor[d]
  BY <1>1, <1>2, <1>3 DEF IInv, TypeOK
<1>6. TypeOK' /\ LockInv'
  BY <1>1, <1>2, <1>4, <1>5 DEF IInv, TypeOK, LockInv, TaskAt
<1>7. VersionInv' /\ Fresh'
  BY <1>1, <1>2, <1>3, <1>5 DEF IInv, TypeOK, VersionInv, Fresh
<1>8. RunInv'
  BY <1>1, <1>4 DEF IInv, RunInv
<1>9. ASSUME NEW u \in Tasks PROVE OneTaskOK(u)'
  <2>1. /\ OneTaskOK(u) /\ ~TaskAt(u, "locked")
        /\ tasks[u].conn \in Connections /\ tasks[u].version \in Nat
        /\ tasks[u].asked \in Nat /\ floor[tasks[u].conn] \in Nat
    BY <1>1, TasksOK DEF IInv, TypeOK, Task, LockInv
  <2>2. tasks[u].asked <= floor'[tasks[u].conn]
    BY <1>2, <1>3, <1>5, <2>1 DEF OneTaskOK
  <2>3. ASSUME KnowsBumps(u) PROVE KnowsBumps(u)'
    <3>1. tasks[u].version >= floor'[tasks[u].conn]
      BY <1>1, <1>2, <1>3, <1>5, <2>1, <2>3 DEF KnowsBumps
    <3>2. QED
      BY <1>1, <1>4, <2>3, <3>1 DEF KnowsBumps
  <2>4. QED
    BY <1>1, <2>1, <2>2, <2>3 DEF OneTaskOK, TaskAt
<1>10. QED
  <2>1. TaskInv' /\ ReadYourChange'
    BY <1>9 DEF TaskInv, ReadYourChange, OneTaskOK
  <2>2. QED
    BY <1>6, <1>7, <1>8, <2>1 DEF IInv

-----------------------------------------------------------------------------
(* The invariant *)

\* Every step of a refresh or a caller keeps the invariant,
LEMMA TaskStepIInv ==
  ASSUME IInv, NEW t \in Tasks, TaskStep(t) \/ CancelJob(t)
  PROVE  IInv'
<1>1. CASE CloneForRefresh(t)
  <2>1. UNCHANGED <<open, closing, schema, generation, cache, cacheLock, runs,
                    floor>>
    BY <1>1 DEF CloneForRefresh
  <2>2. MayGoto(t, "fetching")
    BY <1>1 DEF CloneForRefresh, TaskAt, MayGoto
  <2>3. CASE Goto(t, "fetching")
    BY <2>1, <2>2, <2>3, GotoStep
  <2>4. CASE AbandonTask(t)
    BY <1>1, <2>1, <2>4, AbandonStep DEF CloneForRefresh, TaskAt
  <2>5. QED
    BY <1>1, <2>3, <2>4 DEF CloneForRefresh
<1>2. CASE FetchMetadata(t)
  BY <1>2, FetchMetadataStep
<1>3. CASE FetchFails(t)
  BY <1>3, AbandonStep DEF FetchFails, TaskAt
<1>4. CASE CheckGeneration(t)
  <2>1. UNCHANGED <<open, closing, schema, generation, cache, cacheLock, runs,
                    floor>>
    BY <1>4 DEF CheckGeneration
  <2>2. MayGoto(t, "checked")
    BY <1>4 DEF CheckGeneration, TaskAt, MayGoto
  <2>3. CASE Goto(t, "checked")
    BY <2>1, <2>2, <2>3, GotoStep
  <2>4. CASE EndTask(t)
    BY <1>4, <2>1, <2>4, EndStep DEF CheckGeneration, TaskAt
  <2>5. QED
    BY <1>4, <2>3, <2>4 DEF CheckGeneration
<1>5. CASE LockAndCheck(t)
  BY <1>5, LockAndCheckStep
<1>6. CASE Upsert(t)
  BY <1>6, UpsertStep
<1>7. CASE SnapshotFresh(t)
  <2>1. UNCHANGED <<open, closing, schema, generation, cache, cacheLock, runs,
                    floor>>
    BY <1>7 DEF SnapshotFresh
  <2>2. MayGoto(t, "rereading")
    BY <1>7 DEF SnapshotFresh, TaskAt, MayGoto
  <2>3. QED
    BY <1>7, <2>1, <2>2, GotoStep DEF SnapshotFresh
<1>8. ASSUME NEW b \in Tasks, SnapshotStale(t, b) PROVE IInv'
  BY <1>8, SnapshotStaleStep
<1>9. CASE ReadSnapshot(t)
  BY <1>9, ReadSnapshotStep
<1>10. CASE CloneForList(t)
  <2>1. UNCHANGED <<open, closing, schema, generation, cache, cacheLock, runs,
                    floor>>
    BY <1>10 DEF CloneForList
  <2>2. MayGoto(t, "cloned")
    BY <1>10 DEF CloneForList, TaskAt, MayGoto
  <2>3. CASE Goto(t, "cloned")
    BY <2>1, <2>2, <2>3, GotoStep
  <2>4. CASE AbandonTask(t)
    BY <1>10, <2>1, <2>4, AbandonStep DEF CloneForList, TaskAt
  <2>5. QED
    BY <1>10, <2>3, <2>4 DEF CloneForList
<1>11. CASE ReadGeneration(t)
  BY <1>11, ReadGenerationStep
<1>12. CASE ReturnAnswer(t)
  BY <1>12, AbandonStep DEF ReturnAnswer, TaskAt
<1>13. CASE CancelJob(t)
  BY <1>13, AbandonStep DEF CancelJob, TaskAt
<1>14. QED
  BY <1>1, <1>2, <1>3, <1>4, <1>5, <1>6, <1>7, <1>8, <1>9, <1>10, <1>11,
     <1>12, <1>13 DEF TaskStep

\* every step of a run that changes the schema,
LEMMA RunStepIInv ==
  ASSUME IInv, NEW r \in Runs, AfterRun(r) \/ ExecuteRun(r) \/ FailRun(r)
  PROVE  IInv'
<1> USE DEF TypeOK
<1>1. CASE BumpGeneration(r)
  BY <1>1, BumpGenerationStep
<1>2. CASE InvalidateAfterRun(r)
  BY <1>2, InvalidateAfterRunStep
<1>3. ASSUME NEW t \in Tasks, RefreshAfterRun(r, t) PROVE IInv'
  <2>1. runs[r].conn \in Connections
    BY DEF IInv, Run
  <2>2. /\ runs' \in [Runs -> Run]
        /\ \A q \in Runs : runs'[q] \in {runs[q], NoRun}
    BY <1>3, IdleRecords DEF RefreshAfterRun, IInv
  <2>3. /\ open' \in [Connections -> BOOLEAN]
        /\ cache' \in [Connections -> Nat \cup {None}]
        /\ \A d \in Connections : cache'[d] \in {cache[d], None}
    BY <1>3 DEF RefreshAfterRun, IInv
  <2>4. QED
    BY <1>3, <2>1, <2>2, <2>3, TriggerStep DEF RefreshAfterRun, TaskKinds
<1>4. CASE ExecuteRun(r)
  <2> DEFINE c == runs[r].conn
             new == [runs[r] EXCEPT !.pc = "executed", !.version = schema[c] + 1]
  <2>1. /\ c \in Connections /\ runs[r] \in Run /\ schema[c] \in Nat
    BY DEF IInv, Run
  <2>2. /\ schema' = [schema EXCEPT ![c] = schema[c] + 1]
        /\ runs' = [runs EXCEPT ![r] = new]
        /\ UNCHANGED <<open, closing, generation, cache, cacheLock, tasks,
                       floor>>
    BY <1>4, Zenon DEF ExecuteRun
  <2>3. ASSUME NEW v \in Nat
        PROVE  LET n == [runs[r] EXCEPT !.pc = "executed", !.version = v]
               IN  n \in Run /\ n.pc = "executed" /\ n.version = v /\ n.conn = c
    BY <2>1 DEF Run
  <2>4. schema[c] + 1 \in Nat
    BY <2>1
  <2>5. new \in Run /\ new.pc = "executed" /\ new.version = schema[c] + 1
        /\ new.conn = c
    BY <2>3, <2>4
  <2> HIDE DEF new
  <2>6. /\ schema' \in [Connections -> Nat]
        /\ schema'[c] = schema[c] + 1
        /\ \A d \in Connections : schema'[d] >= schema[d]
    BY <2>1, <2>2 DEF IInv
  <2>7. /\ runs' \in [Runs -> Run]
        /\ \A q \in Runs : runs'[q] = runs[q] \/
              /\ runs'[q].pc # "bumped"
              /\ runs'[q].version <= schema'[runs'[q].conn]
    BY <2>2, <2>5, <2>6 DEF IInv
  <2>8. QED
    BY <2>2, <2>6, <2>7, QuietStep DEF IInv
<1>5. CASE FailRun(r)
  <2>1. UNCHANGED <<open, closing, schema, generation, cache, cacheLock, tasks,
                    floor>>
        /\ runs' = [runs EXCEPT ![r] = NoRun]
    BY <1>5 DEF FailRun
  <2>2. NoRun.conn \in Connections /\ NoRun \in Run
    BY IdleRecords DEF Run
  <2>3. /\ runs' \in [Runs -> Run]
        /\ \A q \in Runs : runs'[q] = runs[q] \/
              /\ runs'[q].pc # "bumped"
              /\ runs'[q].version <= schema'[runs'[q].conn]
    BY <2>1, <2>2, IdleRecords DEF IInv
  <2>4. QED
    BY <2>1, <2>3, QuietStep DEF IInv
<1>6. QED
  BY <1>1, <1>2, <1>3, <1>4, <1>5 DEF AfterRun

\* every beginning of one, connects and disconnects, and changes made elsewhere,
LEMMA EnvironmentIInv ==
  ASSUME IInv, NEW c \in Connections,
         \/ \E r \in Runs : StartRun(r, c)
         \/ \E t \in Tasks : ListObjects(t, c) \/ InvalidateCache(c, t)
                             \/ Connect(c, t)
         \/ ForeignChange(c)
         \/ Disconnect(c)
         \/ InvalidateOnDisconnect(c)
  PROVE  IInv'
<1>1. ASSUME NEW r \in Runs, StartRun(r, c) PROVE IInv'
  <2> DEFINE new == [pc |-> "running", conn |-> c, version |-> 0]
  <2>1. /\ runs' = [runs EXCEPT ![r] = new]
        /\ UNCHANGED <<open, closing, schema, generation, cache, cacheLock,
                       tasks, floor>>
    BY <1>1 DEF StartRun
  <2>2. new \in Run /\ new.pc # "bumped" /\ new.version <= schema[new.conn]
    BY DEF IInv, TypeOK, Run
  <2> HIDE DEF new
  <2>3. /\ runs' \in [Runs -> Run]
        /\ \A q \in Runs : runs'[q] = runs[q] \/
              /\ runs'[q].pc # "bumped"
              /\ runs'[q].version <= schema'[runs'[q].conn]
    BY <2>1, <2>2 DEF IInv, TypeOK
  <2>4. QED
    BY <2>1, <2>3, QuietStep DEF IInv, TypeOK
<1>2. ASSUME NEW t \in Tasks, ListObjects(t, c) PROVE IInv'
  BY <1>2, ListObjectsStep
<1>3. ASSUME NEW t \in Tasks, InvalidateCache(c, t) PROVE IInv'
  <2>1. PICK kind \in {"job", "background"} : TriggerRefresh(t, c, kind)
    BY <1>3 DEF InvalidateCache
  <2>2. kind \in TaskKinds
    BY <2>1 DEF TaskKinds
  <2>3. /\ cache' = [cache EXCEPT ![c] = None]
        /\ UNCHANGED <<open, closing, schema, generation, cacheLock, runs,
                       floor>>
    BY <1>3 DEF InvalidateCache
  <2>4. QED
    BY <2>1, <2>2, <2>3, TriggerStep DEF IInv, TypeOK
<1>4. ASSUME NEW t \in Tasks, Connect(c, t) PROVE IInv'
  <2>1. /\ TriggerRefresh(t, c, "background")
        /\ open' = [open EXCEPT ![c] = TRUE]
        /\ UNCHANGED <<closing, schema, generation, cache, cacheLock, runs,
                       floor>>
    BY <1>4 DEF Connect
  <2>2. QED
    BY <2>1, TriggerStep DEF IInv, TypeOK, TaskKinds
<1>5. CASE ForeignChange(c)
  BY <1>5, QuietStep DEF ForeignChange, IInv, TypeOK
<1>6. CASE Disconnect(c)
  BY <1>6, QuietStep DEF Disconnect, IInv, TypeOK
<1>7. CASE InvalidateOnDisconnect(c)
  BY <1>7, QuietStep DEF InvalidateOnDisconnect, IInv, TypeOK
<1>8. QED
  BY <1>1, <1>2, <1>3, <1>4, <1>5, <1>6, <1>7

\* and so every step of all.
LEMMA NextIInv == IInv /\ [Next]_vars => IInv'
<1>1. ASSUME IInv, Next PROVE IInv'
  BY <1>1, TaskStepIInv, RunStepIInv, EnvironmentIInv DEF Next
<1>2. ASSUME IInv, UNCHANGED vars PROVE IInv'
  BY <1>2 DEF vars, IInv, TypeOK, LockInv, VersionInv, RunInv, TaskInv, Fresh,
              ReadYourChange, KnowsBumps, TaskAt
<1>3. QED
  BY <1>1, <1>2

\* The inductive invariant holds in every state of MetadataRefresh.
THEOREM Invariance == Spec => []IInv
  BY InitIInv, NextIInv, PTL DEF Spec

(* Every variable keeps its type. *)
THEOREM TypeCorrect == Spec => []TypeOK
<1>1. IInv => TypeOK
  BY DEF IInv
<1>2. QED
  BY <1>1, Invariance, PTL

(* No snapshot predates a schema change whose run has invalidated the cache
   (state.rs 215-251), for any number of connections, refreshes and runs. *)
THEOREM CacheIsFresh == Spec => []Fresh
<1>1. IInv => Fresh
  BY DEF IInv
<1>2. QED
  BY <1>1, Invariance, PTL

(* list_objects and autocomplete never miss a schema change that was
   acknowledged before they were called (mod.rs 231-270). *)
THEOREM CallersReadTheirChange == Spec => []ReadYourChange
<1>1. IInv => ReadYourChange
  BY DEF IInv
<1>2. QED
  BY <1>1, Invariance, PTL

-----------------------------------------------------------------------------
(* The refinement: every step maps to a step of SchemaCache or to a stutter. *)

\* A task that stores a snapshot fills the abstract cache; its other steps are not seen.
LEMMA TaskStepRefines ==
  ASSUME IInv, NEW t \in Tasks, TaskStep(t) \/ CancelJob(t)
  PROVE  [SC!CacheNext]_(SC!cacheVars)
<1>1. CASE Upsert(t)
  <2> DEFINE c == tasks[t].conn
             v == tasks[t].version
  <2>1. OneTaskOK(t) /\ c \in Connections /\ v \in Nat
    BY TasksOK DEF IInv, TypeOK, Task
  <2>2. v >= floor[c] /\ v <= schema[c]
    BY <1>1, <2>1 DEF Upsert, OneTaskOK, TaskAt
  <2>3. floor[c] \in Nat /\ schema[c] \in Nat
    BY <2>1 DEF IInv, TypeOK
  <2>4. v \in floor[c]..schema[c]
    BY <2>1, <2>2, <2>3
  <2>5. SC!Fill(c, v)
    BY <1>1 DEF Upsert, SC!Fill
  <2>6. QED
    BY <2>1, <2>4, <2>5 DEF SC!CacheNext
<1>2. CASE ~Upsert(t)
  <2>1. UNCHANGED <<schema, floor, cache>>
    BY <1>2 DEF TaskStep, CancelJob, CloneForRefresh, FetchMetadata, FetchFails,
       CheckGeneration, LockAndCheck, SnapshotFresh, SnapshotStale,
       ReadSnapshot, CloneForList, ReadGeneration, ReturnAnswer
  <2>2. QED
    BY <2>1 DEF SC!cacheVars
<1>3. QED
  BY <1>1, <1>2

\* A run commits a change, and acknowledges it when it invalidates.
LEMMA RunStepRefines ==
  ASSUME IInv, NEW r \in Runs, AfterRun(r) \/ ExecuteRun(r) \/ FailRun(r)
  PROVE  [SC!CacheNext]_(SC!cacheVars)
<1> DEFINE c == runs[r].conn
           v == runs[r].version
           top == IF floor[c] < v THEN v ELSE floor[c]
<1>1. /\ c \in Connections /\ v \in Nat /\ floor[c] \in Nat
      /\ schema[c] \in Nat /\ v <= schema[c] /\ floor[c] <= schema[c]
  BY DEF IInv, TypeOK, Run, RunInv, VersionInv
<1>2. CASE InvalidateAfterRun(r)
  <2>1. top \in floor[c]..schema[c]
    BY <1>1
  <2>2. SC!Acknowledge(c, top)
    BY <1>2 DEF InvalidateAfterRun, SC!Acknowledge
  <2>3. QED
    BY <1>1, <2>1, <2>2 DEF SC!CacheNext
<1>3. CASE ExecuteRun(r)
  <2>1. SC!Commit(c)
    BY <1>3 DEF ExecuteRun, SC!Commit
  <2>2. QED
    BY <1>1, <2>1 DEF SC!CacheNext
<1>4. CASE ~InvalidateAfterRun(r) /\ ~ExecuteRun(r)
  <2>1. UNCHANGED <<schema, floor, cache>>
    BY <1>4 DEF AfterRun, BumpGeneration, RefreshAfterRun, FailRun
  <2>2. QED
    BY <2>1 DEF SC!cacheVars
<1>5. QED
  BY <1>2, <1>3, <1>4

\* A foreign change is a commit, and an invalidation by hand or at a disconnect drops an entry.
LEMMA EnvironmentRefines ==
  ASSUME IInv, NEW c \in Connections,
         \/ \E r \in Runs : StartRun(r, c)
         \/ \E t \in Tasks : ListObjects(t, c) \/ InvalidateCache(c, t)
                             \/ Connect(c, t)
         \/ ForeignChange(c)
         \/ Disconnect(c)
         \/ InvalidateOnDisconnect(c)
  PROVE  [SC!CacheNext]_(SC!cacheVars)
<1>1. CASE ForeignChange(c)
  BY <1>1 DEF ForeignChange, SC!CacheNext, SC!Commit
<1>2. CASE InvalidateOnDisconnect(c)
  BY <1>2 DEF InvalidateOnDisconnect, SC!CacheNext, SC!Drop
<1>3. ASSUME NEW t \in Tasks, InvalidateCache(c, t)
      PROVE  [SC!CacheNext]_(SC!cacheVars)
  BY <1>3 DEF InvalidateCache, SC!CacheNext, SC!Drop
<1>4. CASE \/ \E r \in Runs : StartRun(r, c)
           \/ \E t \in Tasks : ListObjects(t, c) \/ Connect(c, t)
           \/ Disconnect(c)
  <2>1. UNCHANGED <<schema, floor, cache>>
    BY <1>4 DEF StartRun, ListObjects, Connect, Disconnect
  <2>2. QED
    BY <2>1 DEF SC!cacheVars
<1>5. QED
  BY <1>1, <1>2, <1>3, <1>4

(* The refresh protocol implements the abstract cache: whatever a reader of
   SchemaCache may rely on holds of state.rs and metadata_manager.rs. *)
THEOREM Refinement == Spec => ImplementsSchemaCache
<1>1. Init => SC!CacheInit
  BY DEF Init, SC!CacheInit
<1>2. IInv /\ [Next]_vars => [SC!CacheNext]_(SC!cacheVars)
  <2>1. ASSUME IInv, Next PROVE [SC!CacheNext]_(SC!cacheVars)
    BY <2>1, TaskStepRefines, RunStepRefines, EnvironmentRefines DEF Next
  <2>2. ASSUME UNCHANGED vars PROVE UNCHANGED SC!cacheVars
    BY <2>2 DEF vars, SC!cacheVars
  <2>3. QED
    BY <2>1, <2>2
<1>3. QED
  BY <1>1, <1>2, Invariance, PTL DEF Spec, ImplementsSchemaCache, SC!CacheSpec

=============================================================================
