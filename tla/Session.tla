------------------------------ MODULE Session ------------------------------
(***************************************************************************)
(* The held session of db/session.rs: the user's statements on one         *)
(* database connection queue on a mutex and run one after another in a     *)
(* single server session taken from the driver's pool; metadata, edits and *)
(* cancels use the pool's other sessions.                                  *)
(*                                                                         *)
(* The pool itself (sqlx) is external: it opens at most PoolSize sessions, *)
(* checks an idle one before handing it out, checks a returned one in a    *)
(* spawned task, refuses requests once closed, and its close() waits for   *)
(* every session that is out.  A run is dropped, wherever it is, when it   *)
(* is cancelled or times out.                                              *)
(***************************************************************************)
EXTENDS FiniteSets, Naturals

CONSTANTS Runs,        (* the user's runs in flight                        *)
          PoolUsers,   (* metadata reads and grid edits in flight          *)
          Sessions,    (* server sessions ever opened; each is used once   *)
          PoolSize,    (* max_connections                                  *)
          None,        (* nobody, nothing                                  *)
          MayClose     (* is the connection closed at some point?          *)

PlaceNames == {"unopened", "idle", "returning", "discarded", "held"}

ASSUME UsersDiffer == Runs \cap PoolUsers = {}
ASSUME PlacesDiffer == PlaceNames \cap (Runs \cup PoolUsers) = {}
ASSUME NoneIsNobody == None \notin Runs \cup Sessions
ASSUME MayCloseBool == MayClose \in BOOLEAN

VARIABLES
    lock,        (* the run inside Session::held's mutex, or None          *)
    held,        (* the session in the slot, or None                       *)
    knownId,     (* sessions whose server id was learnt                    *)
    pc,          (* [Runs -> where the run is]                             *)
    place,       (* [Sessions -> who has it: a place, a run, a pool user]  *)
    poolClosed,  (* has pool.close() been called?                          *)
    closer,      (* where Session::close is                                *)
    alive,       (* sessions the server has                                *)
    executing,   (* [Sessions -> whose statements the server executes]     *)
    inTx,        (* sessions with a transaction of the user's open         *)
    cancels      (* sessions whose statement a spawned task will cancel    *)

clientVars == <<lock, held, knownId, pc, place, poolClosed, closer>>
serverVars == <<alive, executing, inTx>>
vars == <<lock, held, knownId, pc, place, poolClosed, closer, alive,
          executing, inTx, cancels>>

RunPcs == {"idle", "waiting", "acquiring", "connecting", "identifying",
           "running", "pinging"}

TypeOK ==
    /\ lock \in Runs \cup {None}
    /\ held \in Sessions \cup {None}
    /\ knownId \in SUBSET Sessions
    /\ pc \in [Runs -> RunPcs]
    /\ place \in [Sessions -> PlaceNames \cup Runs \cup PoolUsers]
    /\ poolClosed \in BOOLEAN
    /\ closer \in {"open", "released", "closing", "closed"}
    /\ alive \in SUBSET Sessions
    /\ executing \in [Sessions -> SUBSET (Runs \cup PoolUsers)]
    /\ inTx \in SUBSET Sessions
    /\ cancels \in SUBSET Sessions

Init ==
    /\ lock = None
    /\ held = None
    /\ knownId = {}
    /\ pc = [r \in Runs |-> "idle"]
    /\ place = [s \in Sessions |-> "unopened"]
    /\ poolClosed = FALSE
    /\ closer = "open"
    /\ alive = {}
    /\ executing = [s \in Sessions |-> {}]
    /\ inTx = {}
    /\ cancels = {}

-----------------------------------------------------------------------------
(* The pool *)

Move(s, where) == place' = [place EXCEPT ![s] = where]

(* Sessions that count against PoolSize, those being opened included. *)
InPool == {s \in Sessions : place[s] \notin {"unopened", "discarded"}}
PoolHasRoom ==
    Cardinality(InPool) + Cardinality({r \in Runs : pc[r] = "connecting"})
        < PoolSize

Usable(s) == place[s] = "idle" /\ s \in alive

(* A session for a user who can do nothing else meanwhile. *)
CheckOut(u) ==
    \E s \in Sessions :
        /\ Usable(s) \/ (place[s] = "unopened" /\ PoolHasRoom)
        /\ Move(s, u)
        /\ alive' = alive \cup {s}
        /\ executing' = [executing EXCEPT ![s] = @ \cup {u}]

(* metadata(), explain_query() or apply_edits() on a pooled session. *)
UsePool(u) ==
    /\ \A s \in Sessions : place[s] # u
    /\ ~poolClosed
    /\ CheckOut(u)
    /\ UNCHANGED <<lock, held, knownId, pc, poolClosed, closer, inTx, cancels>>

(* It is done, or dropped before the server has answered. *)
LeavePool(u, s) ==
    /\ place[s] = u
    /\ Move(s, "returning")
    /\ \/ executing' = [executing EXCEPT ![s] = @ \ {u}]
       \/ UNCHANGED executing
    /\ UNCHANGED <<lock, held, knownId, pc, poolClosed, closer, alive, inTx,
                   cancels>>

(* The task spawned for a returned session: what it can still read an answer
   from becomes idle, unless the pool is closed. *)
ReturnToPool(s) ==
    /\ place[s] = "returning"
    /\ IF s \in alive /\ executing[s] = {} /\ ~poolClosed
       THEN Move(s, "idle")
       ELSE /\ s \notin alive \/ poolClosed
            /\ Move(s, "discarded")
    /\ UNCHANGED <<lock, held, knownId, pc, poolClosed, closer, alive,
                   executing, inTx, cancels>>

(* An idle session the server has dropped fails its check. *)
EvictDead(s) ==
    /\ place[s] = "idle"
    /\ s \notin alive
    /\ Move(s, "discarded")
    /\ UNCHANGED <<lock, held, knownId, pc, poolClosed, closer, alive,
                   executing, inTx, cancels>>

-----------------------------------------------------------------------------
(* One run: begin(), the statement, finish() *)

StartRun(r) ==
    /\ pc[r] = "idle"
    /\ closer = "open"
    /\ pc' = [pc EXCEPT ![r] = "waiting"]
    /\ UNCHANGED <<lock, held, knownId, place, poolClosed, closer, alive,
                   executing, inTx, cancels>>

(* The slot is this run's.  With a session in it the statement is sent. *)
Begin(r) ==
    /\ pc[r] = "waiting"
    /\ lock = None
    /\ lock' = r
    /\ IF held = None
       THEN /\ pc' = [pc EXCEPT ![r] = "acquiring"]
            /\ UNCHANGED executing
       ELSE /\ pc' = [pc EXCEPT ![r] = "running"]
            /\ executing' = [executing EXCEPT ![held] = @ \cup {r}]
    /\ UNCHANGED <<held, knownId, place, poolClosed, closer, alive, inTx,
                   cancels>>

AcquireIdle(r) ==
    /\ pc[r] = "acquiring"
    /\ ~poolClosed
    /\ \E s \in Sessions : Usable(s) /\ Move(s, r)
    /\ pc' = [pc EXCEPT ![r] = "identifying"]
    /\ UNCHANGED <<lock, held, knownId, poolClosed, closer, alive, executing,
                   inTx, cancels>>

AcquireNew(r) ==
    /\ pc[r] = "acquiring"
    /\ ~poolClosed
    /\ ~\E s \in Sessions : Usable(s)
    /\ PoolHasRoom
    /\ pc' = [pc EXCEPT ![r] = "connecting"]
    /\ UNCHANGED <<lock, held, knownId, place, poolClosed, closer, alive,
                   executing, inTx, cancels>>

Connect(r) ==
    /\ pc[r] = "connecting"
    /\ \E s \in Sessions :
        /\ place[s] = "unopened"
        /\ Move(s, r)
        /\ alive' = alive \cup {s}
    /\ pc' = [pc EXCEPT ![r] = "identifying"]
    /\ UNCHANGED <<lock, held, knownId, poolClosed, closer, executing, inTx,
                   cancels>>

(* The pool is closed, the server refuses, or the wait is too long. *)
AcquireFails(r) ==
    /\ pc[r] \in {"acquiring", "connecting"}
    /\ pc' = [pc EXCEPT ![r] = "idle"]
    /\ lock' = None
    /\ UNCHANGED <<held, knownId, place, poolClosed, closer, alive, executing,
                   inTx, cancels>>

(* The server says which session this is, or does not; the session is in the
   slot from here on and the statement is sent. *)
Identify(r) ==
    /\ pc[r] = "identifying"
    /\ \E s \in Sessions :
        /\ place[s] = r
        /\ held' = s
        /\ Move(s, "held")
        /\ knownId' \in {knownId, knownId \cup {s}}
        /\ executing' = [executing EXCEPT ![s] = @ \cup {r}]
    /\ pc' = [pc EXCEPT ![r] = "running"]
    /\ UNCHANGED <<lock, poolClosed, closer, alive, inTx, cancels>>

(* Mutated: the session goes back to the pool after each run. *)
SucceedAndReturn(r) ==
    /\ pc[r] = "running"
    /\ held \in alive /\ r \in executing[held]
    /\ executing' = [executing EXCEPT ![held] = @ \ {r}]
    /\ inTx' \in {inTx, inTx \cup {held}, inTx \ {held}}
    /\ pc' = [pc EXCEPT ![r] = "idle"]
    /\ lock' = None
    /\ held' = None
    /\ Move(held, "returning")
    /\ UNCHANGED <<knownId, poolClosed, closer, alive, cancels>>

(* finish() of a result: `begin`, `commit` and `rollback` are statements. *)
Succeed(r) ==
    /\ pc[r] = "running"
    /\ held \in alive /\ r \in executing[held]
    /\ executing' = [executing EXCEPT ![held] = @ \ {r}]
    /\ inTx' \in {inTx, inTx \cup {held}, inTx \ {held}}
    /\ pc' = [pc EXCEPT ![r] = "idle"]
    /\ lock' = None
    /\ UNCHANGED <<held, knownId, place, poolClosed, closer, alive, cancels>>

(* finish() of an error first asks whether the session is still there. *)
Fail(r) ==
    /\ pc[r] = "running"
    /\ pc' = [pc EXCEPT ![r] = "pinging"]
    /\ executing' = [executing EXCEPT ![held] = @ \ {r}]
    /\ UNCHANGED <<lock, held, knownId, place, poolClosed, closer, alive, inTx,
                   cancels>>

(* Mutated: the slot stays locked when the session is kept. *)
FinishFailedLocked(r) ==
    /\ pc[r] = "pinging"
    /\ IF held \in alive
       THEN UNCHANGED <<held, place, lock>>
       ELSE held' = None /\ Move(held, "returning") /\ lock' = None
    /\ pc' = [pc EXCEPT ![r] = "idle"]
    /\ UNCHANGED <<knownId, poolClosed, closer, alive, executing, inTx,
                   cancels>>

FinishFailed(r) ==
    /\ pc[r] = "pinging"
    /\ IF held \in alive
       THEN UNCHANGED <<held, place>>
       ELSE held' = None /\ Move(held, "returning")
    /\ pc' = [pc EXCEPT ![r] = "idle"]
    /\ lock' = None
    /\ UNCHANGED <<knownId, poolClosed, closer, alive, executing, inTx,
                   cancels>>

-----------------------------------------------------------------------------
(* A run dropped by a cancel or a timeout *)

DropWaiting(r) ==
    /\ pc[r] = "waiting"
    /\ pc' = [pc EXCEPT ![r] = "idle"]
    /\ UNCHANGED <<lock, held, knownId, place, poolClosed, closer, alive,
                   executing, inTx, cancels>>

(* No guard exists yet: what was acquired goes back to the pool. *)
DropBeginning(r) ==
    /\ pc[r] \in {"acquiring", "connecting", "identifying"}
    /\ place' = [s \in Sessions |->
                    IF place[s] = r THEN "returning" ELSE place[s]]
    /\ pc' = [pc EXCEPT ![r] = "idle"]
    /\ lock' = None
    /\ UNCHANGED <<held, knownId, poolClosed, closer, alive, executing, inTx,
                   cancels>>

(* Mutated: the guard's drop leaves the session in the slot. *)
DropGuardKeepsSession(r) ==
    /\ pc[r] \in {"running", "pinging"}
    /\ cancels' = IF held \in knownId THEN cancels \cup {held} ELSE cancels
    /\ pc' = [pc EXCEPT ![r] = "idle"]
    /\ lock' = None
    /\ UNCHANGED <<held, place, knownId, poolClosed, closer, alive, executing,
                   inTx>>

(* Mutated: the session goes back to the pool, its statement still running. *)
DropGuardReusesSession(r) ==
    /\ pc[r] \in {"running", "pinging"}
    /\ held' = None
    /\ Move(held, "returning")
    /\ cancels' = IF held \in knownId THEN cancels \cup {held} ELSE cancels
    /\ pc' = [pc EXCEPT ![r] = "idle"]
    /\ lock' = None
    /\ UNCHANGED <<knownId, poolClosed, closer, alive, executing, inTx>>

(* Drop for SessionGuard: the session is closed, not reused, and its statement
   cancelled from another one when its server id is known. *)
DropGuard(r) ==
    /\ pc[r] \in {"running", "pinging"}
    /\ held' = None
    /\ Move(held, "discarded")
    /\ cancels' = IF held \in knownId THEN cancels \cup {held} ELSE cancels
    /\ pc' = [pc EXCEPT ![r] = "idle"]
    /\ lock' = None
    /\ UNCHANGED <<knownId, poolClosed, closer, alive, executing, inTx>>

DropRun(r) == DropWaiting(r) \/ DropBeginning(r) \/ DropGuard(r)

(* The spawned cancel reaches the server over a session of the pool's, *)
CancelRunning(s) ==
    /\ s \in cancels
    /\ ~poolClosed
    /\ PoolHasRoom \/ \E i \in Sessions : Usable(i)
    /\ cancels' = cancels \ {s}
    /\ executing' = [executing EXCEPT ![s] = {}]
    /\ UNCHANGED <<lock, held, knownId, pc, place, poolClosed, closer, alive,
                   inTx>>

(* or does not: it is best effort. *)
CancelGivesUp(s) ==
    /\ s \in cancels
    /\ cancels' = cancels \ {s}
    /\ UNCHANGED <<lock, held, knownId, pc, place, poolClosed, closer, alive,
                   executing, inTx>>

-----------------------------------------------------------------------------
(* The server *)

(* A statement of a session nobody listens to ends. *)
AnswerNobody(s) ==
    /\ executing[s] # {}
    /\ place[s] \in {"returning", "discarded"}
    /\ executing' = [executing EXCEPT ![s] = {}]
    /\ UNCHANGED <<lock, held, knownId, pc, place, poolClosed, closer, alive,
                   inTx, cancels>>

(* The server notices a closed connection, or drops one, and rolls back. *)
EndSession(s) ==
    /\ s \in alive
    /\ alive' = alive \ {s}
    /\ executing' = [executing EXCEPT ![s] = {}]
    /\ inTx' = inTx \ {s}
    /\ UNCHANGED <<lock, held, knownId, pc, place, poolClosed, closer, cancels>>

-----------------------------------------------------------------------------

(* Session::close: the held session is given back first, *)
CloseTakes ==
    /\ MayClose
    /\ closer = "open"
    /\ lock = None
    /\ closer' = "released"
    /\ held' = None
    /\ place' = [s \in Sessions |->
                    IF place[s] = "held" THEN "returning" ELSE place[s]]
    /\ UNCHANGED <<lock, knownId, pc, poolClosed, alive, executing, inTx,
                   cancels>>

(* then the pool is closed, which discards what is idle at once *)
ClosePool ==
    /\ closer = "released"
    /\ closer' = "closing"
    /\ poolClosed' = TRUE
    /\ place' = [s \in Sessions |->
                    IF place[s] = "idle" THEN "discarded" ELSE place[s]]
    /\ UNCHANGED <<lock, held, knownId, pc, alive, executing, inTx, cancels>>

(* and waits for what is out. *)
CloseDone ==
    /\ closer = "closing"
    /\ InPool = {}
    /\ \A r \in Runs : pc[r] # "connecting"
    /\ closer' = "closed"
    /\ UNCHANGED <<lock, held, knownId, pc, place, poolClosed, alive,
                   executing, inTx, cancels>>

-----------------------------------------------------------------------------
(* What the run itself, its driver and its server do. *)
RunStep(r) ==
    \/ AcquireIdle(r) \/ AcquireNew(r) \/ Connect(r) \/ AcquireFails(r)
    \/ Identify(r) \/ Succeed(r) \/ Fail(r) \/ FinishFailed(r)

PoolStep(s) ==
    \/ ReturnToPool(s) \/ EvictDead(s) \/ AnswerNobody(s)
    \/ \E u \in PoolUsers : LeavePool(u, s)

CloseStep == CloseTakes \/ ClosePool \/ CloseDone

Next ==
    \/ \E r \in Runs : StartRun(r) \/ Begin(r) \/ RunStep(r) \/ DropRun(r)
    \/ \E s \in Sessions :
        PoolStep(s) \/ CancelRunning(s) \/ CancelGivesUp(s) \/ EndSession(s)
    \/ \E u \in PoolUsers : UsePool(u)
    \/ CloseStep

Spec == Init /\ [][Next]_vars

(* The mutex hands itself to its waiters in turn; drivers and the server answer,
   or a limit on the wait does; spawned tasks and close() are driven on.  Nobody
   has to cancel a run. *)
Fairness ==
    /\ \A r \in Runs : SF_vars(Begin(r)) /\ WF_vars(RunStep(r))
    /\ \A s \in Sessions : WF_vars(PoolStep(s))
    /\ WF_vars(CloseStep)

FairSpec == Spec /\ Fairness

-----------------------------------------------------------------------------
(* Properties *)

(* A session is sent a statement only when it has finished with the one before:
   a connection part-way through a response, whether its run was cancelled,
   timed out or lost, is never used again (session.rs 115-127). *)
OneStatementAtATime ==
    \A s \in Sessions : \A u, v \in executing[s] : u = v

(* The cancel a dropped run leaves behind runs later, over another connection.
   It can only stop that run's statement: its session is in nobody's hands, so
   no later statement of the user's or of the pool's is there to be hit
   (session.rs 121-126). *)
CancelHitsItsTarget ==
    \A s \in cancels : place[s] = "discarded" /\ s # held

(* The user's transaction lives in the slot: until the connection is closed, a
   run that comes after `begin` executes inside it, and no edit and no metadata
   read ever does (session.rs 3-11). *)
TransactionIsHeld ==
    closer = "open" =>
        \A s \in inTx : s = held \/ place[s] = "discarded"

(* The inductive strengthening of the three above: who is inside the mutex,
   what the slot holds then, and whose statement a session may be executing. *)
LockInv ==
    \A r \in Runs : pc[r] \notin {"idle", "waiting"} <=> lock = r

SlotInv ==
    /\ \A s \in Sessions : place[s] = "held" <=> held = s
    /\ \A r \in Runs :
        /\ pc[r] \in {"acquiring", "connecting", "identifying"} => held = None
        /\ pc[r] \in {"running", "pinging"} => held # None

ExecInv ==
    \A s \in Sessions :
        /\ place[s] = "held" =>
              executing[s] \subseteq {r \in Runs : pc[r] = "running"}
        /\ place[s] \in PoolUsers => executing[s] \subseteq {place[s]}
        /\ place[s] \in {"unopened", "idle"} \cup Runs => executing[s] = {}

TxInv == inTx \subseteq alive

IInv == TypeOK /\ LockInv /\ SlotInv /\ ExecInv /\ TxInv
        /\ OneStatementAtATime /\ CancelHitsItsTarget /\ TransactionIsHeld

(* Runs queue, and none waits forever, whatever the run before it came to. *)
RunsAreServed == \A r \in Runs : pc[r] = "waiting" ~> pc[r] = "idle"

(* "Closing a pool waits for every checked-out connection, so the held one has
   to be released first": close() returns (session.rs 72-77). *)
CloseReturns == closer = "released" ~> closer = "closed"
=============================================================================
