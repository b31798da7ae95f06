---------------------------- MODULE Connections ----------------------------
(***************************************************************************)
(* The connection registry of db/mod.rs and db/state.rs: connect_impl and  *)
(* disconnect_impl against the commands that look a connection up to write *)
(* through it.  DbState keeps the open connections, the ids that are       *)
(* read-only and the running tunnels in three maps, each behind a mutex of *)
(* its own, so a connect or a disconnect changes them one after another.   *)
(*                                                                         *)
(* A command is a slot in Commands: nothing keeps two commands of one id   *)
(* from overlapping.  A handle is one opened connection (an                *)
(* Arc<dyn Connection>); its tunnel, if it has one, goes by the handle's   *)
(* name.  Statements that cannot write pass the same way without a check;  *)
(* they are left out but for what they do to close() (see CloseSession).   *)
(***************************************************************************)
EXTENDS Naturals

CONSTANTS Ids,         (* connection ids                                   *)
          Commands,    (* slots for commands in flight                     *)
          Handles,     (* bound: connections ever opened                   *)
          None,        (* no handle, no holder                             *)
          Watched,     (* the commands whose end is asked for: as commands *)
                       (* are alike, one stands for all                    *)
          CloseEnds    (* does close() end a connection that others hold?  *)
                       (* (sqlx engines; a no-op where the last clone ends *)
                       (* it)                                              *)

ASSUME SomeId == Ids # {}
ASSUME NoneIsNothing == None \notin Handles \cup Commands
ASSUME CloseEndsBool == CloseEnds \in BOOLEAN

VARIABLES
    conns,       (* [Ids -> the registered handle, or None]                *)
    connsLock,   (* the command that keeps DbState.conns locked, or None   *)
    readOnly,    (* DbState.read_only_connections                          *)
    tunnels,     (* [Ids -> the handle whose tunnel is registered, or      *)
                 (* None]                                                  *)
    forwarding,  (* handles whose forwarder is running                     *)
    profile,     (* [Handles -> what the handle was opened with]           *)
    phase,       (* [Handles -> its life]                                  *)
    hung,        (* handles whose close() waits for a session nobody will  *)
                 (* give back                                              *)
    pc,          (* [Commands -> where the command is]                     *)
    id,          (* [Commands -> the id it is about]                       *)
    handle,      (* [Commands -> the handle it opened or cloned, or None]  *)
    old,         (* [Commands -> the handle it took out to close, or None] *)
    crossed,     (* ids whose registry entry was last changed while another*)
                 (* command of the id was half-way (history)               *)
    barred       (* [Commands -> see BarredFrom, or None] (history)        *)

maps == <<conns, connsLock, readOnly, tunnels, forwarding>>
store == <<maps, profile, phase, hung>>
vars == <<store, pc, id, handle, old, crossed, barred>>

Phases == {"unused", "opening", "open", "closed"}
Pcs == {"idle",
        "opening", "register", "closeOld", "flag", "tunnel",
        "remove", "close", "untunnel", "unflag",
        "checkFirst", "lookup", "ready", "editing",
        "lookupFirst", "check", "queued", "running"}
Connecting == {"opening", "register", "closeOld", "flag", "tunnel"}

(* Between its change of the registry and its last change of a map. *)
Midway == {"closeOld", "flag", "tunnel", "close", "untunnel", "unflag"}

Profile == [readOnly : BOOLEAN, tunnelled : BOOLEAN]

TypeOK ==
    /\ conns \in [Ids -> Handles \cup {None}]
    /\ connsLock \in Commands \cup {None}
    /\ readOnly \in SUBSET Ids
    /\ tunnels \in [Ids -> Handles \cup {None}]
    /\ forwarding \in SUBSET Handles
    /\ profile \in [Handles -> Profile]
    /\ phase \in [Handles -> Phases]
    /\ hung \in SUBSET Handles
    /\ pc \in [Commands -> Pcs]
    /\ id \in [Commands -> Ids]
    /\ {handle, old, barred} \subseteq [Commands -> Handles \cup {None}]
    /\ crossed \in SUBSET Ids

Init ==
    /\ conns = [i \in Ids |-> None]
    /\ connsLock = None
    /\ readOnly = {}
    /\ tunnels = [i \in Ids |-> None]
    /\ forwarding = {}
    /\ profile = [h \in Handles |-> [readOnly |-> FALSE, tunnelled |-> FALSE]]
    /\ phase = [h \in Handles |-> "unused"]
    /\ hung = {}
    /\ pc = [k \in Commands |-> "idle"]
    /\ id = [k \in Commands |-> CHOOSE i \in Ids : TRUE]
    /\ handle = [k \in Commands |-> None]
    /\ old = handle
    /\ crossed = {}
    /\ barred = handle

-----------------------------------------------------------------------------
At(k, p) == pc[k] = p

Goto(k, p) ==
    /\ pc' = [pc EXCEPT ![k] = p]
    /\ UNCHANGED <<id, handle, old, crossed, barred>>

End(k) ==
    /\ pc' = [pc EXCEPT ![k] = "idle"]
    /\ handle' = [handle EXCEPT ![k] = None]
    /\ old' = [old EXCEPT ![k] = None]
    /\ barred' = [barred EXCEPT ![k] = None]
    /\ UNCHANGED <<id, crossed>>

(* A command has changed the registry and is not done with the other maps. *)
Unsettled(i) == \E k \in Commands : id[k] = i /\ pc[k] \in Midway

(* The last command that changed the registry for this id did so while no other
   one was half-way, and it is done. *)
Settled(i) == i \notin crossed /\ ~Unsettled(i)

(* Notes, as a command changes the registry, whether it crosses another. *)
NoteCrossing(i) ==
    IF Unsettled(i)
    THEN /\ crossed' = crossed \cup {i}
         /\ barred' = [k \in Commands |-> IF id[k] = i THEN None ELSE barred[k]]
    ELSE /\ crossed' = crossed \ {i}
         /\ UNCHANGED barred

Writing(k) == pc[k] \in {"editing", "running"}

(* A handle through which a grid edit, a statement, reaches the database: where
   close() ends a connection, only a statement that finds a session in the
   held slot still does afterwards. *)
EditReaches(h) == phase[h] = "open" \/ (phase[h] = "closed" /\ ~CloseEnds)
StatementReaches(h) == EditReaches(h) \/ h \in hung

-----------------------------------------------------------------------------
(* connect_impl *)

(* The tunnel is up before the driver connects through it. *)
StartConnect(k, i, h, p) ==
    /\ At(k, "idle")
    /\ phase[h] = "unused"
    /\ phase' = [phase EXCEPT ![h] = "opening"]
    /\ profile' = [profile EXCEPT ![h] = p]
    /\ forwarding' = IF p.tunnelled THEN forwarding \cup {h} ELSE forwarding
    /\ pc' = [pc EXCEPT ![k] = "opening"]
    /\ id' = [id EXCEPT ![k] = i]
    /\ handle' = [handle EXCEPT ![k] = h]
    /\ UNCHANGED <<conns, connsLock, readOnly, tunnels, hung, old, crossed,
                   barred>>

Opens(k) ==
    /\ At(k, "opening")
    /\ phase' = [phase EXCEPT ![handle[k]] = "open"]
    /\ Goto(k, "register")
    /\ UNCHANGED <<maps, profile, hung>>

OpenFails(k) ==
    /\ At(k, "opening")
    /\ phase' = [phase EXCEPT ![handle[k]] = "closed"]
    /\ forwarding' = forwarding \ {handle[k]}
    /\ End(k)
    /\ UNCHANGED <<conns, connsLock, readOnly, tunnels, profile, hung>>

(* Mutated: the connection it replaces is forgotten. *)
RegisterOnly(k) ==
    /\ At(k, "register")
    /\ connsLock = None
    /\ conns' = [conns EXCEPT ![id[k]] = handle[k]]
    /\ pc' = [pc EXCEPT ![k] = "flag"]
    /\ NoteCrossing(id[k])
    /\ UNCHANGED <<connsLock, readOnly, tunnels, forwarding, profile, phase,
                   hung, id, handle, old>>

Register(k) ==
    /\ At(k, "register")
    /\ connsLock = None
    /\ conns' = [conns EXCEPT ![id[k]] = handle[k]]
    /\ old' = [old EXCEPT ![k] = conns[id[k]]]
    /\ pc' = [pc EXCEPT ![k] = IF conns[id[k]] = None THEN "flag" ELSE "closeOld"]
    /\ NoteCrossing(id[k])
    /\ UNCHANGED <<connsLock, readOnly, tunnels, forwarding, profile, phase,
                   hung, id, handle>>

(* Session::close gives the held session back, once no statement runs in it,
   and closes the pool.  A statement that was queued for the session, one that
   only reads included, may take a new one in between and leave it held.  Where
   close() does nothing, the handle merely leaves the program's hands. *)
CloseSession(k) ==
    /\ pc[k] \in {"closeOld", "close"}
    /\ phase[old[k]] = "open"
    /\ CloseEnds =>
          \A j \in Commands : At(j, "running") => handle[j] # old[k]
    /\ phase' = [phase EXCEPT ![old[k]] = "closed"]
    /\ \/ UNCHANGED hung
       \/ CloseEnds /\ hung' = hung \cup {old[k]}
    /\ UNCHANGED <<maps, profile, pc, id, handle, old, crossed, barred>>

(* close() returns when every session is back in the pool. *)
Closed(h) ==
    /\ phase[h] = "closed"
    /\ CloseEnds => /\ h \notin hung
                    /\ \A j \in Commands : Writing(j) => handle[j] # h

CloseOld(k) ==
    /\ At(k, "closeOld")
    /\ Closed(old[k])
    /\ Goto(k, "flag")
    /\ UNCHANGED store

(* Mutated: the flag is set but never cleared. *)
SetFlagOnly(k) ==
    /\ At(k, "flag")
    /\ readOnly' = IF profile[handle[k]].readOnly THEN readOnly \cup {id[k]}
                                                 ELSE readOnly
    /\ Goto(k, "tunnel")
    /\ UNCHANGED <<conns, connsLock, tunnels, forwarding, profile, phase, hung>>

SetFlag(k) ==
    /\ At(k, "flag")
    /\ readOnly' = IF profile[handle[k]].readOnly THEN readOnly \cup {id[k]}
                                                 ELSE readOnly \ {id[k]}
    /\ Goto(k, "tunnel")
    /\ UNCHANGED <<conns, connsLock, tunnels, forwarding, profile, phase, hung>>

(* A tunnel registered before is stopped; without a new one it is left. *)
SetTunnel(k) ==
    /\ At(k, "tunnel")
    /\ IF profile[handle[k]].tunnelled
       THEN /\ tunnels' = [tunnels EXCEPT ![id[k]] = handle[k]]
            /\ forwarding' = forwarding \ {tunnels[id[k]]}
       ELSE UNCHANGED <<tunnels, forwarding>>
    /\ End(k)
    /\ UNCHANGED <<conns, connsLock, readOnly, profile, phase, hung>>

-----------------------------------------------------------------------------
(* disconnect_impl *)

StartDisconnect(k, i) ==
    /\ At(k, "idle")
    /\ pc' = [pc EXCEPT ![k] = "remove"]
    /\ id' = [id EXCEPT ![k] = i]
    /\ UNCHANGED <<store, handle, old, crossed, barred>>

(* `if let Some(conn) = conns.lock().await.remove(..) { conn.close().await }`:
   the guard lives until the end of the `if let`, so the registry stays locked
   while the connection closes. *)
Remove(k) ==
    /\ At(k, "remove")
    /\ connsLock = None
    /\ conns' = [conns EXCEPT ![id[k]] = None]
    /\ old' = [old EXCEPT ![k] = conns[id[k]]]
    /\ IF conns[id[k]] = None
       THEN pc' = [pc EXCEPT ![k] = "untunnel"] /\ UNCHANGED connsLock
       ELSE pc' = [pc EXCEPT ![k] = "close"] /\ connsLock' = k
    /\ NoteCrossing(id[k])
    /\ UNCHANGED <<readOnly, tunnels, forwarding, profile, phase, hung,
                   id, handle>>

CloseRemoved(k) ==
    /\ At(k, "close")
    /\ Closed(old[k])
    /\ connsLock' = None
    /\ Goto(k, "untunnel")
    /\ UNCHANGED <<conns, readOnly, tunnels, forwarding, profile, phase, hung>>

Untunnel(k) ==
    /\ At(k, "untunnel")
    /\ tunnels' = [tunnels EXCEPT ![id[k]] = None]
    /\ forwarding' = forwarding \ {tunnels[id[k]]}
    /\ Goto(k, "unflag")
    /\ UNCHANGED <<conns, connsLock, readOnly, profile, phase, hung>>

Unflag(k) ==
    /\ At(k, "unflag")
    /\ readOnly' = readOnly \ {id[k]}
    /\ End(k)
    /\ UNCHANGED <<conns, connsLock, tunnels, forwarding, profile, phase, hung>>

-----------------------------------------------------------------------------
(* Commands that write: apply_edits_impl checks, then looks the connection up;
   a statement looks it up, then checks. *)

(* The read-only connection a writer asked about while nothing was changing. *)
BarredFrom(i) ==
    IF Settled(i) /\ conns[i] # None /\ profile[conns[i]].readOnly
    THEN conns[i] ELSE None

StartWrite(k, i) ==
    /\ At(k, "idle")
    /\ \E p \in {"checkFirst", "lookupFirst"} :
        pc' = [pc EXCEPT ![k] = p]
    /\ id' = [id EXCEPT ![k] = i]
    /\ barred' = [barred EXCEPT ![k] = BarredFrom(i)]
    /\ UNCHANGED <<store, handle, old, crossed>>

(* Mutated: grid edits are not checked. *)
NoCheckWritable(k) ==
    /\ At(k, "checkFirst")
    /\ Goto(k, "lookup")
    /\ UNCHANGED store

CheckWritable(k) ==
    /\ At(k, "checkFirst")
    /\ id[k] \notin readOnly
    /\ Goto(k, "lookup")
    /\ UNCHANGED store

(* "read-only connection: write operations are blocked" *)
RefuseToEdit(k) ==
    /\ At(k, "checkFirst")
    /\ id[k] \in readOnly
    /\ End(k)
    /\ UNCHANGED store

Lookup(k) ==
    /\ pc[k] \in {"lookup", "lookupFirst"}
    /\ connsLock = None
    /\ conns[id[k]] # None
    /\ handle' = [handle EXCEPT ![k] = conns[id[k]]]
    /\ pc' = [pc EXCEPT ![k] = IF At(k, "lookup") THEN "ready" ELSE "check"]
    /\ UNCHANGED <<store, id, old, crossed, barred>>

(* Mutated: a writer waits for the connection to be made. *)
AwaitConnection(k) ==
    /\ pc[k] \in {"lookup", "lookupFirst"}
    /\ connsLock = None
    /\ conns[id[k]] = None
    /\ UNCHANGED vars

(* "no open connection" *)
NotConnected(k) ==
    /\ pc[k] \in {"lookup", "lookupFirst"}
    /\ connsLock = None
    /\ conns[id[k]] = None
    /\ End(k)
    /\ UNCHANGED store

CheckCanRun(k) ==
    /\ At(k, "check")
    /\ id[k] \notin readOnly
    /\ Goto(k, "queued")
    /\ UNCHANGED store

(* "read-only connection: write statements are blocked" *)
RefuseToRun(k) ==
    /\ At(k, "check")
    /\ id[k] \in readOnly
    /\ End(k)
    /\ UNCHANGED store

(* apply_edits() on a session of the pool *)
Edit(k) ==
    /\ At(k, "ready")
    /\ EditReaches(handle[k])
    /\ Goto(k, "editing")
    /\ UNCHANGED store

(* A statement in the held session, of which there is one. *)
Run(k) ==
    /\ At(k, "queued")
    /\ StatementReaches(handle[k])
    /\ CloseEnds =>
          \A j \in Commands : At(j, "running") => handle[j] # handle[k]
    /\ Goto(k, "running")
    /\ UNCHANGED store

(* The pool is closed. *)
WriteFails(k) ==
    /\ \/ At(k, "ready") /\ ~EditReaches(handle[k])
       \/ At(k, "queued") /\ ~StatementReaches(handle[k])
    /\ End(k)
    /\ UNCHANGED store

FinishEdit(k) ==
    /\ At(k, "editing")
    /\ End(k)
    /\ UNCHANGED store

(* A statement that is dropped or loses its connection takes the session out of
   the slot, which lets a close() that waits for it go on. *)
FinishRun(k) ==
    /\ At(k, "running")
    /\ hung' \in {hung, hung \ {handle[k]}}
    /\ End(k)
    /\ UNCHANGED <<maps, profile, phase>>

-----------------------------------------------------------------------------
Step(k) ==
    \/ Opens(k) \/ OpenFails(k) \/ Register(k) \/ CloseSession(k) \/ CloseOld(k)
    \/ SetFlag(k) \/ SetTunnel(k)
    \/ Remove(k) \/ CloseRemoved(k) \/ Untunnel(k) \/ Unflag(k)
    \/ CheckWritable(k) \/ RefuseToEdit(k) \/ Lookup(k) \/ NotConnected(k)
    \/ CheckCanRun(k) \/ RefuseToRun(k)
    \/ Edit(k) \/ Run(k) \/ WriteFails(k) \/ FinishEdit(k) \/ FinishRun(k)

Next ==
    \E k \in Commands :
        \/ Step(k)
        \/ \E i \in Ids :
            \/ StartWrite(k, i)
            \/ StartDisconnect(k, i)
            \/ \E h \in Handles, p \in Profile : StartConnect(k, i, h, p)

Spec == Init /\ [][Next]_vars

(* Commands are futures the runtime drives; tokio's mutexes serve their waiters
   in turn; a statement ends or times out. *)
Fairness == \A k \in Commands : SF_vars(Step(k))

FairSpec == Spec /\ Fairness

-----------------------------------------------------------------------------
(* Properties *)

(* Every open connection is in the registry, or in the hands of the command
   that is about to put it there or to close it: none is lost when an id is
   connected again or disconnected meanwhile (mod.rs 197-200, 297-299). *)
NoHandleLeaks ==
    \A h \in Handles :
        phase[h] \in {"opening", "open"} =>
            \/ \E i \in Ids : conns[i] = h
            \/ \E k \in Commands :
                \/ At(k, "opening") /\ handle[k] = h
                \/ At(k, "register") /\ handle[k] = h
                \/ pc[k] \in {"closeOld", "close"} /\ old[k] = h

(* When a command that changed the registry for an id without crossing another
   is done, the read-only set says of the id what the profile of its connection
   says, whatever overlapped before and whatever is being opened meanwhile: the
   two maps are changed at different times but end up in step (mod.rs 197-208,
   297-307). *)
FlagFollowsConnection ==
    \A i \in Ids :
        Settled(i) /\ conns[i] # None =>
            (i \in readOnly <=> profile[conns[i]].readOnly)

(* Likewise a connection made through a tunnel still has it, and an id that is
   not connected has no forwarder left running (mod.rs 210-219, 300-302). *)
TunnelFollowsConnection ==
    \A i \in Ids :
        Settled(i) =>
            IF conns[i] = None
            THEN tunnels[i] = None
            ELSE profile[conns[i]].tunnelled => conns[i] \in forwarding

(* A running forwarder is registered, or its connect is still under way. *)
NoForwarderLeaks ==
    \A h \in forwarding :
        \/ \E i \in Ids : tunnels[i] = h
        \/ \E k \in Commands : pc[k] \in Connecting /\ handle[k] = h

(* However connects and disconnects overlap, neither a connection nor the
   forwarder of its tunnel is left running with nobody to stop it. *)
NothingLeaks == NoHandleLeaks /\ NoForwarderLeaks

(* The registry, the read-only set and the tunnels tell the same story of every
   id that is settled; one command that runs alone settles an id again after
   commands that crossed have left its maps at odds. *)
MapsAgree == FlagFollowsConnection /\ TunnelFollowsConnection

(* A writer that asks for a read-only connection of a settled id never writes
   through it, whatever happens to the connection while it checks and looks up,
   short of commands that cross: flag and handle are read at different times, in
   either order (mod.rs 281-288, runner.rs 68-76).  Where close() does not end a
   connection, one that has been disconnected can still be written through. *)
BarredWritersNeverWrite ==
    \A k \in Commands :
        Writing(k) => \/ handle[k] # barred[k]
                      \/ ~CloseEnds /\ phase[handle[k]] = "closed"

(* The inductive strengthening of the properties above: a handle is in one place
   at a time, and its phase says which; of an id that no commands have crossed
   on, one command at a time is half-way, finds the registry as it left it, and
   has the flag still to set if it is wrong; the connection a writer is barred
   from stays flagged until it is closed; and the tunnel registered for an id is
   that of its connection, of one closed before, or gone. *)
Owns(k, h) ==
    \/ pc[k] \in {"opening", "register"} /\ handle[k] = h
    \/ pc[k] \in {"closeOld", "close"} /\ old[k] = h

OwnerInv ==
    /\ \A k \in Commands, h \in Handles :
        Owns(k, h) =>
            /\ phase[h] \in CASE At(k, "opening") -> {"opening"}
                               [] At(k, "register") -> {"open"}
                               [] OTHER -> {"open", "closed"}
            /\ \A i \in Ids : conns[i] # h
            /\ \A j \in Commands : Owns(j, h) => j = k
    /\ \A i \in Ids, h \in Handles :
        conns[i] = h =>
            /\ phase[h] = "open"
            /\ \A j \in Ids : conns[j] = h => j = i
    /\ \A h \in hung :
        /\ CloseEnds /\ phase[h] = "closed"
        /\ \E k \in Commands : pc[k] \in {"closeOld", "close"} /\ old[k] = h

PlaceInv ==
    \A k \in Commands :
        /\ pc[k] \in {"closeOld", "close"} => old[k] # None
        /\ pc[k] \in {"check", "queued", "running", "ready", "editing"} =>
              handle[k] # None
        /\ pc[k] \in {"idle", "remove"} \cup Connecting \cup Midway =>
              barred[k] = None
        /\ pc[k] \in Connecting =>
              /\ handle[k] # None
              /\ phase[handle[k]] \in IF At(k, "opening") THEN {"opening"}
                                       ELSE {"open", "closed"}
              /\ \A i \in Ids : conns[i] = handle[k] => i = id[k]
              /\ \A j \in Commands :
                    pc[j] \in Connecting /\ handle[j] = handle[k] => j = k

SerialInv ==
    \A k \in Commands :
        pc[k] \in Midway /\ id[k] \notin crossed =>
            /\ conns[id[k]] = IF pc[k] \in Connecting THEN handle[k] ELSE None
            /\ \A j \in Commands : pc[j] \in Midway /\ id[j] = id[k] => j = k

FlagInv ==
    \A i \in Ids \ crossed :
        conns[i] # None =>
            \/ i \in readOnly <=> profile[conns[i]].readOnly
            \/ \E k \in Commands :
                id[k] = i /\ pc[k] \in {"closeOld", "flag"}

Live(h) == phase[h] = "open" \/ h \in hung

StaysOut(k, h) ==
    /\ id[k] \notin crossed
    /\ profile[h].readOnly
    /\ phase[h] \in {"open", "closed"}
    /\ Live(h) =>
          /\ id[k] \in readOnly
          /\ pc[k] # "lookup"
          /\ pc[k] \in {"ready", "queued"} => handle[k] # h
          /\ \/ conns[id[k]] = h
             \/ \E j \in Commands :
                  id[j] = id[k] /\ pc[j] \in {"closeOld", "close"} /\ old[j] = h
    /\ Writing(k) => handle[k] # h \/ (~CloseEnds /\ phase[h] = "closed")

BarredInv == \A k \in Commands : barred[k] # None => StaysOut(k, barred[k])

ForwarderInv ==
    /\ NoForwarderLeaks
    /\ \A h \in forwarding : profile[h].tunnelled /\ phase[h] # "unused"

TunnelInv ==
    /\ \A i \in Ids :
        /\ i \notin crossed =>
            IF conns[i] = None
            THEN \/ tunnels[i] = None
                 \/ \E k \in Commands :
                      id[k] = i /\ pc[k] \in {"close", "untunnel"}
            ELSE profile[conns[i]].tunnelled => conns[i] \in forwarding
        /\ tunnels[i] # None =>
            /\ phase[tunnels[i]] \in {"open", "closed"}
            /\ \A j \in Ids : conns[j] = tunnels[i] => j = i
            /\ \A k \in Commands : pc[k] \in Connecting => handle[k] # tunnels[i]
    /\ \A k \in Commands :
        pc[k] \in {"opening", "register"} /\ profile[handle[k]].tunnelled =>
            handle[k] \in forwarding

IInv == TypeOK /\ OwnerInv /\ PlaceInv /\ SerialInv /\ FlagInv /\ BarredInv
        /\ TunnelInv

(* "read_only_connection_blocks_writes_and_grid_edits" (db/tests.rs 143): nothing
   at all writes through a connection opened read-only. *)
ReadOnlyBlocksWrites ==
    \A k \in Commands : Writing(k) => ~profile[handle[k]].readOnly

(* A command waits for a close() that may never return: its own, or that of a
   disconnect that keeps the registry locked meanwhile. *)
WaitsForHungClose(k) ==
    \E j \in Commands :
        /\ pc[j] \in {"closeOld", "close"} /\ old[j] \in hung
        /\ j = k \/ connsLock = j

(* Every command comes to an end or to a close() that hangs (session.rs 74-77):
   for nothing else do connects, disconnects and writers wait in a circle, on
   one another's locks and statements (mod.rs 197-204, 297-307). *)
CommandsEnd ==
    \A k \in Watched :
        ~At(k, "idle") ~> At(k, "idle") \/ WaitsForHungClose(k)
=============================================================================
