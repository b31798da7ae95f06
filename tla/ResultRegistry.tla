--------------------------- MODULE ResultRegistry ---------------------------
(***************************************************************************)
(* The results kept for paging: DbState.results, the runs that register a  *)
(* result when they are done (register_result, runner.rs 493-527), and the *)
(* commands that read a page of one, release one, or disconnect.           *)
(*                                                                         *)
(* A store stands for the run that fills it as well: both are made         *)
(* together, and a run registers its store at most once.  What a store     *)
(* holds is the matter of ResultStore; here it is open until it is closed  *)
(* or dropped.                                                             *)
(***************************************************************************)
EXTENDS Naturals, FiniteSets

CONSTANTS Conns,         (* connection ids                                 *)
          Stores,        (* bound: runs that keep their result             *)
          Commands,      (* slots for the other commands in flight         *)
          MaxRetained,   (* MAX_RETAINED_RESULTS                           *)
          None

ASSUME SomeConn == Conns # {}
ASSUME MaxAssumption == MaxRetained \in Nat \ {0}
ASSUME NoneIsNothing == None \notin Conns \cup Stores \cup Commands
ASSUME Distinct == Stores \cap Commands = {}

VARIABLES
    connected,   (* the ids in DbState.conns                               *)
    results,     (* the stores in DbState.results                          *)
    conn,        (* [Stores -> its connection]                             *)
    seq,         (* [Stores -> its number, from result_seq]                *)
    nextSeq,     (* DbState.result_seq                                     *)
    run,         (* [Stores -> where its run is]                           *)
    open,        (* stores neither closed nor dropped                      *)
    lock,        (* [Stores -> the command that has its mutex, or None]    *)
    pc,          (* [Commands -> where the command is]                     *)
    about,       (* [Commands -> the store it reads or the id it ends]     *)
    taken,       (* [Stores \cup Commands -> stores it took out to close]  *)
    late         (* history: stores whose run went on after the results of *)
                 (* its connection had been released                       *)

vars == <<connected, results, conn, seq, nextSeq, run, open, lock, pc, about,
          taken, late>>

InFlight == {"running", "numbered"}

TypeOK ==
    /\ connected \subseteq Conns
    /\ results \subseteq Stores
    /\ conn \in [Stores -> Conns]
    /\ seq \in [Stores -> Nat]
    /\ nextSeq \in Nat
    /\ run \in [Stores -> {"unused", "closing", "over"} \cup InFlight]
    /\ open \subseteq Stores
    /\ lock \in [Stores -> Commands \cup {None}]
    /\ pc \in [Commands -> {"idle", "found", "reading", "ending", "closing"}]
    /\ about \in [Commands -> Stores \cup Conns \cup {None}]
    /\ taken \in [Stores \cup Commands -> SUBSET Stores]
    /\ late \subseteq Stores

Init ==
    /\ connected = {}
    /\ results = {}
    /\ conn = [s \in Stores |-> CHOOSE c \in Conns : TRUE]
    /\ seq = [s \in Stores |-> 0]
    /\ nextSeq = 0
    /\ run = [s \in Stores |-> "unused"]
    /\ open = {}
    /\ lock = [s \in Stores |-> None]
    /\ pc = [k \in Commands |-> "idle"]
    /\ about = [k \in Commands |-> None]
    /\ taken = [x \in Stores \cup Commands |-> {}]
    /\ late = {}

-----------------------------------------------------------------------------
(* A connect leaves the results of the connection it replaces alone. *)
Connect(c) ==
    /\ connected' = connected \cup {c}
    /\ UNCHANGED <<results, conn, seq, nextSeq, run, open, lock, pc, about, taken,
                   late>>

(* run_query_spill_impl *)

StartRun(s, c) ==
    /\ run[s] = "unused"
    /\ c \in connected
    /\ run' = [run EXCEPT ![s] = "running"]
    /\ conn' = [conn EXCEPT ![s] = c]
    /\ open' = open \cup {s}
    /\ UNCHANGED <<connected, results, seq, nextSeq, lock, pc, about, taken, late>>

RunFails(s) ==
    /\ run[s] = "running"
    /\ run' = [run EXCEPT ![s] = "over"]
    /\ open' = open \ {s}
    /\ UNCHANGED <<connected, results, conn, seq, nextSeq, lock, pc, about, taken,
                   late>>

(* The number is drawn before the registry is locked. *)
Number(s) ==
    /\ run[s] = "running"
    /\ run' = [run EXCEPT ![s] = "numbered"]
    /\ seq' = [seq EXCEPT ![s] = nextSeq]
    /\ nextSeq' = nextSeq + 1
    /\ UNCHANGED <<connected, results, conn, open, lock, pc, about, taken, late>>

Register(s) ==
    /\ run[s] = "numbered"
    /\ Cardinality(results \cup {s}) <= MaxRetained
    /\ results' = results \cup {s}
    /\ run' = [run EXCEPT ![s] = "over"]
    /\ UNCHANGED <<connected, conn, seq, nextSeq, open, lock, pc, about, taken,
                   late>>

(* Mutated: the evicted store is left to its other owners. *)
EvictOnly(s) ==
    /\ run[s] = "numbered"
    /\ Cardinality(results \cup {s}) > MaxRetained
    /\ \E o \in results \cup {s} :
        /\ \A t \in results \cup {s} : seq[o] <= seq[t]
        /\ results' = (results \cup {s}) \ {o}
    /\ run' = [run EXCEPT ![s] = "over"]
    /\ UNCHANGED <<connected, conn, seq, nextSeq, open, lock, pc, about, taken,
                   late>>

(* The oldest by number makes room; it may be s itself. *)
RegisterAndEvict(s) ==
    /\ run[s] = "numbered"
    /\ Cardinality(results \cup {s}) > MaxRetained
    /\ \E o \in results \cup {s} :
        /\ \A t \in results \cup {s} : seq[o] <= seq[t]
        /\ results' = (results \cup {s}) \ {o}
        /\ taken' = [taken EXCEPT ![s] = {o}]
    /\ run' = [run EXCEPT ![s] = "closing"]
    /\ UNCHANGED <<connected, conn, seq, nextSeq, open, lock, pc, about, late>>

CloseEvicted(s) ==
    /\ run[s] = "closing"
    /\ \A o \in taken[s] : lock[o] = None
    /\ open' = open \ taken[s]
    /\ taken' = [taken EXCEPT ![s] = {}]
    /\ run' = [run EXCEPT ![s] = "over"]
    /\ UNCHANGED <<connected, results, conn, seq, nextSeq, lock, pc, about, late>>

-----------------------------------------------------------------------------
(* result_window_impl: the store is cloned out of the registry, then locked. *)

FindStore(k, s) ==
    /\ pc[k] = "idle"
    /\ s \in results
    /\ pc' = [pc EXCEPT ![k] = "found"]
    /\ about' = [about EXCEPT ![k] = s]
    /\ UNCHANGED <<connected, results, conn, seq, nextSeq, run, open, lock, taken,
                   late>>

BeginRead(k) ==
    /\ pc[k] = "found"
    /\ lock[about[k]] = None
    /\ pc' = [pc EXCEPT ![k] = "reading"]
    /\ lock' = [lock EXCEPT ![about[k]] = k]
    /\ UNCHANGED <<connected, results, conn, seq, nextSeq, run, open, about, taken,
                   late>>

(* Mutated: the mutex is kept. *)
EndReadLocked(k) ==
    /\ pc[k] = "reading"
    /\ pc' = [pc EXCEPT ![k] = "idle"]
    /\ about' = [about EXCEPT ![k] = None]
    /\ UNCHANGED <<connected, results, conn, seq, nextSeq, run, open, lock, taken,
                   late>>

EndRead(k) ==
    /\ pc[k] = "reading"
    /\ pc' = [pc EXCEPT ![k] = "idle"]
    /\ about' = [about EXCEPT ![k] = None]
    /\ lock' = [lock EXCEPT ![about[k]] = None]
    /\ UNCHANGED <<connected, results, conn, seq, nextSeq, run, open, taken, late>>

(* release_result_impl *)
Release(k, s) ==
    /\ pc[k] = "idle"
    /\ s \in results
    /\ results' = results \ {s}
    /\ pc' = [pc EXCEPT ![k] = "closing"]
    /\ taken' = [taken EXCEPT ![k] = {s}]
    /\ UNCHANGED <<connected, conn, seq, nextSeq, run, open, lock, about, late>>

(* disconnect_impl: the connection goes, and later its results.  A disconnect
   of an id that is not connected releases its results too. *)
StartDisconnect(k, c) ==
    /\ pc[k] = "idle"
    /\ connected' = connected \ {c}
    /\ pc' = [pc EXCEPT ![k] = "ending"]
    /\ about' = [about EXCEPT ![k] = c]
    /\ UNCHANGED <<results, conn, seq, nextSeq, run, open, lock, taken, late>>

Of(c) == {s \in Stores : conn[s] = c}

(* release_results_for_connection *)
ReleaseAllOf(k) ==
    /\ pc[k] = "ending"
    /\ results' = results \ Of(about[k])
    /\ taken' = [taken EXCEPT ![k] = results \cap Of(about[k])]
    /\ late' = late \cup {s \in Of(about[k]) : run[s] \in InFlight}
    /\ pc' = [pc EXCEPT ![k] = "closing"]
    /\ about' = [about EXCEPT ![k] = None]
    /\ UNCHANGED <<connected, conn, seq, nextSeq, run, open, lock>>

CloseTaken(k) ==
    /\ pc[k] = "closing"
    /\ \E s \in taken[k] :
        /\ lock[s] = None
        /\ open' = open \ {s}
        /\ taken' = [taken EXCEPT ![k] = @ \ {s}]
    /\ UNCHANGED <<connected, results, conn, seq, nextSeq, run, lock, pc, about,
                   late>>

EndClosing(k) ==
    /\ pc[k] = "closing"
    /\ taken[k] = {}
    /\ pc' = [pc EXCEPT ![k] = "idle"]
    /\ UNCHANGED <<connected, results, conn, seq, nextSeq, run, open, lock, about,
                   taken, late>>

-----------------------------------------------------------------------------
Finish(s) == Number(s) \/ Register(s) \/ RegisterAndEvict(s) \/ CloseEvicted(s)

Continue(k) ==
    BeginRead(k) \/ EndRead(k) \/ ReleaseAllOf(k) \/ CloseTaken(k) \/ EndClosing(k)

Next ==
    \/ \E c \in Conns : Connect(c)
    \/ \E s \in Stores :
        \/ \E c \in Conns : StartRun(s, c)
        \/ RunFails(s) \/ Finish(s)
    \/ \E k \in Commands :
        \/ Continue(k)
        \/ \E s \in Stores : FindStore(k, s) \/ Release(k, s)
        \/ \E c \in Conns : StartDisconnect(k, c)

Spec == Init /\ [][Next]_vars

(* The runtime drives every command that is under way, and tokio's mutexes
   serve their waiters in turn. *)
Fairness ==
    /\ \A s \in Stores : SF_vars(CloseEvicted(s))
    /\ \A k \in Commands : SF_vars(Continue(k))

FairSpec == Spec /\ Fairness

-----------------------------------------------------------------------------
(* Properties *)

(* A result that can be found has its rows: it is closed only by the command
   that has taken it out of the registry (runner.rs 503-525, 551-575). *)
RetainedAreOpen == results \subseteq open

(* An open store, and the temporary file with it, is in the registry, or its
   run is not done, or exactly one command has it in hand to close it. *)
NoStoreLeaks ==
    \A s \in open :
        \/ s \in results
        \/ run[s] \in InFlight
        \/ \E x \in Stores \cup Commands : s \in taken[x]

(* The registry never holds more than MAX_RETAINED_RESULTS, whatever the order
   in which runs end, so neither does the disk (runner.rs 512). *)
RetainedAreBounded == Cardinality(results) <= MaxRetained

(* Once a disconnect is through, the only results left of its connection are
   those of runs that were still under way when it released the others. *)
OnlyLateResultsRemain ==
    \A s \in results \ late :
        \/ conn[s] \in connected
        \/ \E k \in Commands : pc[k] = "ending" /\ about[k] = conn[s]

(* What can be found is open, what is open can be found or will be closed, there
   are never too many, and a disconnect leaves only what was still being made
   (runner.rs 493-576). *)
RegistryIsSound ==
    RetainedAreOpen /\ NoStoreLeaks /\ RetainedAreBounded /\ OnlyLateResultsRemain

(* A store that was taken out of the registry is closed in the end, whoever
   reads it meanwhile. *)
TakenStoresClose ==
    \A s \in Stores :
        (\E x \in Stores \cup Commands : s \in taken[x]) ~> s \notin open

(* The inductive strengthening: a store is in one place at a time. *)
InHand(x, s) == s \in taken[x]

PlaceInv ==
    /\ \A s \in results : run[s] \in {"closing", "over"} /\ s \in open
    /\ \A s \in Stores : run[s] \in InFlight => s \in open
    /\ \A x \in Stores \cup Commands, s \in Stores :
        InHand(x, s) => s \notin results /\ run[s] \in {"closing", "over"}
    /\ \A s \in Stores : run[s] # "closing" => taken[s] = {}
    /\ \A k \in Commands : pc[k] # "closing" => taken[k] = {}

LateInv ==
    \A s \in Stores \ late :
        run[s] \in InFlight \/ s \in results =>
            \/ conn[s] \in connected
            \/ \E k \in Commands : pc[k] = "ending" /\ about[k] = conn[s]

IInv == TypeOK /\ PlaceInv /\ NoStoreLeaks /\ LateInv
=============================================================================
