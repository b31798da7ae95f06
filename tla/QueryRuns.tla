------------------------------ MODULE QueryRuns ------------------------------
(***************************************************************************)
(* The window's side of a query run (use-query-runner.ts and               *)
(* query-lifecycle-machine.ts): what is shown while runs are started,      *)
(* stream, answer, fail and are cancelled.  Nothing keeps a second run     *)
(* from being started while one is in flight: the shortcut, the history    *)
(* and a commit do not look at the lifecycle machine.                      *)
(*                                                                         *)
(* The backend is external: it streams a run's columns and first page and  *)
(* then answers it, in any order between runs, and it keeps the result     *)
(* until its handle is released.                                           *)
(***************************************************************************)
EXTENDS Naturals, FiniteSets

CONSTANTS MaxRuns,      \* bound: how many runs are started
          MaxInFlight   \* bound: how many of them at once

ASSUME RunConstants == MaxRuns \in Nat /\ MaxInFlight \in Nat \ {0}

Runs == 1..MaxRuns
None == 0

VARIABLES
    machine,    \* the lifecycle machine's state
    started,    \* how many runs were started
    inFlight,   \* runs whose command has not answered
    headed,     \* those of them whose columns have arrived
    paints,     \* runs with a publish scheduled for the next frame
    runningId,  \* runningQueryIdRef
    cancelId,   \* cancelRequestedQueryIdRef
    cancels,    \* cancel commands the window waits for
    shown,      \* the result on screen: whose it is, and how it is held
    spill,      \* spillRef: the run whose handle the grid pages from
    retained,   \* results the backend keeps for a handle
    overlapped  \* history: two runs were in flight at once

runVars == <<machine, started, inFlight, headed, paints, runningId, cancelId,
             cancels, shown, spill, retained, overlapped>>

NoResult   == [run |-> None, held |-> "nothing"]
FirstPage(r) == [run |-> r, held |-> "streamed"]
Paged(r)     == [run |-> r, held |-> "paged"]
Restored  == [run |-> None, held |-> "history"]

Busy == machine \in {"running", "streaming"}

\* The transitions of queryLifecycleMachine; an event a state does not list
\* leaves it as it is.
Send(event) ==
    machine' =
        CASE event = "SUBMIT" /\ ~Busy -> "running"
          [] event = "COLUMNS" /\ machine = "running" -> "streaming"
          [] event \in {"done", "error", "cancelled"} /\ Busy -> event
          [] OTHER -> machine

RunInit ==
    /\ machine = "idle" /\ started = 0 /\ inFlight = {} /\ headed = {}
    /\ paints = {} /\ runningId = None /\ cancelId = None /\ cancels = {}
    /\ shown = NoResult /\ spill = None /\ retained = {} /\ overlapped = FALSE

-----------------------------------------------------------------------------
(* releaseActiveSpill: forget the handle and ask the backend to drop it.   *)
ReleaseSpill == spill' = None /\ retained' = retained \ {spill}

\* executeQuery up to its first await.  The result on screen stays.
ExecuteQuery ==
    /\ started < MaxRuns /\ Cardinality(inFlight) < MaxInFlight
    /\ started' = started + 1
    /\ Send("SUBMIT")
    /\ ReleaseSpill
    /\ inFlight' = inFlight \cup {started'}
    /\ runningId' = started'
    /\ overlapped' = (overlapped \/ inFlight # {})
    /\ UNCHANGED <<headed, paints, cancelId, cancels, shown>>

\* A columns event is published at once, a rows event with the next frame.
ColumnsArrive(r) ==
    /\ r \in inFlight \ headed
    /\ headed' = headed \cup {r}
    /\ Send("COLUMNS")
    /\ shown' = FirstPage(r)
    /\ UNCHANGED <<started, inFlight, paints, runningId, cancelId, cancels,
                   spill, retained, overlapped>>

RowsArrive(r) ==
    /\ r \in headed
    /\ paints' = paints \cup {r}
    /\ UNCHANGED <<machine, started, inFlight, headed, runningId, cancelId,
                   cancels, shown, spill, retained, overlapped>>

Paint(r) ==
    /\ r \in paints
    /\ paints' = paints \ {r}
    /\ shown' = FirstPage(r)
    /\ UNCHANGED <<machine, started, inFlight, headed, runningId, cancelId,
                   cancels, spill, retained, overlapped>>

\* The finally block: a scheduled publish of this run is dropped, its cancel is
\* forgotten, and no run is the running one, whichever was.

(* Mutated: the cancel of the run is not forgotten. *)
EndRunKeepsCancel(r) ==
    /\ inFlight' = inFlight \ {r} /\ headed' = headed \ {r}
    /\ paints' = paints \ {r}
    /\ cancelId' = cancelId
    /\ runningId' = None

EndRun(r) ==
    /\ inFlight' = inFlight \ {r} /\ headed' = headed \ {r}
    /\ paints' = paints \ {r}
    /\ cancelId' = IF cancelId = r THEN None ELSE cancelId
    /\ runningId' = None

\* The spill command answers with a handle (finalizeSpillRun): the grid pages
\* from it, whatever it showed before.
Answers(r) ==
    /\ r \in inFlight
    /\ retained' = retained \cup {r}
    /\ spill' = r
    /\ shown' = Paged(r)
    /\ Send("done")
    /\ EndRun(r)
    /\ UNCHANGED <<started, cancels, overlapped>>

\* Without offload the last event of the stream publishes the whole result.
StreamEnds(r) ==
    /\ r \in inFlight
    /\ shown' = FirstPage(r)
    /\ Send("done")
    /\ EndRun(r)
    /\ UNCHANGED <<started, cancels, spill, retained, overlapped>>

\* The run fails, or ends because it was cancelled: it is told as a cancel only
\* when a cancel of this very run is the one outstanding.
Fails(r, asCancelled) ==
    /\ r \in inFlight
    /\ Send(IF asCancelled /\ cancelId = r THEN "cancelled" ELSE "error")
    /\ EndRun(r)
    /\ UNCHANGED <<started, cancels, shown, spill, retained, overlapped>>

-----------------------------------------------------------------------------
\* cancelQuery: nothing runs, the cancel was asked for already, or it is sent.
CancelQuery ==
    /\ runningId \notin {None, cancelId}
    /\ cancelId' = runningId
    /\ cancels' = cancels \cup {runningId}
    /\ UNCHANGED <<machine, started, inFlight, headed, paints, runningId, shown,
                   spill, retained, overlapped>>

\* The cancel command answers: accepted, or there was nothing left to cancel.
CancelAnswers(r, accepted) ==
    /\ r \in cancels
    /\ cancels' = cancels \ {r}
    /\ cancelId' = IF ~accepted /\ cancelId = r THEN None ELSE cancelId
    /\ UNCHANGED <<machine, started, inFlight, headed, paints, runningId, shown,
                   spill, retained, overlapped>>

\* restoreHistoryResult: the rows the history kept replace the result.
RestoreHistoryResult ==
    /\ ReleaseSpill
    /\ shown' = Restored
    /\ UNCHANGED <<machine, started, inFlight, headed, paints, runningId,
                   cancelId, cancels, overlapped>>

RunNext ==
    \/ ExecuteQuery \/ CancelQuery \/ RestoreHistoryResult
    \/ \E r \in Runs :
        \/ ColumnsArrive(r) \/ RowsArrive(r) \/ Paint(r)
        \/ Answers(r) \/ StreamEnds(r)
        \/ \E b \in BOOLEAN : Fails(r, b) \/ CancelAnswers(r, b)

RunSpec == RunInit /\ [][RunNext]_runVars

-----------------------------------------------------------------------------
\* Every variable keeps its type.
RunTypeOK ==
    /\ machine \in {"idle", "running", "streaming", "done", "error", "cancelled"}
    /\ started \in 0..MaxRuns
    /\ inFlight \subseteq 1..started /\ headed \subseteq inFlight
    /\ paints \subseteq Runs /\ cancels \subseteq 1..started
    /\ runningId \in 0..started /\ cancelId \in 0..started
    /\ shown \in [run : 0..started,
                  held : {"nothing", "streamed", "paged", "history"}]
    /\ spill \in 0..started /\ retained \subseteq 1..started
    /\ overlapped \in BOOLEAN

\* The window never waits for a run that has ended, however runs overlap: it is
\* busy only while one is in flight.
BusyMeansInFlight == Busy => inFlight # {}

\* The run a Cancel would name, and the run a cancel is outstanding for, are
\* runs in flight: no cancel is ever told to a run that came after.
CancelsAreForLiveRuns ==
    /\ runningId # None => runningId \in inFlight
    /\ cancelId # None => cancelId \in inFlight

\* What is scheduled for the next frame belongs to a run in flight, so a result
\* that is complete is not painted over by its own first page.
PaintsAreOfLiveRuns == paints \subseteq inFlight

\* As long as no two runs overlapped, the backend keeps a result only for the
\* grid that shows it.
OneAtATimeLeaksNothing == ~overlapped => retained \subseteq {spill}

\* As long as no two runs overlapped, the grid pages from the result it shows.
OneAtATimePagesWhatItShows ==
    ~overlapped /\ spill # None => shown = Paged(spill)

\* What the window waits for, may cancel or will paint belongs to a run in flight,
\* however many overlap and in whatever order they end; and runs that do not overlap
\* leave one result, and the one that is shown.
RunsAreSound ==
    /\ RunTypeOK /\ BusyMeansInFlight /\ CancelsAreForLiveRuns /\ PaintsAreOfLiveRuns
    /\ OneAtATimeLeaksNothing /\ OneAtATimePagesWhatItShows
=============================================================================
