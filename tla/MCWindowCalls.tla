---------------------------- MODULE MCWindowCalls ----------------------------
(***************************************************************************)
(* Small instances, for TLC, of the parts of the window in which answers   *)
(* and timers come late: runs, paging, connections, the keyboard and the   *)
(* Git panel.  The models share no variable, so one run checks each of     *)
(* them by itself: a behaviour is one of `part`, and the others stay in an *)
(* initial state, in which none of their fair actions is enabled.          *)
(***************************************************************************)
EXTENDS QueryRuns, ResultPaging, WindowConnections, Keybindings, GitPanel

VARIABLE part

callVarsAll == <<part, runVars, pagingVars, windowVars, keyVars, panelVars>>

MCUsedUp == {<<0, 2>>, <<1, 0>>}

\* A global command, one of the editor and one of the grid, which share a
\* default sequence.
MCCatalog   == <<"open", "run", "commit">>
MCScopeOf   == [open |-> "global", run |-> "editor", commit |-> "grid"]
MCDefault   == [open |-> <<"ModK">>, run |-> <<"ModS">>, commit |-> <<"ModS">>]
MCChords    == {"ModK", "ModS", "g", "Escape"}
MCBare      == {"g", "Escape"}
MCReserved  == {"ModK"}
MCSuggested == [open |-> <<"ModS", "ModK">>]

CallsInit ==
    /\ part \in {"runs", "paging", "connections", "keys", "git"}
    /\ RunInit /\ PagingInit /\ WindowInit /\ KeyInit /\ PanelInit
    /\ part # "connections" => profiles = << >> /\ commands = 0
    /\ part # "keys" => ~overlay
    /\ part # "git" => repoPath = NotARepo

CallsNext ==
    /\ UNCHANGED part
    /\ \/ /\ part = "runs" /\ RunNext
          /\ UNCHANGED <<pagingVars, windowVars, keyVars, panelVars>>
       \/ /\ part = "paging" /\ PagingNext
          /\ UNCHANGED <<runVars, windowVars, keyVars, panelVars>>
       \/ /\ part = "connections" /\ WindowNext
          /\ UNCHANGED <<runVars, pagingVars, keyVars, panelVars>>
       \/ /\ part = "keys" /\ KeyNext
          /\ UNCHANGED <<runVars, pagingVars, windowVars, panelVars>>
       \/ /\ part = "git" /\ PanelNext
          /\ UNCHANGED <<runVars, pagingVars, windowVars, keyVars>>

CallsSpec ==
    CallsInit /\ [][CallsNext]_callVarsAll /\ PagingFairness /\ WindowFairness
=============================================================================
