------------------------------ MODULE GitGraph ------------------------------
(***************************************************************************)
(* The lanes of the commit graph (features/git/git-graph.ts).  Commits are *)
(* drawn a row each, newest first.  A lane is open for every parent that   *)
(* is still to come, a commit takes the lane opened for it, or a new one,  *)
(* and leaves its lane to its first parent.                                *)
(*                                                                         *)
(* Commits are numbers, a child's below its parents' (the log is in date   *)
(* order, parents after children).  The filters of the panel leave some of *)
(* them out, and parents beyond the log's limit are never shown.           *)
(***************************************************************************)
EXTENDS Naturals, FiniteSets, SequencesExt, Positions

CONSTANTS
    Logged,    \* how many commits the log holds
    Beyond,    \* how many more there are, parents only
    MaxParents

ASSUME GraphConstants == {Logged, Beyond, MaxParents} \subseteq Nat

\* The parents a commit may have: some later ones, in any order.
ParentLists(c) ==
    {ps \in UNION {[1..n -> (c + 1)..(Logged + Beyond)] : n \in 0..MaxParents} :
        IsInjective(ps)}

VARIABLES
    parents,   \* of the commits looked at, in order
    drawn,     \* those of them the filters let through
    lanes,     \* the open lanes: each is for the commit it leads to
    row        \* the row drawn last

graphVars == <<parents, drawn, lanes, row>>

NoRow == [commit |-> 0, lane |-> 0, before |-> << >>, after |-> << >>, parentLanes |-> << >>]

GraphInit == parents = << >> /\ drawn = {} /\ lanes = << >> /\ row = NoRow

LaneOf(ls, c) == CHOOSE i \in DOMAIN ls : ls[i] = c

(* Mutated: two lanes that lead to the same commit stay two. *)
DedupeLanesNot(ls) == ls

\* dedupeLanes: the first lane that leads to a commit is kept.
DedupeLanes(ls) == Picked(ls, {i \in DOMAIN ls : \A j \in 1..i-1 : ls[j] # ls[i]})

\* The lanes below a commit: its own goes to its first parent, or ends, and its
\* other parents get lanes beside it unless they have one.
AfterCommit(before, lane, ps) ==
    IF ps = << >> THEN Picked(before, DOMAIN before \ {lane})
    ELSE LET led == [before EXCEPT ![lane] = Head(ps)]
         IN  DedupeLanes(SubSeq(led, 1, lane)
                         \o Picked(ps, {i \in 2..Len(ps) : ps[i] \notin Range(led)})
                         \o SubSeq(led, lane + 1, Len(led)))

\* buildGitGraphRows, one commit c of it, whose parents are ps.
DrawRow(c, ps) ==
    /\ parents' = Append(parents, ps) /\ drawn' = drawn \cup {c}
    /\ LET before == IF c \in Range(lanes) THEN lanes ELSE Append(lanes, c)
           lane   == LaneOf(before, c)
           after  == AfterCommit(before, lane, ps)
           joined == Picked(ps, {i \in DOMAIN ps : ps[i] \in Range(after)})
       IN  /\ row' = [commit |-> c, lane |-> lane, before |-> before, after |-> after,
                      parentLanes |-> [i \in DOMAIN joined |-> LaneOf(after, joined[i])]]
           /\ lanes' = after

\* filterGraphCommits leaves a commit out.
LeaveOut(ps) ==
    /\ parents' = Append(parents, ps)
    /\ UNCHANGED <<drawn, lanes, row>>

GraphNext ==
    /\ Len(parents) < Logged
    /\ LET c == Len(parents) + 1
       IN  \E ps \in ParentLists(c) : DrawRow(c, ps) \/ LeaveOut(ps)

GraphSpec == GraphInit /\ [][GraphNext]_graphVars

-----------------------------------------------------------------------------
\* The parents of the commits drawn.
Awaited == UNION {Range(parents[c]) : c \in drawn}

\* The lanes lead to different commits, and exactly to those that a drawn commit
\* has for a parent and that are not drawn themselves.
LanesLeadToParents ==
    /\ IsInjective(lanes)
    /\ Range(lanes) = Awaited \ drawn

\* A row joins its commit to every one of its parents, by the lane that leads
\* there.
EdgesAreDrawn ==
    row.commit # 0 =>
        /\ row.before[row.lane] = row.commit
        /\ Len(row.parentLanes) = Len(parents[row.commit])
        /\ \A i \in DOMAIN row.parentLanes :
               row.after[row.parentLanes[i]] = parents[row.commit][i]

\* The graph shows who is whose parent, by lanes that lead on and by edges.
GraphIsSound == LanesLeadToParents /\ EdgesAreDrawn
=============================================================================
