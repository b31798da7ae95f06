------------------------------ MODULE GitPanel ------------------------------
(***************************************************************************)
(* The window's git panel (features/git/git-store.ts, GitDrawer.tsx): the  *)
(* path of a repository, what was last read of it, and the calls under     *)
(* way.  A call keeps the path it was sent with; what the panel shows is   *)
(* replaced by whatever answer comes in.                                   *)
(*                                                                         *)
(* The backend runs git in the repository of a call at some time between   *)
(* the call and its answer.  A repository is its changed files and the     *)
(* number of its commits; only the panel changes it.                       *)
(***************************************************************************)
EXTENDS Naturals, FiniteSets

CONSTANTS
    Repos,       \* the repositories there are
    NotARepo,    \* a path that is none, yet
    Nothing,     \* null: a model value
    Files,       \* their files
    MaxSteps,    \* bound: how often the user does something
    MaxCommits   \* bound: commits of a repository

ASSUME PanelConstants ==
    /\ NotARepo \notin Repos /\ Nothing \notin Files /\ IsFiniteSet(Files)
    /\ Nothing \notin [path : Repos \cup {NotARepo}, files : SUBSET Files, head : Nat]
    /\ {MaxSteps, MaxCommits} \subseteq Nat

Paths   == Repos \cup {NotARepo}
FileCommands == {"stagePaths", "discardPaths"}
RepoCommands == {"commitAll", "fetch", "pull"}

VARIABLES
    repoPath,      \* the repository the panel is set to
    status,        \* what is shown of one: its path, changes and commits
    selectedPath, diff,
    selectedCommit, selectedCommitPath, commitDiff,
    loading, commitDiffLoading,
    setupReason,   \* no repository was found
    commitMessage, \* there is one
    repo,          \* the repositories themselves; no entry for a plain path
    calls,         \* the calls under way
    steps,
    overlappedCalls \* history: two refreshes or commands were under way at once,
                   \* or a refresh failed

panelVars == <<repoPath, status, selectedPath, diff, selectedCommit,
               selectedCommitPath, commitDiff, loading, commitDiffLoading,
               setupReason, commitMessage, repo, calls, steps, overlappedCalls>>

shownVars    == <<status, selectedPath, selectedCommit, setupReason>>
commitVars   == <<selectedCommitPath, commitDiff, commitDiffLoading>>

IsRepo(p) == p \in DOMAIN repo
CommitsOf(s) == IF s = Nothing THEN {} ELSE {<<s.path, n>> : n \in 1..s.head}
FilesOf(s)   == IF s = Nothing THEN {} ELSE s.files
Read(p)      == [path |-> p, files |-> repo[p].files, head |-> repo[p].head]

Main(call) == call.kind \in {"refresh", "command"}

PanelInit ==
    /\ repoPath \in Paths
    /\ repo = [p \in Repos |-> [files |-> Files, head |-> 1]]
    /\ status = Nothing /\ selectedPath = Nothing /\ diff = Nothing
    /\ selectedCommit = Nothing /\ selectedCommitPath = Nothing /\ commitDiff = Nothing
    /\ loading = FALSE /\ commitDiffLoading = FALSE /\ setupReason = FALSE
    /\ commitMessage = FALSE /\ calls = {} /\ steps = 0 /\ overlappedCalls = FALSE

-----------------------------------------------------------------------------
(* Calls.                                                                  *)

\* A call gets a number no other one under way has.
FreshId(kept) == CHOOSE n \in 0..Cardinality(kept) : \A c \in kept : c.id # n

RefreshCall(kept, p) ==
    [kind |-> "refresh", id |-> FreshId(kept), path |-> p, read |-> {}, none |-> FALSE,
     files |-> {}, head |-> 0]
FileCall(kept, f) ==
    [kind |-> "file", id |-> FreshId(kept), path |-> repoPath, file |-> f]
CommitFileCall(kept, c, f) ==
    [kind |-> "commitFile", id |-> FreshId(kept), path |-> repoPath, commit |-> c, file |-> f]
CommandCall(name, f) ==
    [kind |-> "command", id |-> FreshId(calls), path |-> repoPath, name |-> name, file |-> f,
     shown |-> status, done |-> "sent"]

SendCalls(kept, sent) ==
    /\ calls' = kept \cup sent
    /\ overlappedCalls' = (overlappedCalls \/ Cardinality({c \in kept \cup sent : Main(c)}) > 1)

\* refresh of a path, up to its await; `kept` are the calls that stay under way.
RefreshPath(kept, p) == loading' = TRUE /\ SendCalls(kept, {RefreshCall(kept, p)})

Step == steps < MaxSteps /\ steps' = steps + 1

\* selectCommitFile, up to its await.
SelectCommitFile(kept, commit, f) ==
    IF commit = Nothing
    THEN /\ commitDiff' = Nothing /\ commitDiffLoading' = FALSE
         /\ selectedCommitPath' = Nothing /\ SendCalls(kept, {})
    ELSE /\ commitDiff' = Nothing /\ commitDiffLoading' = TRUE
         /\ selectedCommitPath' = f /\ SendCalls(kept, {CommitFileCall(kept, commit, f)})

-----------------------------------------------------------------------------
(* The user.                                                               *)

\* The refresh button, or the panel being opened, which asks nothing.
PressRefresh ==
    /\ Step /\ RefreshPath(calls, repoPath)
    /\ UNCHANGED <<repoPath, shownVars, commitVars, diff, commitMessage, repo>>

\* setRepoPath: what was shown is dropped, and the new path is read.
SetRepoPath(p) ==
    /\ Step /\ repoPath' = p
    /\ status' = Nothing /\ selectedPath' = Nothing /\ diff' = Nothing
    /\ selectedCommit' = Nothing /\ selectedCommitPath' = Nothing /\ commitDiff' = Nothing
    /\ setupReason' = FALSE
    /\ RefreshPath(calls, p)
    /\ UNCHANGED <<commitDiffLoading, commitMessage, repo>>

\* selectFile: any of the files shown.
SelectFile(f) ==
    /\ Step /\ f \in FilesOf(status)
    /\ selectedPath' = f /\ SendCalls(calls, {FileCall(calls, f)})
    /\ UNCHANGED <<repoPath, status, selectedCommit, setupReason, commitVars, diff,
                   loading, commitMessage, repo>>

\* selectCommit, and a file of it.
SelectCommit(c) ==
    /\ Step /\ c \in CommitsOf(status)
    /\ selectedCommit' = c /\ SelectCommitFile(calls, c, Nothing)
    /\ UNCHANGED <<repoPath, status, selectedPath, setupReason, diff, loading,
                   commitMessage, repo>>

PickCommitFile(f) ==
    /\ Step /\ selectedCommit # Nothing
    /\ SelectCommitFile(calls, selectedCommit, f)
    /\ UNCHANGED <<repoPath, shownVars, diff, loading, commitMessage, repo>>

TypeMessage ==
    /\ ~commitMessage /\ commitMessage' = TRUE
    /\ UNCHANGED <<repoPath, shownVars, commitVars, diff, loading, repo, calls, steps,
                   overlappedCalls>>

\* A command of the panel, sent when its button is not disabled: one that works
\* on the selected file, on all, or on the repository.  The branch controls,
\* which are never disabled, send commands that change nothing here.
RunCommand(name, f) ==
    /\ Step /\ status # Nothing
    /\ \/ name \in FileCommands /\ ~loading /\ f = selectedPath /\ f # Nothing
       \/ name = "commitAll" /\ ~loading /\ f = Nothing /\ commitMessage
                             /\ FilesOf(status) # {}
       \/ name \in {"fetch", "pull"} /\ ~loading /\ f = Nothing
       \/ name = "checkoutBranch" /\ f = Nothing
    /\ loading' = TRUE /\ SendCalls(calls, {CommandCall(name, f)})
    /\ UNCHANGED <<repoPath, shownVars, commitVars, diff, commitMessage, repo>>

\* initRepository, offered while no repository is found.
InitRepository ==
    /\ Step /\ setupReason /\ ~loading
    /\ loading' = TRUE /\ SendCalls(calls, {CommandCall("init", Nothing)})
    /\ UNCHANGED <<repoPath, shownVars, commitVars, diff, commitMessage, repo>>

-----------------------------------------------------------------------------
(* The backend.                                                            *)

Changed(r, name, f) ==
    CASE name = "commitAll" -> [files |-> {}, head |-> r.head + 1]
      [] name = "discardPaths" -> [r EXCEPT !.files = @ \ {f}]
      [] name = "pull" -> [r EXCEPT !.head = @ + 1]
      [] OTHER -> r

\* git_status and git_log, two calls, read a repository, or find none.
BackendReads(c) ==
    /\ c \in calls /\ c.kind = "refresh" /\ ~c.none
    /\ \/ ~IsRepo(c.path) /\ calls' = (calls \ {c}) \cup {[c EXCEPT !.none = TRUE]}
       \/ /\ IsRepo(c.path) /\ "status" \notin c.read
          /\ calls' = (calls \ {c}) \cup {[c EXCEPT !.read = @ \cup {"status"},
                                                    !.files = repo[c.path].files]}
       \/ /\ IsRepo(c.path) /\ "log" \notin c.read
          /\ calls' = (calls \ {c}) \cup {[c EXCEPT !.read = @ \cup {"log"},
                                                    !.head = repo[c.path].head]}
    /\ UNCHANGED <<repoPath, shownVars, commitVars, diff, loading, commitMessage, repo,
                   steps, overlappedCalls>>

\* A command does its work.
BackendDoes(c) ==
    /\ c \in calls /\ c.kind = "command" /\ c.done = "sent"
    /\ \/ /\ c.name = "init"
          /\ repo' = [p \in DOMAIN repo \cup {c.path} |->
                        IF p \in DOMAIN repo THEN repo[p]
                        ELSE [files |-> {}, head |-> 0]]
       \/ /\ c.name # "init" /\ IsRepo(c.path) /\ repo[c.path].head < MaxCommits
          /\ repo' = [repo EXCEPT ![c.path] = Changed(@, c.name, c.file)]
    /\ calls' = (calls \ {c}) \cup {[c EXCEPT !.done = "done"]}
    /\ UNCHANGED <<repoPath, shownVars, commitVars, diff, loading, commitMessage, steps,
                   overlappedCalls>>

-----------------------------------------------------------------------------
(* Answers.                                                                *)

\* What is selected stays so if it is listed; else the first of the list, here
\* any, is selected.
StillOrFirst(selected, listed) ==
    IF selected \in listed THEN {selected}
    ELSE IF listed = {} THEN {Nothing} ELSE listed

\* A refresh is answered: both lists are shown, and the diffs are asked for.
RefreshAnswered(c) ==
    /\ c \in calls /\ c.kind = "refresh" /\ ~c.none /\ c.read = {"status", "log"}
    /\ status' = [path |-> c.path, files |-> c.files, head |-> c.head]
    /\ setupReason' = FALSE /\ loading' = FALSE
    /\ \E f \in StillOrFirst(selectedPath, c.files),
          h \in StillOrFirst(selectedCommit, CommitsOf(status')) :
        /\ selectedPath' = f /\ selectedCommit' = h
        /\ SelectCommitFile((calls \ {c}) \cup {FileCall(calls \ {c}, f)}, h, Nothing)
    /\ UNCHANGED <<repoPath, diff, commitMessage, repo, steps>>

\* No repository: the panel offers to set one up.
RefreshFindsNone(c) ==
    /\ c \in calls /\ c.kind = "refresh" /\ c.none
    /\ setupReason' = TRUE /\ status' = Nothing /\ selectedPath' = Nothing
    /\ selectedCommit' = Nothing /\ commitDiff' = Nothing /\ selectedCommitPath' = Nothing
    /\ diff' = Nothing /\ loading' = FALSE
    /\ SendCalls(calls \ {c}, {})
    /\ UNCHANGED <<repoPath, commitDiffLoading, commitMessage, repo, steps>>

RefreshFails(c) ==
    /\ c \in calls /\ c.kind = "refresh"
    /\ loading' = FALSE
    /\ calls' = calls \ {c} /\ overlappedCalls' = TRUE
    /\ UNCHANGED <<repoPath, shownVars, commitVars, diff, commitMessage, repo, steps>>

\* A command is answered, and the path the panel is set to by now is read.
CommandAnswered(c) ==
    /\ c \in calls /\ c.kind = "command" /\ c.done = "done"
    /\ commitMessage' = (commitMessage /\ c.name # "commitAll")
    /\ RefreshPath(calls \ {c}, repoPath)
    /\ UNCHANGED <<repoPath, steps, shownVars, commitVars, diff, repo>>

\* A command fails; what it did may have been done.
CommandFails(c) ==
    /\ c \in calls /\ c.kind = "command"
    /\ loading' = FALSE
    /\ calls' = calls \ {c} /\ overlappedCalls' = TRUE
    /\ UNCHANGED <<repoPath, shownVars, commitVars, diff, commitMessage, repo, steps>>

\* selectFile after its await: the diff is shown whatever is selected by now.
FileAnswered(c) ==
    /\ c \in calls /\ c.kind = "file"
    /\ diff' \in {diff, [path |-> c.path, file |-> c.file]}
    /\ calls' = calls \ {c}
    /\ UNCHANGED <<repoPath, shownVars, commitVars, loading, commitMessage, repo, steps,
                   overlappedCalls>>

(* Mutated: the answer is shown whatever is selected by now. *)
CommitFileAnsweredAlways(c) ==
    /\ c \in calls /\ c.kind = "commitFile"
    /\ commitDiff' = [commit |-> c.commit, file |-> c.file]
    /\ commitDiffLoading' = FALSE
    /\ calls' = calls \ {c}
    /\ UNCHANGED <<repoPath, shownVars, selectedCommitPath, diff, loading, commitMessage,
                   repo, steps, overlappedCalls>>

\* selectCommitFile after its await: an answer, or an error, for what is not
\* selected any more is dropped.
CommitFileAnswered(c) ==
    /\ c \in calls /\ c.kind = "commitFile"
    /\ IF c.commit = selectedCommit /\ c.file = selectedCommitPath
       THEN /\ commitDiff' \in {commitDiff, [commit |-> c.commit, file |-> c.file]}
            /\ commitDiffLoading' = FALSE
       ELSE UNCHANGED <<commitDiff, commitDiffLoading>>
    /\ calls' = calls \ {c}
    /\ UNCHANGED <<repoPath, shownVars, selectedCommitPath, diff, loading, commitMessage,
                   repo, steps, overlappedCalls>>

Answer(c) ==
    \/ BackendReads(c) \/ BackendDoes(c)
    \/ RefreshAnswered(c) \/ RefreshFindsNone(c) \/ RefreshFails(c)
    \/ CommandAnswered(c) \/ CommandFails(c) \/ FileAnswered(c) \/ CommitFileAnswered(c)

PanelNext ==
    \/ PressRefresh \/ TypeMessage \/ InitRepository
    \/ \E p \in Paths : SetRepoPath(p)
    \/ \E f \in Files : SelectFile(f)
    \/ \E f \in Files \cup {Nothing} : PickCommitFile(f)
    \/ \E c \in CommitsOf(status) : SelectCommit(c)
    \/ \E name \in FileCommands \cup RepoCommands \cup {"checkoutBranch"},
          f \in Files \cup {Nothing} : RunCommand(name, f)
    \/ \E c \in calls : Answer(c)

PanelSpec == PanelInit /\ [][PanelNext]_panelVars

-----------------------------------------------------------------------------
\* Every variable keeps its type, and something is shown of a repository only.
PanelTypeOK ==
    /\ repoPath \in Paths /\ DOMAIN repo \subseteq Paths
    /\ {loading, commitDiffLoading, setupReason, commitMessage, overlappedCalls} \subseteq BOOLEAN
    /\ status = Nothing \/ IsRepo(status.path)
    /\ setupReason => status = Nothing

\* What is selected is in the lists that are shown.
SelectionIsListed ==
    /\ selectedPath \in FilesOf(status) \cup {Nothing}
    /\ selectedCommit \in CommitsOf(status) \cup {Nothing}

\* The diff shown of a commit is of the commit, and the file of it, selected now:
\* late answers do not replace it.
CommitDiffIsOfItsSelection ==
    commitDiff # Nothing =>
        commitDiff = [commit |-> selectedCommit, file |-> selectedCommitPath]

\* While refreshes and commands did not overlap, and none failed, the panel at
\* rest shows the repository it is set to, as it is.
AtRestItIsUpToDate ==
    ~overlappedCalls /\ ~(\E c \in calls : Main(c)) /\ status # Nothing =>
        status.path = repoPath /\ status = Read(repoPath)

\* What the panel shows is of the repository, the file and the commit it is set to.
PanelIsSound ==
    PanelTypeOK /\ SelectionIsListed /\ CommitDiffIsOfItsSelection /\ AtRestItIsUpToDate

\* "Discard: The selected file" (docs/git.md): a command on a file is sent for the
\* repository whose files are listed.
FileCommandsActOnTheListedFile ==
    \A c \in calls : c.kind = "command" /\ c.name \in FileCommands => c.path = c.shown.path
=============================================================================
