--------------------------- MODULE GitAutoCommit ---------------------------
(***************************************************************************)
(* What POST /pipeline/generate?auto_commit=true does to the git repository *)
(* at GIT_REPO_PATH: write the snippet, git add, git diff --cached, git     *)
(* commit, git rev-parse HEAD, each in a subprocess that is awaited, so     *)
(* that requests interleave between them.  Nothing in the service keeps     *)
(* them apart: git's index.lock makes a command fail, never wait, and its   *)
(* update of HEAD fails if HEAD has moved since the commit began.  But git  *)
(* commit reads the index before it takes the lock, and under the lock it   *)
(* may write what it has read: a git add in between is overwritten.         *)
(*                                                                         *)
(* A request writes a file of its own (its task's id is a fresh uuid), so   *)
(* the request stands for its file.                                         *)
(***************************************************************************)
EXTENDS Naturals, Sequences, FiniteSets

CONSTANTS
    Generates,      \* generate requests that come to _try_git_commit_after_generate
    Unlocked,       \* index.lock does not exist
    Stale,          \* index.lock was left behind by a command that was killed
    GitFails,       \* a git command may fail for reasons of its own
    MaxCrashes      \* bound on the crashes of the service

ASSUME GitAssumption ==
    /\ {Unlocked, Stale} \cap Generates = {} /\ Unlocked # Stale
    /\ GitFails \in BOOLEAN
    /\ MaxCrashes \in Nat

VARIABLES
    worktree,   \* the files written
    index,      \* the files in the index
    history,    \* the tree of each commit, oldest first
    indexLock,  \* who holds index.lock
    doing,      \* what each request is doing
    parent,     \* number of the commit that git commit has read as HEAD
    tree,       \* the index as git commit has it in memory, what it will commit
    sha,        \* number of the commit reported, 0 for none
    reported,   \* payload["git"]
    crashes,    \* crashes so far
    overwritten \* history: the files a git commit has taken out of the index

repo  == <<worktree, index, history, indexLock>>
local == <<doing, parent, tree, sha, reported>>
gitVars == <<repo, local, crashes, overwritten>>

HeadTree == history[Len(history)]

\* The two kinds of committed: false with a reason are told apart here: "failed"
\* is what other requests cause, "error" a command's own failure.
Reports == {"none", "committed", "skipped", "failed", "error", "lost"}
Stages == {"idle", "written", "adding", "added", "differs", "begun", "loaded", "locked",
           "unlocked", "updating", "committed", "done"}

GitInit ==
    /\ worktree = {}
    /\ index = {}
    /\ history = <<{}>>
    /\ indexLock = Unlocked
    /\ doing = [r \in Generates |-> "idle"]
    /\ parent = [r \in Generates |-> 0]
    /\ tree = [r \in Generates |-> {}]
    /\ sha = [r \in Generates |-> 0]
    /\ reported = [r \in Generates |-> "none"]
    /\ crashes = 0
    /\ overwritten = {}

Goto(r, label) ==
    /\ doing' = [doing EXCEPT ![r] = label]
    /\ UNCHANGED reported

\* payload["git"] is set; errors are swallowed into it.
Report(r, outcome) ==
    /\ doing' = [doing EXCEPT ![r] = "done"]
    /\ reported' = [reported EXCEPT ![r] = outcome]

---------------------------------------------------------------------------
(* write_generated_snippet *)

WriteSnippet(r) ==
    /\ doing[r] = "idle"
    /\ \/ /\ worktree' = worktree \cup {r}
          /\ Goto(r, "written")
       \/ Report(r, "failed") /\ UNCHANGED worktree
    /\ UNCHANGED <<index, history, indexLock, parent, tree, sha, crashes, overwritten>>

---------------------------------------------------------------------------
(* git, as GitService.commit uses it *)

\* git add takes index.lock, or fails because it is taken ...
AddLocks(r) ==
    /\ doing[r] = "written"
    /\ IF indexLock = Unlocked
         THEN /\ indexLock' = r
              /\ Goto(r, "adding")
         ELSE /\ Report(r, "failed")
              /\ UNCHANGED indexLock
    /\ UNCHANGED <<worktree, index, history, parent, tree, sha, crashes, overwritten>>

\* Mutant: the index is made anew for each request, with its file alone.
AddAlone(r) ==
    /\ doing[r] = "adding"
    /\ indexLock' = Unlocked
    /\ \/ index' = {r} /\ Goto(r, "added")
       \/ GitFails /\ Report(r, "error") /\ UNCHANGED index
    /\ UNCHANGED <<worktree, history, parent, tree, sha, crashes, overwritten>>

\* Mutant: the exit code of git add is not looked at.
AddUnchecked(r) ==
    /\ doing[r] = "adding"
    /\ indexLock' = Unlocked
    /\ \/ index' = index \cup {r}
       \/ GitFails /\ UNCHANGED index
    /\ Goto(r, "added")
    /\ UNCHANGED <<worktree, history, parent, tree, sha, crashes, overwritten>>

\* ... and replaces the index.
Add(r) ==
    /\ doing[r] = "adding"
    /\ indexLock' = Unlocked
    /\ \/ index' = index \cup {r} /\ Goto(r, "added")
       \/ GitFails /\ Report(r, "error") /\ UNCHANGED index
    /\ UNCHANGED <<worktree, history, parent, tree, sha, crashes, overwritten>>

\* git diff --cached --quiet: without a difference the commit is skipped; an exit
\* code that means an error counts as a difference.
DiffCached(r) ==
    /\ doing[r] = "added"
    /\ \/ index = HeadTree /\ Report(r, "skipped")
       \/ (index # HeadTree \/ GitFails) /\ Goto(r, "differs")
    /\ UNCHANGED <<repo, parent, tree, sha, crashes, overwritten>>

\* git commit reads HEAD ...
CommitBegins(r) ==
    /\ doing[r] = "differs"
    /\ parent' = [parent EXCEPT ![r] = Len(history)]
    /\ Goto(r, "begun")
    /\ UNCHANGED <<repo, tree, sha, crashes, overwritten>>

\* ... then the index, without the lock ...
CommitLoads(r) ==
    /\ doing[r] = "begun"
    /\ tree' = [tree EXCEPT ![r] = index]
    /\ Goto(r, "loaded")
    /\ UNCHANGED <<repo, parent, sha, crashes, overwritten>>

\* ... takes index.lock, or fails because it is taken ...
CommitLocks(r) ==
    /\ doing[r] = "loaded"
    /\ IF indexLock = Unlocked
         THEN /\ indexLock' = r
              /\ Goto(r, "locked")
         ELSE /\ Report(r, "failed")
              /\ UNCHANGED indexLock
    /\ UNCHANGED <<worktree, index, history, parent, tree, sha, crashes, overwritten>>

\* ... and replaces the index by what it has read before the lock, refreshed, unless
\* the refresh and the cached tree have changed nothing of it.
CommitUnlocks(r) ==
    /\ doing[r] = "locked"
    /\ indexLock' = Unlocked
    /\ \/ /\ index' \in {tree[r], index}
          /\ overwritten' = overwritten \cup (index \ index')
          /\ Goto(r, "unlocked")
       \/ GitFails /\ Report(r, "error") /\ UNCHANGED <<index, overwritten>>
    /\ UNCHANGED <<worktree, history, parent, tree, sha, crashes>>

\* Mutant: git commit refuses as long as there are untracked files.
CommitRefusesUntracked(r) ==
    /\ doing[r] = "unlocked"
    /\ LET untracked == worktree \ tree[r] IN
        \/ /\ tree[r] # HeadTree /\ untracked = {}
           /\ \E t \in {tree[r], index} : tree' = [tree EXCEPT ![r] = t]
           /\ Goto(r, "updating")
        \/ /\ tree[r] = HeadTree \/ untracked # {}
           /\ Report(r, IF untracked = {} THEN "skipped" ELSE "failed")
           /\ UNCHANGED tree
    /\ UNCHANGED <<repo, parent, sha, crashes, overwritten>>

\* If what it has in memory is HEAD's tree, git commit fails, and says "nothing to
\* commit" only if there is no untracked file either.  Otherwise it commits the tree,
\* or that of the index read again after a pre-commit hook.
CommitCompares(r) ==
    /\ doing[r] = "unlocked"
    /\ LET untracked == worktree \ tree[r] IN
        \/ /\ tree[r] # HeadTree
           /\ \E t \in {tree[r], index} : tree' = [tree EXCEPT ![r] = t]
           /\ Goto(r, "updating")
        \/ /\ tree[r] = HeadTree
           /\ Report(r, IF untracked = {} THEN "skipped" ELSE "failed")
           /\ UNCHANGED tree
    /\ UNCHANGED <<repo, parent, sha, crashes, overwritten>>

\* HEAD moves to the new commit if it still is the parent.
CommitUpdates(r) ==
    /\ doing[r] = "updating"
    /\ \/ /\ parent[r] = Len(history)
          /\ history' = Append(history, tree[r])
          /\ Goto(r, "committed")
       \/ /\ \/ parent[r] # Len(history) /\ Report(r, "failed")
             \/ GitFails /\ Report(r, "error")
          /\ UNCHANGED history
    /\ UNCHANGED <<worktree, index, indexLock, parent, tree, sha, crashes, overwritten>>

\* Mutant: HEAD is asked for before the commit moves it.
RevParseEarly(r) ==
    /\ doing[r] = "committed"
    /\ \/ /\ sha' = [sha EXCEPT ![r] = parent[r]]
          /\ Report(r, "committed")
       \/ /\ GitFails
          /\ Report(r, "failed")
          /\ UNCHANGED sha
    /\ UNCHANGED <<repo, parent, tree, crashes, overwritten>>

\* git rev-parse HEAD, in a process of its own; a failure leaves no sha, and
\* commit_result_as_dict then says committed: false of a commit that was made.
RevParse(r) ==
    /\ doing[r] = "committed"
    /\ \/ /\ sha' = [sha EXCEPT ![r] = Len(history)]
          /\ Report(r, "committed")
       \/ /\ GitFails
          /\ Report(r, "failed")
          /\ UNCHANGED sha
    /\ UNCHANGED <<repo, parent, tree, crashes, overwritten>>

---------------------------------------------------------------------------
(* The environment *)

\* The container is killed, and git with it: index.lock stays where it is.
Crash ==
    LET cut == {r \in Generates : doing[r] \notin {"idle", "done"}} IN
    /\ crashes < MaxCrashes
    /\ cut # {}
    /\ crashes' = crashes + 1
    /\ indexLock' = IF indexLock \in cut THEN Stale ELSE indexLock
    /\ doing' = [r \in Generates |-> IF r \in cut THEN "done" ELSE doing[r]]
    /\ reported' = [r \in Generates |-> IF r \in cut THEN "lost" ELSE reported[r]]
    /\ UNCHANGED <<worktree, index, history, parent, tree, sha, overwritten>>

Step(r) ==
    \/ WriteSnippet(r) \/ AddLocks(r) \/ Add(r) \/ DiffCached(r)
    \/ CommitBegins(r) \/ CommitLoads(r) \/ CommitLocks(r) \/ CommitUnlocks(r)
    \/ CommitCompares(r) \/ CommitUpdates(r) \/ RevParse(r)

GitQuiet ==
    /\ \A r \in Generates : doing[r] = "done"
    /\ UNCHANGED gitVars

GitIdle == \A r \in Generates : doing[r] = "idle"

GitNext == (\E r \in Generates : Step(r)) \/ Crash \/ GitQuiet

GitSpec == GitInit /\ [][GitNext]_gitVars

---------------------------------------------------------------------------
GitTypeOK ==
    /\ worktree \subseteq Generates
    /\ index \subseteq Generates
    /\ history \in Seq(SUBSET Generates)
    /\ indexLock \in Generates \cup {Unlocked, Stale}
    /\ doing \in [Generates -> Stages]
    /\ parent \in [Generates -> Nat]
    /\ tree \in [Generates -> SUBSET Generates]
    /\ sha \in [Generates -> Nat]
    /\ reported \in [Generates -> Reports]
    /\ crashes \in 0 .. MaxCrashes
    /\ overwritten \subseteq Generates

\* A request that is told "committed", or that its commit was skipped as there
\* was nothing to commit, finds its snippet in HEAD, perhaps in a commit of another
\* request: unless a git commit that had read the index before the request's git
\* add wrote it back after it.
SettledInHead ==
    \A r \in Generates \ overwritten :
        reported[r] \in {"committed", "skipped"} => r \in HeadTree

\* The sha a request is told may be that of another request's commit, made
\* between its own and its rev-parse, but that commit has its snippet too, unless
\* the snippet was overwritten in the index.
ShaHasSnippet ==
    \A r \in Generates \ overwritten : sha[r] # 0 => r \in history[sha[r]]

\* Each commit has every snippet of the commits before it: requests that commit
\* at the same time lose nothing of one another's but what was overwritten.
NothingLost ==
    \A n \in 1 .. Len(history) : \A m \in 1 .. n : history[m] \ overwritten \subseteq history[n]

\* GitService.commit skips a commit when there are no changes to commit: of a request
\* that is told so, the snippet has been committed.
SkippedIsCommitted ==
    \A r \in Generates : reported[r] = "skipped" => r \in HeadTree

\* The inductive invariant: but for what was overwritten, commits never run ahead of
\* the index, and a commit under way takes a tree between its parent's and the
\* index, its own file included.
GitInv ==
    /\ GitTypeOK
    /\ Len(history) > 0
    /\ NothingLost
    /\ HeadTree \ overwritten \subseteq index
    /\ SettledInHead
    /\ \A r \in Generates :
        /\ doing[r] \notin {"idle", "written", "adding", "done"} => r \in index \cup overwritten
        /\ doing[r] \in {"begun", "loaded", "locked", "unlocked", "updating"} =>
              parent[r] \in 1 .. Len(history)
        /\ doing[r] \in {"loaded", "locked", "unlocked", "updating"} =>
              /\ r \in tree[r] \cup overwritten
              /\ tree[r] \ overwritten \subseteq index
              /\ history[parent[r]] \ overwritten \subseteq tree[r]
        /\ doing[r] = "committed" => r \in HeadTree \cup overwritten
        /\ sha[r] \in 0 .. Len(history)
        /\ sha[r] # 0 => r \in history[sha[r]] \cup overwritten

\* Requests that refuse each other do not all come to nothing: as long as no
\* command has failed of its own and nothing was killed, once a request with a
\* snippet on disk has failed, a commit has been made or another is still at it.
SomebodyCommits ==
    crashes = 0 /\ (\A r \in Generates : reported[r] # "error") =>
        \A r \in worktree : reported[r] = "failed" =>
            \/ Len(history) > 1
            \/ \E s \in Generates : doing[s] \notin {"idle", "written", "done"}
============================================================================
