------------------------ MODULE GitAutoCommit_proofs ------------------------
(***************************************************************************)
(* Whatever the number of requests that commit snippets at a time: a request *)
(* that is told of success finds its snippet in HEAD, unless another git    *)
(* commit has overwritten it in the index.  The invariant is inductive: but *)
(* for what was overwritten no commit runs ahead of the index, and a commit *)
(* under way lies between its parent and the index.                        *)
(***************************************************************************)
EXTENDS GitAutoCommit, TLAPS

\* The parts of GitInv that speak of one request.
RequestInv(r) ==
    /\ doing[r] \notin {"idle", "written", "adding", "done"} => r \in index \cup overwritten
    /\ doing[r] \in {"begun", "loaded", "locked", "unlocked", "updating"} =>
          parent[r] \in 1 .. Len(history)
    /\ doing[r] \in {"loaded", "locked", "unlocked", "updating"} =>
          /\ r \in tree[r] \cup overwritten
          /\ tree[r] \ overwritten \subseteq index
          /\ history[parent[r]] \ overwritten \subseteq tree[r]
    /\ doing[r] = "committed" => r \in HeadTree \cup overwritten
    /\ sha[r] \in 0 .. Len(history)
    /\ sha[r] # 0 => r \in history[sha[r]] \cup overwritten

LEMMA GitInvParts ==
    GitInv <=> /\ GitTypeOK /\ Len(history) > 0 /\ NothingLost
               /\ HeadTree \ overwritten \subseteq index /\ SettledInHead
               /\ \A r \in Generates : RequestInv(r)
BY DEF GitInv, RequestInv

LEMMA GitInitOK == GitInit => GitInv
BY GitAssumption DEF GitInit, GitInv, GitTypeOK, NothingLost, HeadTree, SettledInHead, Stages, Reports

\* A step that leaves the history as it is, and whose losses from the index are known
\* to be overwritten, leaves everything true of a request it does not touch.
LEMMA OthersKeep ==
    ASSUME NEW r \in Generates, RequestInv(r),
           history' = history, overwritten \subseteq overwritten',
           index \subseteq index' \cup overwritten',
           doing'[r] = doing[r], parent'[r] = parent[r], tree'[r] = tree[r], sha'[r] = sha[r]
    PROVE  RequestInv(r)'
BY DEF RequestInv, HeadTree

\* A step that appends a commit does so too, if the commit has all of HEAD.
LEMMA AppendKeeps ==
    ASSUME GitTypeOK, Len(history) > 0, NEW T \in SUBSET Generates,
           history' = Append(history, T), overwritten' = overwritten,
           HeadTree \ overwritten \subseteq T
    PROVE  /\ history' \in Seq(SUBSET Generates)
           /\ Len(history') = Len(history) + 1
           /\ \A n \in 1 .. Len(history) : history'[n] = history[n]
           /\ HeadTree' = T
           /\ NothingLost => NothingLost'
<1>1. history \in Seq(SUBSET Generates)
  BY DEF GitTypeOK
<1>2. /\ history' \in Seq(SUBSET Generates)
      /\ Len(history') = Len(history) + 1
      /\ \A n \in 1 .. Len(history) : history'[n] = history[n]
      /\ history'[Len(history) + 1] = T
  BY <1>1
<1>3. HeadTree' = T
  BY <1>2 DEF HeadTree
<1>4. ASSUME NothingLost PROVE NothingLost'
  <2>1. SUFFICES ASSUME NEW n \in 1 .. Len(history'), NEW m \in 1 .. n
                 PROVE  history'[m] \ overwritten \subseteq history'[n]
    BY DEF NothingLost
  <2>2. CASE n \in 1 .. Len(history)
    <3>1. m \in 1 .. Len(history) /\ m \in 1 .. n
      BY <1>1, <2>2
    <3>2. history[m] \ overwritten \subseteq history[n]
      BY <1>4, <2>2, <3>1 DEF NothingLost
    <3> QED  BY <1>2, <2>2, <3>1, <3>2
  <2>3. CASE n = Len(history) + 1 /\ m \in 1 .. Len(history)
    <3>1. Len(history) \in 1 .. Len(history) /\ m \in 1 .. Len(history)
      BY <1>1, <2>3
    <3>2. history[m] \ overwritten \subseteq HeadTree
      BY <1>4, <3>1 DEF NothingLost, HeadTree
    <3> QED  BY <1>2, <2>3, <3>1, <3>2
  <2>4. CASE n = Len(history) + 1 /\ m = n
    BY <2>4
  <2>5. QED
    BY <1>1, <1>2, <2>1, <2>2, <2>3, <2>4
<1>5. QED
  BY <1>2, <1>3, <1>4

\* What the steps of request r do to the rest.
Frame(r) ==
    /\ history' = history /\ overwritten \subseteq overwritten'
    /\ index \subseteq index' \cup overwritten'
    /\ \A s \in Generates \ {r} : /\ doing'[s] = doing[s] /\ parent'[s] = parent[s]
                                   /\ tree'[s] = tree[s] /\ sha'[s] = sha[s]
                                   /\ reported'[s] = reported[s]

\* The steps that do not commit: it remains to look at the request itself.
LEMMA LocalStep ==
    ASSUME GitInv, GitTypeOK', NEW r \in Generates, Frame(r), RequestInv(r)',
           reported'[r] \in {"committed", "skipped"} => r \in HeadTree \cup overwritten
    PROVE  GitInv'
<1> USE DEF Frame
<1>1. /\ Len(history') > 0 /\ NothingLost' /\ HeadTree' \ overwritten' \subseteq index'
  BY GitInvParts DEF NothingLost, HeadTree
<1>2. \A s \in Generates \ {r} : RequestInv(s)'
  BY GitInvParts, OthersKeep
<1>3. SettledInHead'
  BY GitInvParts DEF SettledInHead, HeadTree
<1>4. QED
  BY <1>1, <1>2, <1>3, GitInvParts DEF GitInv, RequestInv

\* Where a step leads that goes on, and one that ends the request.
LEMMA Labels ==
    ASSUME GitTypeOK, NEW r \in Generates
    PROVE  /\ \A label \in Stages : Goto(r, label) =>
                 /\ doing' \in [Generates -> Stages] /\ reported' \in [Generates -> Reports]
                 /\ doing'[r] = label /\ reported' = reported
                 /\ \A s \in Generates \ {r} : doing'[s] = doing[s]
           /\ \A outcome \in Reports : Report(r, outcome) =>
                 /\ doing' \in [Generates -> Stages] /\ reported' \in [Generates -> Reports]
                 /\ doing'[r] = "done" /\ reported'[r] = outcome
                 /\ \A s \in Generates \ {r} : doing'[s] = doing[s] /\ reported'[s] = reported[s]
<1>1. doing \in [Generates -> Stages] /\ reported \in [Generates -> Reports] /\ "done" \in Stages
  BY DEF GitTypeOK, Stages
<1>2. ASSUME NEW label \in Stages, Goto(r, label)
      PROVE  /\ doing' \in [Generates -> Stages] /\ reported' \in [Generates -> Reports]
             /\ doing'[r] = label /\ reported' = reported
             /\ \A s \in Generates \ {r} : doing'[s] = doing[s]
  BY <1>1, <1>2 DEF Goto
<1>3. ASSUME NEW outcome \in Reports, Report(r, outcome)
      PROVE  /\ doing' \in [Generates -> Stages] /\ reported' \in [Generates -> Reports]
             /\ doing'[r] = "done" /\ reported'[r] = outcome
             /\ \A s \in Generates \ {r} : doing'[s] = doing[s] /\ reported'[s] = reported[s]
  BY <1>1, <1>3 DEF Report
<1> QED  BY <1>2, <1>3

LEMMA GitStep ==
    ASSUME GitInv, [GitNext]_gitVars
    PROVE  GitInv'
<1> USE GitAssumption
<1>t. GitTypeOK /\ Len(history) \in Nat \ {0}
  BY DEF GitInv, GitTypeOK
<1>h. \A r \in Generates : RequestInv(r) /\ (reported[r] \in {"committed", "skipped"} =>
                                                    r \in HeadTree \cup overwritten)
  BY GitInvParts DEF SettledInHead
<1>l. /\ {"written", "adding", "added", "differs", "begun", "loaded", "locked", "unlocked",
           "updating", "committed"} \subseteq Stages
      /\ {"committed", "skipped", "failed", "error"} \subseteq Reports
  BY DEF Stages, Reports
<1>1. ASSUME NEW r \in Generates, WriteSnippet(r) PROVE GitInv'
  <2>1. CASE Goto(r, "written") /\ worktree' = worktree \cup {r}
    <3>1. GitTypeOK'
      BY <1>t, <1>l, <1>1, <2>1, Labels DEF WriteSnippet, repo, GitTypeOK
    <3>2. Frame(r)
      BY <1>t, <1>l, <1>1, <2>1, Labels DEF WriteSnippet, repo, GitTypeOK, Frame
    <3>3. RequestInv(r)'
      BY <1>t, <1>h, <1>l, <1>1, <2>1, Labels DEF WriteSnippet, repo, GitTypeOK, RequestInv, HeadTree
    <3>4. reported'[r] \in {"committed", "skipped"} => r \in HeadTree \cup overwritten
      BY <1>h, <1>l, <1>t, <1>1, <2>1, Labels DEF WriteSnippet, RequestInv
    <3> QED  BY <3>1, <3>2, <3>3, <3>4, LocalStep
  <2>2. CASE Report(r, "failed") /\ worktree' = worktree
    <3>1. GitTypeOK'
      BY <1>t, <1>l, <1>1, <2>2, Labels DEF WriteSnippet, repo, GitTypeOK
    <3>2. Frame(r)
      BY <1>t, <1>l, <1>1, <2>2, Labels DEF WriteSnippet, repo, GitTypeOK, Frame
    <3>3. RequestInv(r)'
      BY <1>t, <1>h, <1>l, <1>1, <2>2, Labels DEF WriteSnippet, repo, GitTypeOK, RequestInv, HeadTree
    <3>4. reported'[r] \in {"committed", "skipped"} => r \in HeadTree \cup overwritten
      BY <1>h, <1>l, <1>t, <1>1, <2>2, Labels DEF WriteSnippet, RequestInv
    <3> QED  BY <3>1, <3>2, <3>3, <3>4, LocalStep
  <2> QED  BY <1>1, <2>1, <2>2 DEF WriteSnippet
<1>2. ASSUME NEW r \in Generates, AddLocks(r) PROVE GitInv'
  <2>1. CASE indexLock = Unlocked /\ Goto(r, "adding")
    <3>1. GitTypeOK'
      BY <1>t, <1>l, <1>2, <2>1, Labels DEF AddLocks, repo, GitTypeOK
    <3>2. Frame(r)
      BY <1>t, <1>l, <1>2, <2>1, Labels DEF AddLocks, repo, GitTypeOK, Frame
    <3>3. RequestInv(r)'
      BY <1>t, <1>h, <1>l, <1>2, <2>1, Labels DEF AddLocks, repo, GitTypeOK, RequestInv, HeadTree
    <3>4. reported'[r] \in {"committed", "skipped"} => r \in HeadTree \cup overwritten
      BY <1>h, <1>l, <1>t, <1>2, <2>1, Labels DEF AddLocks, RequestInv
    <3> QED  BY <3>1, <3>2, <3>3, <3>4, LocalStep
  <2>2. CASE indexLock # Unlocked /\ Report(r, "failed")
    <3>1. GitTypeOK'
      BY <1>t, <1>l, <1>2, <2>2, Labels DEF AddLocks, repo, GitTypeOK
    <3>2. Frame(r)
      BY <1>t, <1>l, <1>2, <2>2, Labels DEF AddLocks, repo, GitTypeOK, Frame
    <3>3. RequestInv(r)'
      BY <1>t, <1>h, <1>l, <1>2, <2>2, Labels DEF AddLocks, repo, GitTypeOK, RequestInv, HeadTree
    <3>4. reported'[r] \in {"committed", "skipped"} => r \in HeadTree \cup overwritten
      BY <1>h, <1>l, <1>t, <1>2, <2>2, Labels DEF AddLocks, RequestInv
    <3> QED  BY <3>1, <3>2, <3>3, <3>4, LocalStep
  <2> QED  BY <1>2, <2>1, <2>2 DEF AddLocks
<1>3. ASSUME NEW r \in Generates, Add(r) PROVE GitInv'
  <2>1. CASE index' = index \cup {r} /\ Goto(r, "added")
    <3>1. GitTypeOK'
      BY <1>t, <1>l, <1>3, <2>1, Labels DEF Add, repo, GitTypeOK
    <3>2. Frame(r)
      BY <1>t, <1>l, <1>3, <2>1, Labels DEF Add, repo, GitTypeOK, Frame
    <3>3. RequestInv(r)'
      BY <1>t, <1>h, <1>l, <1>3, <2>1, Labels DEF Add, repo, GitTypeOK, RequestInv, HeadTree
    <3>4. reported'[r] \in {"committed", "skipped"} => r \in HeadTree \cup overwritten
      BY <1>h, <1>l, <1>t, <1>3, <2>1, Labels DEF Add, RequestInv
    <3> QED  BY <3>1, <3>2, <3>3, <3>4, LocalStep
  <2>2. CASE index' = index /\ Report(r, "error")
    <3>1. GitTypeOK'
      BY <1>t, <1>l, <1>3, <2>2, Labels DEF Add, repo, GitTypeOK
    <3>2. Frame(r)
      BY <1>t, <1>l, <1>3, <2>2, Labels DEF Add, repo, GitTypeOK, Frame
    <3>3. RequestInv(r)'
      BY <1>t, <1>h, <1>l, <1>3, <2>2, Labels DEF Add, repo, GitTypeOK, RequestInv, HeadTree
    <3>4. reported'[r] \in {"committed", "skipped"} => r \in HeadTree \cup overwritten
      BY <1>h, <1>l, <1>t, <1>3, <2>2, Labels DEF Add, RequestInv
    <3> QED  BY <3>1, <3>2, <3>3, <3>4, LocalStep
  <2> QED  BY <1>3, <2>1, <2>2 DEF Add
<1>4. ASSUME NEW r \in Generates, DiffCached(r) PROVE GitInv'
  <2>1. CASE Goto(r, "differs")
    <3>1. GitTypeOK'
      BY <1>t, <1>l, <1>4, <2>1, Labels DEF DiffCached, repo, GitTypeOK
    <3>2. Frame(r)
      BY <1>t, <1>l, <1>4, <2>1, Labels DEF DiffCached, repo, GitTypeOK, Frame
    <3>3. RequestInv(r)'
      <4>1. /\ doing[r] = "added" /\ doing'[r] = "differs"
            /\ UNCHANGED <<index, history, parent, tree, sha, overwritten>>
        BY <1>t, <1>l, <1>4, <2>1, Labels DEF DiffCached, repo
      <4> QED  BY <1>h, <4>1 DEF RequestInv
    <3>4. reported'[r] \in {"committed", "skipped"} => r \in HeadTree \cup overwritten
      BY <1>h, <1>l, <1>t, <1>4, <2>1, Labels DEF DiffCached, RequestInv
    <3> QED  BY <3>1, <3>2, <3>3, <3>4, LocalStep
  <2>2. CASE index = HeadTree /\ Report(r, "skipped")
    <3>1. GitTypeOK'
      BY <1>t, <1>l, <1>4, <2>2, Labels DEF DiffCached, repo, GitTypeOK
    <3>2. Frame(r)
      BY <1>t, <1>l, <1>4, <2>2, Labels DEF DiffCached, repo, GitTypeOK, Frame
    <3>3. RequestInv(r)'
      BY <1>t, <1>h, <1>l, <1>4, <2>2, Labels DEF DiffCached, repo, GitTypeOK, RequestInv, HeadTree
    <3>4. reported'[r] \in {"committed", "skipped"} => r \in HeadTree \cup overwritten
      BY <1>h, <1>l, <1>t, <1>4, <2>2, Labels DEF DiffCached, RequestInv
    <3> QED  BY <3>1, <3>2, <3>3, <3>4, LocalStep
  <2> QED  BY <1>4, <2>1, <2>2 DEF DiffCached
<1>5. ASSUME NEW r \in Generates, CommitBegins(r) PROVE GitInv'
  <2>1. CASE Goto(r, "begun")
    <3>1. GitTypeOK'
      BY <1>t, <1>l, <1>5, <2>1, Labels DEF CommitBegins, repo, GitTypeOK
    <3>2. Frame(r)
      BY <1>t, <1>l, <1>5, <2>1, Labels DEF CommitBegins, repo, GitTypeOK, Frame
    <3>3. RequestInv(r)'
      <4>1. /\ doing[r] = "differs" /\ doing'[r] = "begun" /\ parent'[r] = Len(history)
            /\ UNCHANGED <<index, history, tree, sha, overwritten>>
        BY <1>t, <1>l, <1>5, <2>1, Labels DEF CommitBegins, repo, GitTypeOK
      <4> QED  BY <1>t, <1>h, <4>1 DEF RequestInv
    <3>4. reported'[r] \in {"committed", "skipped"} => r \in HeadTree \cup overwritten
      BY <1>h, <1>l, <1>t, <1>5, <2>1, Labels DEF CommitBegins, RequestInv
    <3> QED  BY <3>1, <3>2, <3>3, <3>4, LocalStep
  <2> QED  BY <1>5, <2>1 DEF CommitBegins
<1>6. ASSUME NEW r \in Generates, CommitLoads(r) PROVE GitInv'
  <2>1. /\ tree' = [tree EXCEPT ![r] = index] /\ doing[r] = "begun" /\ doing'[r] = "loaded"
        /\ UNCHANGED <<worktree, index, history, indexLock, parent, sha, reported, crashes, overwritten>>
    BY <1>t, <1>l, <1>6, Labels DEF CommitLoads, repo
  <2>2. GitTypeOK'
    BY <1>t, <1>l, <1>6, <2>1, Labels DEF CommitLoads, GitTypeOK
  <2>3. Frame(r)
    BY <1>t, <1>l, <1>6, <2>1, Labels DEF CommitLoads, GitTypeOK, Frame
  <2>4. history[parent[r]] \ overwritten \subseteq index
    <3>1. parent[r] \in 1 .. Len(history) /\ Len(history) \in 1 .. Len(history)
      BY <1>t, <1>h, <2>1 DEF RequestInv
    <3> QED  BY <3>1, GitInvParts DEF NothingLost, HeadTree
  <2>5. RequestInv(r) /\ tree'[r] = index
    BY <1>t, <1>h, <2>1 DEF GitTypeOK
  <2>6. RequestInv(r)'
    BY <2>1, <2>4, <2>5 DEF RequestInv, HeadTree
  <2> QED  BY <1>h, <2>1, <2>2, <2>3, <2>6, LocalStep
<1>7. ASSUME NEW r \in Generates, CommitLocks(r) PROVE GitInv'
  <2>1. CASE indexLock = Unlocked /\ Goto(r, "locked")
    <3>1. GitTypeOK'
      BY <1>t, <1>l, <1>7, <2>1, Labels DEF CommitLocks, repo, GitTypeOK
    <3>2. Frame(r)
      BY <1>t, <1>l, <1>7, <2>1, Labels DEF CommitLocks, repo, GitTypeOK, Frame
    <3>3. RequestInv(r)'
      BY <1>t, <1>h, <1>l, <1>7, <2>1, Labels DEF CommitLocks, repo, GitTypeOK, RequestInv, HeadTree
    <3>4. reported'[r] \in {"committed", "skipped"} => r \in HeadTree \cup overwritten
      BY <1>h, <1>l, <1>t, <1>7, <2>1, Labels DEF CommitLocks, RequestInv
    <3> QED  BY <3>1, <3>2, <3>3, <3>4, LocalStep
  <2>2. CASE indexLock # Unlocked /\ Report(r, "failed")
    <3>1. GitTypeOK'
      BY <1>t, <1>l, <1>7, <2>2, Labels DEF CommitLocks, repo, GitTypeOK
    <3>2. Frame(r)
      BY <1>t, <1>l, <1>7, <2>2, Labels DEF CommitLocks, repo, GitTypeOK, Frame
    <3>3. RequestInv(r)'
      BY <1>t, <1>h, <1>l, <1>7, <2>2, Labels DEF CommitLocks, repo, GitTypeOK, RequestInv, HeadTree
    <3>4. reported'[r] \in {"committed", "skipped"} => r \in HeadTree \cup overwritten
      BY <1>h, <1>l, <1>t, <1>7, <2>2, Labels DEF CommitLocks, RequestInv
    <3> QED  BY <3>1, <3>2, <3>3, <3>4, LocalStep
  <2> QED  BY <1>7, <2>1, <2>2 DEF CommitLocks
<1>8. ASSUME NEW r \in Generates, CommitUnlocks(r) PROVE GitInv'
  <2>1. CASE /\ index' \in {tree[r], index} /\ overwritten' = overwritten \cup (index \ index')
             /\ Goto(r, "unlocked")
    <3>1. GitTypeOK'
      BY <1>t, <1>l, <1>8, <2>1, Labels DEF CommitUnlocks, repo, GitTypeOK
    <3>2. Frame(r)
      BY <1>t, <1>l, <1>8, <2>1, Labels DEF CommitUnlocks, repo, GitTypeOK, Frame
    <3>3. RequestInv(r)'
      BY <1>t, <1>h, <1>l, <1>8, <2>1, Labels DEF CommitUnlocks, repo, GitTypeOK, RequestInv, HeadTree
    <3>4. reported'[r] \in {"committed", "skipped"} => r \in HeadTree \cup overwritten
      BY <1>h, <1>l, <1>t, <1>8, <2>1, Labels DEF CommitUnlocks, RequestInv
    <3> QED  BY <3>1, <3>2, <3>3, <3>4, LocalStep
  <2>2. CASE index' = index /\ overwritten' = overwritten /\ Report(r, "error")
    <3>1. GitTypeOK'
      BY <1>t, <1>l, <1>8, <2>2, Labels DEF CommitUnlocks, repo, GitTypeOK
    <3>2. Frame(r)
      BY <1>t, <1>l, <1>8, <2>2, Labels DEF CommitUnlocks, repo, GitTypeOK, Frame
    <3>3. RequestInv(r)'
      BY <1>t, <1>h, <1>l, <1>8, <2>2, Labels DEF CommitUnlocks, repo, GitTypeOK, RequestInv, HeadTree
    <3>4. reported'[r] \in {"committed", "skipped"} => r \in HeadTree \cup overwritten
      BY <1>h, <1>l, <1>t, <1>8, <2>2, Labels DEF CommitUnlocks, RequestInv
    <3> QED  BY <3>1, <3>2, <3>3, <3>4, LocalStep
  <2> QED  BY <1>8, <2>1, <2>2 DEF CommitUnlocks
<1>9. ASSUME NEW r \in Generates, CommitCompares(r) PROVE GitInv'
  <2>1. CASE Goto(r, "updating") /\ \E t \in {tree[r], index} : tree' = [tree EXCEPT ![r] = t]
    <3>1. PICK t \in {tree[r], index} : tree' = [tree EXCEPT ![r] = t]
      BY <2>1
    <3>2. /\ doing[r] = "unlocked" /\ doing'[r] = "updating"
          /\ UNCHANGED <<worktree, index, history, indexLock, parent, sha, reported, crashes, overwritten>>
      BY <1>t, <1>l, <1>9, <2>1, Labels DEF CommitCompares, repo
    <3>3. GitTypeOK'
      BY <1>t, <1>l, <2>1, <3>1, <3>2, Labels DEF GitTypeOK
    <3>4. Frame(r)
      BY <1>t, <1>l, <2>1, <3>1, <3>2, Labels DEF GitTypeOK, Frame
    <3>5. r \in t \cup overwritten /\ t \ overwritten \subseteq index
          /\ history[parent[r]] \ overwritten \subseteq t /\ parent[r] \in 1 .. Len(history)
      BY <1>h, <3>1, <3>2 DEF RequestInv
    <3>6. RequestInv(r)'
      BY <1>t, <1>h, <3>1, <3>2, <3>5 DEF GitTypeOK, RequestInv, HeadTree
    <3> QED  BY <1>h, <3>2, <3>3, <3>4, <3>6, LocalStep
  <2>2. ASSUME tree[r] = HeadTree, tree' = tree, NEW outcome \in {"skipped", "failed"},
               Report(r, outcome)
        PROVE  GitInv'
    <3>1. GitTypeOK'
      BY <1>t, <1>l, <1>9, <2>2, Labels DEF CommitCompares, repo, GitTypeOK
    <3>2. Frame(r)
      BY <1>t, <1>l, <1>9, <2>2, Labels DEF CommitCompares, repo, GitTypeOK, Frame
    <3>3. RequestInv(r)'
      BY <1>t, <1>h, <1>l, <1>9, <2>2, Labels DEF CommitCompares, repo, GitTypeOK, RequestInv, HeadTree
    <3>4. reported'[r] \in {"committed", "skipped"} => r \in HeadTree \cup overwritten
      BY <1>h, <1>9, <2>2 DEF CommitCompares, RequestInv
    <3> QED  BY <3>1, <3>2, <3>3, <3>4, LocalStep
  <2> QED  BY <1>9, <2>1, <2>2 DEF CommitCompares
<1>10. ASSUME NEW r \in Generates, CommitUpdates(r) PROVE GitInv'
  <2>1. CASE history' = Append(history, tree[r]) /\ parent[r] = Len(history) /\ Goto(r, "committed")
    <3>1. /\ doing[r] = "updating" /\ doing'[r] = "committed"
          /\ \A s \in Generates \ {r} : doing'[s] = doing[s]
          /\ UNCHANGED <<worktree, index, indexLock, parent, tree, sha, reported, crashes, overwritten>>
      BY <1>t, <1>l, <1>10, <2>1, Labels DEF CommitUpdates
    <3>2. /\ r \in tree[r] \cup overwritten /\ tree[r] \ overwritten \subseteq index
          /\ HeadTree \ overwritten \subseteq tree[r] /\ tree[r] \in SUBSET Generates
      BY <1>t, <1>h, <2>1, <3>1 DEF RequestInv, HeadTree, GitTypeOK
    <3>3. /\ history' \in Seq(SUBSET Generates) /\ Len(history') = Len(history) + 1
          /\ \A n \in 1 .. Len(history) : history'[n] = history[n]
          /\ HeadTree' = tree[r] /\ NothingLost'
      BY <1>t, <2>1, <3>1, <3>2, AppendKeeps, GitInvParts
    <3>4. GitTypeOK'
      BY <1>t, <1>l, <2>1, <3>1, <3>3, Labels DEF GitTypeOK
    <3>5. ASSUME NEW s \in Generates PROVE RequestInv(s)'
      <4>1. RequestInv(s) /\ HeadTree \subseteq HeadTree' \cup overwritten
        BY <1>h, <3>2, <3>3
      <4>2. /\ sha'[s] \in 0 .. Len(history')
            /\ sha'[s] # 0 => s \in history'[sha'[s]] \cup overwritten
        BY <1>t, <3>1, <3>3, <4>1 DEF RequestInv
      <4>3. CASE s = r
        BY <3>1, <3>2, <3>3, <4>1, <4>2, <4>3 DEF RequestInv
      <4>4. CASE s # r
        <5>1. doing'[s] \in {"begun", "loaded", "locked", "unlocked", "updating"} =>
                  parent'[s] \in 1 .. Len(history') /\ history'[parent'[s]] = history[parent[s]]
          BY <1>t, <3>1, <3>3, <4>1, <4>4 DEF RequestInv
        <5> QED  BY <3>1, <4>1, <4>2, <4>4, <5>1 DEF RequestInv
      <4> QED  BY <4>3, <4>4
    <3>6. SettledInHead'
      BY <1>h, <3>1, <3>2, <3>3 DEF SettledInHead
    <3> QED  BY <1>t, <3>1, <3>2, <3>3, <3>4, <3>5, <3>6, GitInvParts DEF GitInv, RequestInv
  <2>2. ASSUME history' = history, NEW outcome \in {"failed", "error"}, Report(r, outcome)
        PROVE  GitInv'
    <3>1. GitTypeOK'
      BY <1>t, <1>l, <1>10, <2>2, Labels DEF CommitUpdates, GitTypeOK
    <3>2. Frame(r)
      BY <1>t, <1>l, <1>10, <2>2, Labels DEF CommitUpdates, GitTypeOK, Frame
    <3>3. RequestInv(r)'
      BY <1>t, <1>h, <1>l, <1>10, <2>2, Labels DEF CommitUpdates, RequestInv, HeadTree
    <3>4. reported'[r] \notin {"committed", "skipped"}
      BY <1>t, <1>l, <2>2, Labels
    <3> QED  BY <3>1, <3>2, <3>3, <3>4, LocalStep
  <2> QED  BY <1>10, <2>1, <2>2 DEF CommitUpdates
<1>11. ASSUME NEW r \in Generates, RevParse(r) PROVE GitInv'
  <2>1. CASE Report(r, "committed") /\ sha' = [sha EXCEPT ![r] = Len(history)]
    <3>1. GitTypeOK'
      BY <1>t, <1>l, <1>11, <2>1, Labels DEF RevParse, repo, GitTypeOK
    <3>2. Frame(r)
      BY <1>t, <1>l, <1>11, <2>1, Labels DEF RevParse, repo, GitTypeOK, Frame
    <3>3. RequestInv(r)'
      BY <1>t, <1>h, <1>l, <1>11, <2>1, Labels DEF RevParse, repo, GitTypeOK, RequestInv, HeadTree
    <3>4. reported'[r] \in {"committed", "skipped"} => r \in HeadTree \cup overwritten
      BY <1>h, <1>l, <1>t, <1>11, <2>1, Labels DEF RevParse, RequestInv
    <3> QED  BY <3>1, <3>2, <3>3, <3>4, LocalStep
  <2>2. CASE Report(r, "failed") /\ sha' = sha
    <3>1. GitTypeOK'
      BY <1>t, <1>l, <1>11, <2>2, Labels DEF RevParse, repo, GitTypeOK
    <3>2. Frame(r)
      BY <1>t, <1>l, <1>11, <2>2, Labels DEF RevParse, repo, GitTypeOK, Frame
    <3>3. RequestInv(r)'
      BY <1>t, <1>h, <1>l, <1>11, <2>2, Labels DEF RevParse, repo, GitTypeOK, RequestInv, HeadTree
    <3>4. reported'[r] \in {"committed", "skipped"} => r \in HeadTree \cup overwritten
      BY <1>h, <1>l, <1>t, <1>11, <2>2, Labels DEF RevParse, RequestInv
    <3> QED  BY <3>1, <3>2, <3>3, <3>4, LocalStep
  <2> QED  BY <1>11, <2>1, <2>2 DEF RevParse
<1>12. ASSUME Crash PROVE GitInv'
  <2>1. GitTypeOK'
    BY <1>t, <1>12 DEF Crash, GitTypeOK, Stages, Reports
  <2>2. /\ UNCHANGED <<index, history, parent, tree, sha, overwritten>>
        /\ \A s \in Generates : /\ doing'[s] \in {doing[s], "done"}
                                /\ reported'[s] \in {reported[s], "lost"}
    BY <1>t, <1>12 DEF Crash, GitTypeOK
  <2>3. \A s \in Generates : RequestInv(s)'
    BY <2>2, GitInvParts DEF RequestInv, HeadTree
  <2>4. /\ Len(history') > 0 /\ NothingLost' /\ HeadTree' \ overwritten' \subseteq index'
        /\ SettledInHead'
    BY <2>2, GitInvParts DEF NothingLost, HeadTree, SettledInHead
  <2>5. QED
    BY <2>1, <2>3, <2>4 DEF GitInv, RequestInv
<1>13. ASSUME UNCHANGED gitVars PROVE GitInv'
  BY <1>13 DEF GitInv, GitTypeOK, NothingLost, HeadTree, SettledInHead, gitVars, repo, local
<1>14. QED
  BY <1>1, <1>2, <1>3, <1>4, <1>5, <1>6, <1>7, <1>8, <1>9, <1>10, <1>11, <1>12, <1>13
     DEF GitNext, Step, GitQuiet

\* Every reachable state of the repository satisfies the inductive invariant,
\* with any number of requests, failures of git and crashes.
THEOREM Repository == GitSpec => []GitInv
BY GitInitOK, GitStep, PTL DEF GitSpec

\* A request that is told "committed" or "skipped" has its snippet in HEAD, or the
\* index it was added to has been overwritten by an older one.
THEOREM Settling == GitSpec => []SettledInHead
<1>1. GitInv => SettledInHead
  BY DEF GitInv
<1>2. QED
  BY <1>1, Repository, PTL

\* The commit whose sha a request is told has the request's snippet, with the same
\* exception.
THEOREM Reporting == GitSpec => []ShaHasSnippet
<1>1. GitInv => ShaHasSnippet
  BY DEF GitInv, ShaHasSnippet
<1>2. QED
  BY <1>1, Repository, PTL

\* No commit loses a snippet of the commit before it but one that was overwritten.
THEOREM Keeping == GitSpec => []NothingLost
<1>1. GitInv => NothingLost
  BY DEF GitInv
<1>2. QED
  BY <1>1, Repository, PTL

\* Who can have failed, and because of whom: as long as nothing was killed, index.lock
\* belongs to a request that is going to release it.
BlameInv ==
    /\ history[1] = {}
    /\ \A r \in Generates : /\ doing[r] = "idle" => r \notin worktree
                            /\ doing[r] # "done" => reported[r] = "none"
    /\ crashes = 0 => \/ indexLock = Unlocked
                      \/ indexLock \in Generates /\ doing[indexLock] \in {"adding", "locked"}
    /\ SomebodyCommits

\* What a step of a request does.  It comes to nothing only if the snippet is not
\* written, if another holds index.lock, if a command fails of its own, or if a
\* commit has been made.
StepFacts(r) ==
    /\ doing[r] # "done" /\ crashes' = crashes
    /\ \A s \in Generates \ {r} : doing'[s] = doing[s] /\ reported'[s] = reported[s]
    /\ doing'[r] # "idle"
    /\ \/ worktree' = worktree
       \/ worktree' = worktree \cup {r} /\ doing'[r] = "written" /\ reported' = reported
    /\ \/ history' = history
       \/ Len(history') > 1 /\ Len(history') >= Len(history) /\ history'[1] = history[1]
    /\ \/ indexLock' = indexLock /\ (doing[r] = doing'[r] \/ doing[r] \notin {"adding", "locked"})
       \/ indexLock' = Unlocked
       \/ indexLock' = r /\ doing'[r] \in {"adding", "locked"}
    /\ \/ doing'[r] # "done" /\ reported'[r] = reported[r]
       \/ doing'[r] = "done" /\ reported'[r] = "error"
       \/ doing'[r] = "done" /\ doing[r] = "idle" /\ worktree' = worktree /\ history' = history
       \/ /\ doing'[r] = "done" /\ doing[r] \notin {"adding", "locked"} /\ indexLock # Unlocked
          /\ indexLock' = indexLock /\ history' = history
       \/ doing'[r] = "done" /\ Len(history') > 1

\* Once a file has been added the index is never empty again, whatever is overwritten,
\* and so is no tree that git commit has read.
NonEmptyInv ==
    \A r \in Generates :
        /\ doing[r] \in {"added", "differs", "begun", "loaded", "locked", "unlocked", "updating"} =>
              index # {}
        /\ doing[r] \in {"loaded", "locked", "unlocked", "updating"} => tree[r] # {}
        /\ doing[r] = "committed" => Len(history) > 1

LEMMA NonEmptyStep ==
    ASSUME GitTypeOK, Len(history) > 0, NonEmptyInv, [GitNext]_gitVars
    PROVE  NonEmptyInv'
<1> USE DEF repo, local
<1>1. ASSUME NEW r \in Generates, Step(r) PROVE NonEmptyInv'
  <2>1. /\ \A s \in Generates \ {r} : doing'[s] = doing[s] /\ tree'[s] = tree[s]
        /\ index # {} => index' # {}
        /\ Len(history') >= Len(history)
    <3>1. \A s \in Generates \ {r} : doing'[s] = doing[s] /\ tree'[s] = tree[s]
      BY <1>1 DEF Step, WriteSnippet, AddLocks, Add, DiffCached, CommitBegins, CommitLoads,
         CommitLocks, CommitUnlocks, CommitCompares, CommitUpdates, RevParse, Goto, Report,
         GitTypeOK
    <3>2. index # {} => index' # {}
      BY <1>1 DEF Step, WriteSnippet, AddLocks, Add, DiffCached, CommitBegins, CommitLoads,
         CommitLocks, CommitUnlocks, CommitCompares, CommitUpdates, RevParse, NonEmptyInv
    <3>3. Len(history') >= Len(history)
      <4>1. history' = history \/ history' = Append(history, tree[r])
        BY <1>1 DEF Step, WriteSnippet, AddLocks, Add, DiffCached, CommitBegins, CommitLoads,
           CommitLocks, CommitUnlocks, CommitCompares, CommitUpdates, RevParse
      <4> QED  BY <4>1 DEF GitTypeOK
    <3> QED  BY <3>1, <3>2, <3>3
  <2>2. /\ doing'[r] \in {"added", "differs", "begun", "loaded", "locked", "unlocked", "updating"} =>
              index' # {}
        /\ doing'[r] \in {"loaded", "locked", "unlocked", "updating"} => tree'[r] # {}
        /\ doing'[r] = "committed" => Len(history') > 1
    <3>1. CASE WriteSnippet(r) \/ AddLocks(r) \/ Add(r) \/ DiffCached(r)
      BY <3>1 DEF WriteSnippet, AddLocks, Add, DiffCached, Goto, Report, GitTypeOK, NonEmptyInv
    <3>2. CASE CommitBegins(r) \/ CommitLoads(r) \/ CommitLocks(r)
      BY <3>2 DEF CommitBegins, CommitLoads, CommitLocks, Goto, Report, GitTypeOK, NonEmptyInv
    <3>3. CASE CommitUnlocks(r) \/ CommitCompares(r)
      BY <3>3 DEF CommitUnlocks, CommitCompares, Goto, Report, GitTypeOK, NonEmptyInv
    <3>4. CASE CommitUpdates(r)
      <4>1. history' = Append(history, tree[r]) => Len(history') > 1
        BY DEF GitTypeOK
      <4> QED  BY <3>4, <4>1 DEF CommitUpdates, Goto, Report, GitTypeOK, NonEmptyInv
    <3>5. CASE RevParse(r)
      BY <3>5 DEF RevParse, Goto, Report, GitTypeOK, NonEmptyInv
    <3> QED  BY <1>1, <3>1, <3>2, <3>3, <3>4, <3>5 DEF Step
  <2>3. Len(history) \in Nat /\ Len(history') \in Nat
    <3>1. history' = history \/ history' = Append(history, tree[r])
      BY <1>1 DEF Step, WriteSnippet, AddLocks, Add, DiffCached, CommitBegins, CommitLoads,
         CommitLocks, CommitUnlocks, CommitCompares, CommitUpdates, RevParse
    <3> QED  BY <3>1 DEF GitTypeOK
  <2> QED  BY <2>1, <2>2, <2>3 DEF NonEmptyInv
<1>2. CASE Crash
  BY <1>2 DEF Crash, NonEmptyInv, GitTypeOK
<1>3. CASE UNCHANGED gitVars
  BY <1>3 DEF gitVars, NonEmptyInv
<1> QED  BY <1>1, <1>2, <1>3 DEF GitNext, GitQuiet

LEMMA StepDoes ==
    ASSUME GitInv, BlameInv, NonEmptyInv, NEW r \in Generates, Step(r)
    PROVE  StepFacts(r)
<1> USE DEF repo
<1>t. GitTypeOK /\ RequestInv(r) /\ Len(history) \in Nat \ {0}
  BY GitInvParts DEF GitInv, GitTypeOK
<1>n. HeadTree # {} => Len(history) > 1
  BY <1>t DEF BlameInv, HeadTree
<1>1. \A label : Goto(r, label) =>
          doing'[r] = label /\ reported' = reported /\ \A s \in Generates \ {r} : doing'[s] = doing[s]
  BY <1>t DEF Goto, GitTypeOK
<1>2. \A outcome : Report(r, outcome) =>
          /\ doing'[r] = "done" /\ reported'[r] = outcome
          /\ \A s \in Generates \ {r} : doing'[s] = doing[s] /\ reported'[s] = reported[s]
  BY <1>t DEF Report, GitTypeOK
<1>3. CASE WriteSnippet(r)
  BY <1>1, <1>2, <1>3 DEF WriteSnippet, StepFacts
<1>4. CASE AddLocks(r)
  <2>1. CASE indexLock = Unlocked
    BY <1>1, <1>4, <2>1 DEF AddLocks, StepFacts
  <2>2. CASE indexLock # Unlocked
    BY <1>2, <1>4, <2>2 DEF AddLocks, StepFacts
  <2> QED  BY <2>1, <2>2
<1>5. CASE Add(r)
  <2>1. CASE Goto(r, "added")
    BY <1>1, <1>5, <2>1 DEF Add, StepFacts
  <2>2. CASE Report(r, "error")
    BY <1>2, <1>5, <2>2 DEF Add, StepFacts
  <2> QED  BY <1>5, <2>1, <2>2 DEF Add
<1>6. CASE DiffCached(r)
  <2>1. CASE index = HeadTree /\ Report(r, "skipped")
    <3>1. Len(history) > 1
      BY <1>n, <1>6, <2>1 DEF DiffCached, NonEmptyInv
    <3> QED  BY <1>2, <1>6, <2>1, <3>1 DEF DiffCached, StepFacts
  <2>2. CASE Goto(r, "differs")
    BY <1>1, <1>6, <2>2 DEF DiffCached, StepFacts
  <2> QED  BY <1>6, <2>1, <2>2 DEF DiffCached
<1>7. CASE CommitBegins(r) \/ CommitLoads(r)
  BY <1>1, <1>7 DEF CommitBegins, CommitLoads, StepFacts
<1>8. CASE CommitLocks(r)
  <2>1. CASE indexLock = Unlocked
    BY <1>1, <1>8, <2>1 DEF CommitLocks, StepFacts
  <2>2. CASE indexLock # Unlocked
    BY <1>2, <1>8, <2>2 DEF CommitLocks, StepFacts
  <2> QED  BY <2>1, <2>2
<1>9. CASE CommitUnlocks(r)
  <2>1. CASE Goto(r, "unlocked")
    BY <1>1, <1>9, <2>1 DEF CommitUnlocks, StepFacts
  <2>2. CASE Report(r, "error")
    BY <1>2, <1>9, <2>2 DEF CommitUnlocks, StepFacts
  <2> QED  BY <1>9, <2>1, <2>2 DEF CommitUnlocks
<1>10. CASE CommitCompares(r)
  <2>1. CASE Goto(r, "updating")
    BY <1>1, <1>10, <2>1 DEF CommitCompares, StepFacts
  <2>2. ASSUME tree[r] = HeadTree, NEW outcome, Report(r, outcome)
        PROVE  StepFacts(r)
    <3>1. Len(history) > 1
      BY <1>n, <1>10, <2>2 DEF CommitCompares, NonEmptyInv
    <3> QED  BY <1>2, <1>10, <2>2, <3>1 DEF CommitCompares, StepFacts
  <2> QED  BY <1>10, <2>1, <2>2 DEF CommitCompares
<1>11. CASE CommitUpdates(r)
  <2>1. CASE history' = Append(history, tree[r]) /\ Goto(r, "committed")
    <3>1. Len(history') = Len(history) + 1 /\ history'[1] = history[1]
      BY <1>t, <2>1 DEF GitTypeOK
    <3> QED  BY <1>t, <1>1, <1>11, <2>1, <3>1 DEF CommitUpdates, StepFacts
  <2>2. CASE history' = history /\ parent[r] # Len(history) /\ Report(r, "failed")
    <3>1. Len(history) > 1
      BY <1>t, <1>11, <2>2 DEF CommitUpdates, RequestInv
    <3> QED  BY <1>2, <1>11, <2>2, <3>1 DEF CommitUpdates, StepFacts
  <2>3. CASE history' = history /\ Report(r, "error")
    BY <1>2, <1>11, <2>3 DEF CommitUpdates, StepFacts
  <2> QED  BY <1>11, <2>1, <2>2, <2>3 DEF CommitUpdates
<1>12. CASE RevParse(r)
  <2>1. Len(history) > 1
    BY <1>12 DEF RevParse, NonEmptyInv
  <2>2. \E outcome : Report(r, outcome)
    BY <1>12 DEF RevParse
  <2> QED  BY <1>2, <1>12, <2>1, <2>2 DEF RevParse, StepFacts
<1> QED  BY <1>3, <1>4, <1>5, <1>6, <1>7, <1>8, <1>9, <1>10, <1>11, <1>12 DEF Step

LEMMA BlameStep ==
    ASSUME GitInv, BlameInv, NonEmptyInv, [GitNext]_gitVars
    PROVE  BlameInv'
<1> USE GitAssumption DEF repo, local
<1>1. ASSUME NEW r \in Generates, Step(r) PROVE BlameInv'
  <2>1. StepFacts(r)
    BY <1>1, StepDoes
  <2>2. history'[1] = {}
    BY <2>1 DEF StepFacts, BlameInv
  <2>3. ASSUME NEW s \in Generates
        PROVE  (doing'[s] = "idle" => s \notin worktree') /\ (doing'[s] # "done" => reported'[s] = "none")
    BY <2>1 DEF StepFacts, BlameInv
  <2>4. crashes' = 0 => indexLock' = Unlocked
                        \/ (indexLock' \in Generates /\ doing'[indexLock'] \in {"adding", "locked"})
    BY <2>1 DEF StepFacts, BlameInv
  <2>5. ASSUME crashes' = 0, \A s \in Generates : reported'[s] # "error",
               NEW s \in worktree', s \in Generates, reported'[s] = "failed", ~(Len(history') > 1)
        PROVE  \E q \in Generates : doing'[q] \notin {"idle", "written", "done"}
    <3>1. history' = history /\ crashes = 0
      BY <2>1, <2>5 DEF StepFacts
    <3>2. \A q \in Generates : reported[q] # "error"
      BY <2>1, <2>5 DEF StepFacts, BlameInv
    <3>3. CASE doing'[r] # "done"
      <4>1. reported[s] = "failed" /\ s \in worktree
        <5>1. reported[s] = "failed"
          BY <2>1, <2>5, <3>3 DEF StepFacts
        <5>2. s # r
          BY <2>1, <5>1 DEF StepFacts, BlameInv
        <5> QED  BY <2>1, <2>5, <5>1, <5>2 DEF StepFacts
      <4>2. PICK q \in Generates : doing[q] \notin {"idle", "written", "done"}
        BY <2>5, <3>1, <3>2, <4>1 DEF BlameInv, SomebodyCommits
      <4>3. q # r => doing'[q] = doing[q]
        BY <2>1 DEF StepFacts
      <4>4. q = r => doing'[r] \notin {"idle", "written", "done"}
        <5>1. doing'[r] = "written" => doing[r] = "idle"
          BY <1>1 DEF Step, WriteSnippet, AddLocks, Add, DiffCached, CommitBegins,
                      CommitLoads, CommitLocks, CommitUnlocks, CommitCompares, CommitUpdates,
                      RevParse, Goto, Report,
                      GitInv, GitTypeOK
        <5> QED  BY <2>1, <3>3, <4>2, <5>1 DEF StepFacts
      <4> QED  BY <4>2, <4>3, <4>4
    <3>4. CASE doing'[r] = "done" /\ doing[r] = "idle" /\ worktree' = worktree
      <4>1. s # r
        BY <2>5, <3>4 DEF BlameInv
      <4>2. reported[s] = "failed" /\ s \in worktree
        BY <2>1, <2>5, <3>4, <4>1 DEF StepFacts
      <4>3. PICK q \in Generates : doing[q] \notin {"idle", "written", "done"}
        BY <2>5, <3>1, <3>2, <4>2 DEF BlameInv, SomebodyCommits
      <4> QED  BY <2>1, <3>4, <4>3 DEF StepFacts
    <3>5. CASE doing'[r] = "done" /\ doing[r] \notin {"adding", "locked"} /\ indexLock # Unlocked
      <4>1. indexLock \in Generates /\ doing[indexLock] \in {"adding", "locked"}
        BY <3>1, <3>5 DEF BlameInv
      <4>2. indexLock # r
        BY <3>5, <4>1
      <4> QED  BY <2>1, <4>1, <4>2 DEF StepFacts
    <3> QED  BY <2>1, <2>5, <3>3, <3>4, <3>5 DEF StepFacts
  <2>6. worktree' \subseteq Generates
    BY <2>1 DEF StepFacts, GitInv, GitTypeOK
  <2>7. SomebodyCommits'
    BY <2>5, <2>6 DEF SomebodyCommits
  <2> QED  BY <2>2, <2>3, <2>4, <2>7 DEF BlameInv
<1>2. ASSUME Crash PROVE BlameInv'
  <2>1. crashes' # 0
    BY <1>2 DEF Crash, GitInv, GitTypeOK
  <2>2. /\ UNCHANGED <<worktree, history>>
        /\ \A s \in Generates : \/ doing'[s] = "done"
                                \/ doing'[s] = doing[s] /\ reported'[s] = reported[s]
    BY <1>2 DEF Crash, GitInv, GitTypeOK
  <2> QED  BY <2>1, <2>2 DEF BlameInv, SomebodyCommits
<1>3. CASE UNCHANGED gitVars
  BY <1>3 DEF gitVars, BlameInv, SomebodyCommits
<1> QED  BY <1>1, <1>2, <1>3 DEF GitNext, GitQuiet

\* Requests never all come to nothing by refusing one another.
THEOREM SomeRequestCommits == GitSpec => []SomebodyCommits
<1>1. GitInit => BlameInv /\ NonEmptyInv
  BY DEF GitInit, BlameInv, SomebodyCommits, NonEmptyInv
<1>2. GitInv /\ BlameInv /\ NonEmptyInv /\ [GitNext]_gitVars => BlameInv' /\ NonEmptyInv'
  BY BlameStep, NonEmptyStep DEF GitInv
<1>3. BlameInv => SomebodyCommits
  BY DEF BlameInv
<1> QED  BY <1>1, <1>2, <1>3, Repository, PTL DEF GitSpec

---------------------------------------------------------------------------
(* After a command was killed *)

\* An index.lock that a killed command has left behind stops all auto-commits: nobody
\* removes it, and nothing gets into the index or into HEAD any more.
StaleLockStops ==
    [][indexLock = Stale =>
            indexLock' = Stale /\ index' = index /\ history' = history]_gitVars

\* The kill took everybody with it; who comes later gets no further than git add.
StaleInv == indexLock = Stale => \A r \in Generates : doing[r] \in {"idle", "written", "done"}

LEMMA StaleStep ==
    ASSUME GitTypeOK, StaleInv, [GitNext]_gitVars
    PROVE  /\ StaleInv'
           /\ indexLock = Stale => indexLock' = Stale /\ index' = index /\ history' = history
<1>1. CASE Crash
  <2>1. \A r \in Generates : doing'[r] \in {"idle", "done"}
    BY <1>1 DEF Crash
  <2>2. index' = index /\ history' = history /\ indexLock' \in {Stale, indexLock}
    BY <1>1 DEF Crash
  <2> QED  BY <1>1, <2>1, <2>2, GitAssumption DEF StaleInv, Crash
<1>2. CASE UNCHANGED gitVars
  BY <1>2 DEF StaleInv, gitVars, repo, local
<1>3. ASSUME NEW r \in Generates, Step(r), indexLock = Stale
      PROVE  StaleInv' /\ indexLock' = Stale /\ index' = index /\ history' = history
  <2>1. doing[r] \in {"idle", "written", "done"} /\ Stale # Unlocked
    BY <1>3, GitAssumption DEF StaleInv
  <2>2. WriteSnippet(r) \/ AddLocks(r)
    BY <1>3, <2>1 DEF Step, Add, DiffCached, CommitBegins, CommitLoads, CommitLocks,
       CommitUnlocks, CommitCompares, CommitUpdates, RevParse
  <2> QED  BY <1>3, <2>1, <2>2 DEF WriteSnippet, AddLocks, Goto, Report, StaleInv, GitTypeOK
<1>4. ASSUME NEW r \in Generates, Step(r), indexLock # Stale
      PROVE  StaleInv'
  <2>1. r # Stale /\ Unlocked # Stale
    BY GitAssumption
  <2>2. indexLock' # Stale
    BY <1>4, <2>1 DEF Step, WriteSnippet, AddLocks, Add, DiffCached, CommitBegins, CommitLoads,
       CommitLocks, CommitUnlocks, CommitCompares, CommitUpdates, RevParse, repo
  <2> QED  BY <2>2 DEF StaleInv
<1> QED  BY <1>1, <1>2, <1>3, <1>4 DEF GitNext, GitQuiet

\* One kill at the wrong moment, and no later request is committed until somebody
\* removes the file by hand.
THEOREM StaleLockStopsCommits == GitSpec => StaleLockStops
<1>1. GitInit => StaleInv
  BY DEF GitInit, StaleInv
<1>2. GitTypeOK /\ StaleInv /\ [GitNext]_gitVars
      => /\ StaleInv'
         /\ [indexLock = Stale =>
                indexLock' = Stale /\ index' = index /\ history' = history]_gitVars
  BY StaleStep
<1>3. GitSpec => []GitTypeOK
  BY Repository, GitInvParts, PTL
<1> QED  BY <1>1, <1>2, <1>3, PTL DEF GitSpec, StaleLockStops
=============================================================================
