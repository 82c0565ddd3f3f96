---------------------------- MODULE Repository ----------------------------
(***************************************************************************)
(* The Git operations of a project (git_service.py) as the server calls    *)
(* them (_git_call in app.py): one at a time, those that are listed as     *)
(* mutations after a checkpoint of the pipeline document into the file     *)
(* history.  The document is one file; a version of it is a number, fresh  *)
(* with every edit.  What `git` does with a commit, the index, the file,   *)
(* the stash and a remote is external, modelled from the commands the code *)
(* runs.  The snapshot that _git_call also takes for collaboration is      *)
(* GitAnchor in Collaboration.  A failed command leaves its state behind.  *)
(***************************************************************************)
EXTENDS Naturals, Sequences, SequencesExt

CONSTANTS Branches,    \* names of branches
          Tags,        \* names of tags
          Main,        \* the branch `init` makes
          Nothing,     \* no commit, no version, no call
          Markers,     \* a document with conflict markers
          MaxVersions, \* bound on the versions of the document; a conflict may add two
          MaxCommits,  \* bound on the commits; others may add one
          MaxStashes   \* bound on the stash when an entry is made

\* Versions and commits are numbers.
ASSUME RepositoryAssumption ==
  /\ Main \in Branches
  /\ Nothing \notin Nat /\ Markers \notin Nat
  /\ {MaxVersions, MaxCommits, MaxStashes} \subseteq Nat

VARIABLES
  commits,   \* the commits, each with its document and what it descends from
  heads,     \* local branches: their commits
  tags,      \* tags: their commits
  head,      \* the branch that is checked out
  index,     \* what is staged: no version, one, or ours and theirs in a conflict
  file,      \* the document in the worktree, or Markers
  stashes,   \* stash entries, the latest first
  remote,    \* branches of the remote
  tracking,  \* what the last fetch, pull or push saw of them
  upstream,  \* branches that were pushed with -u or made from a remote branch
  cloned,    \* whether the repository is initialized and its remote set
  history,   \* versions with a snapshot in .sdpstudio/history
  call,      \* the operation that holds the lock: the version it has kept
  versions,  \* how many versions there are
  forsaken   \* history variable: commits somebody has removed on purpose

repo == <<commits, heads, tags, head, stashes>>
far == <<remote, tracking, upstream, cloned, forsaken>>
vars == <<repo, far, index, file, history, call, versions>>

Fresh == versions + 1

\* refs with one of them set to a commit, or removed.
Pointing(refs, b, c) ==
  [other \in DOMAIN refs \cup {b} |-> IF other = b THEN c ELSE refs[other]]
Without(refs, b) == [other \in DOMAIN refs \ {b} |-> refs[other]]

HeadCommit == IF head \in DOMAIN heads THEN heads[head] ELSE Nothing
Doc(c) == IF c = Nothing THEN <<>> ELSE <<commits[c].doc>>
Unmerged == Len(index) = 2

\* A commit and what it descends from.
Line(c) == IF c = Nothing THEN {} ELSE commits[c].line
Lines(refs) == UNION {Line(refs[b]) : b \in DOMAIN refs}

\* Conflict markers are in no version: only the file in the worktree has them.
Staged == {<<>>} \cup {<<v>> : v \in Nat}
Conflicts == {<<ours, theirs>> : ours, theirs \in Nat}
Commits == [doc : Nat, line : SUBSET Nat]
Stashes == [base : Staged, staged : Staged, doc : Nat]
Pointers(refs, names) == DOMAIN refs \subseteq names /\ refs \in [DOMAIN refs -> DOMAIN commits]
TypeOK ==
  /\ commits \in Seq(Commits)
  /\ \A c \in DOMAIN commits : commits[c].line \subseteq DOMAIN commits
  /\ Pointers(heads, Branches) /\ Pointers(remote, Branches) /\ Pointers(tracking, Branches)
  /\ Pointers(tags, Tags)
  /\ head \in Branches /\ upstream \subseteq Branches
  /\ stashes \in Seq(Stashes)
  /\ cloned \in {"no", "local", "remote"}
  /\ index \in Staged \cup Conflicts
  /\ file \in Nat \cup {Markers}
  /\ history \subseteq Nat
  /\ call \in {Nothing} \cup [kept : Nat \cup {Nothing}]
  /\ versions \in Nat
  /\ forsaken \subseteq DOMAIN commits

\* A project that nobody has put under Git.
Init ==
  /\ commits = <<>> /\ stashes = <<>>
  /\ heads = <<>> /\ tags = <<>> /\ remote = <<>> /\ tracking = <<>>
  /\ head = Main
  /\ upstream = {} /\ history = {} /\ forsaken = {}
  /\ cloned = "no"
  /\ index = <<>>
  /\ file = 1 /\ versions = 1
  /\ call = Nothing

-----------------------------------------------------------------------------
(* Calls.                                                                  *)

\* git_mutations; the other operations modelled here do without a checkpoint.
Mutations == {"init", "set_remote", "fetch", "pull", "push", "commit", "stash", "stage", "unstage",
              "create_branch", "switch_branch", "resolve_conflict", "create_tag"}
Methods == Mutations \cup {"delete_branch"}

\* Mutants of Checkpointed: an operation that is missing in git_mutations.
WithoutResolve(mutation) == mutation \in Mutations \ {"resolve_conflict"}
WithoutStage(mutation) == mutation \in Mutations \ {"stage"}

Checkpointed(mutation) == mutation \in Mutations

\* _git_call up to the operation: before a mutation it loads the document,
\* which fails on conflict markers, and keeps it.  Which operation it is shows
\* when it runs.
Call(checkpoint) ==
  /\ call = Nothing
  /\ IF checkpoint THEN
        /\ file # Markers
        /\ history' = history \cup {file}
        /\ call' = [kept |-> file]
     ELSE call' = [kept |-> Nothing] /\ UNCHANGED history
  /\ UNCHANGED <<repo, far, index, file, versions>>

\* The bound on versions: in a conflict one more, and, as long as there is
\* one local branch and no tag, another one right after a checkpoint.
Bound ==
  IF ~Unmerged THEN MaxVersions
  ELSE IF call = [kept |-> file] /\ DOMAIN heads = {Main} /\ remote = <<>> /\ tags = <<>> THEN MaxVersions + 2
  ELSE MaxVersions + 1

\* A save or an edit of the text; neither takes the lock of Git.
Edit ==
  /\ versions < Bound
  /\ file' = Fresh /\ versions' = Fresh
  /\ UNCHANGED <<repo, far, index, history, call>>

Running(method) == call # Nothing /\ (call.kept # Nothing <=> Checkpointed(method))
End == call' = Nothing
Refused == End /\ UNCHANGED <<repo, far, index, file, history, versions>>

\* An operation that succeeds if it may and is refused otherwise.
Attempt(allowed, Effect) ==
  IF allowed THEN Effect /\ End ELSE Refused

-----------------------------------------------------------------------------
(* The repository.                                                         *)

init ==
  /\ Running("init")
  /\ cloned' = IF cloned = "no" THEN "local" ELSE cloned
  /\ End
  /\ UNCHANGED <<repo, remote, tracking, upstream, forsaken, index, file, history, versions>>

set_remote ==
  /\ Running("set_remote")
  /\ cloned' = "remote"
  /\ End
  /\ UNCHANGED <<repo, remote, tracking, upstream, forsaken, index, file, history, versions>>

Started == cloned # "no"

stage ==
  /\ Running("stage")
  /\ Attempt(Started, index' = <<file>> /\ UNCHANGED <<repo, far, file, history, versions>>)

unstage ==
  /\ Running("unstage")
  /\ Attempt(HeadCommit # Nothing,
             index' = Doc(HeadCommit) /\ UNCHANGED <<repo, far, file, history, versions>>)

Committed(doc, parent) ==
  Append(commits, [doc |-> doc, line |-> {Len(commits) + 1} \cup Line(parent)])

\* Only what is staged; `commit` begins with init.
commit ==
  /\ Running("commit")
  /\ Len(commits) < MaxCommits
  /\ Attempt(Started /\ ~Unmerged /\ index # Doc(HeadCommit),
             /\ commits' = Committed(index[1], HeadCommit)
             /\ heads' = Pointing(heads, head, Len(commits'))
             /\ UNCHANGED <<tags, head, stashes, far, index, file, history, versions>>)

\* What git does to the index and the file when it goes from the current
\* commit to another, and when it refuses.
MayMove(c) ==
  /\ ~Unmerged
  /\ \/ Doc(c) = Doc(HeadCommit)
     \/ Doc(c) = index
     \/ index = Doc(HeadCommit) /\ <<file>> = index
Move(c) ==
  IF Doc(c) \in {Doc(HeadCommit), index} THEN UNCHANGED <<index, file>>
                                         ELSE index' = Doc(c) /\ file' = commits[c].doc

create_branch ==
  /\ Running("create_branch")
  /\ \E b \in Branches :
       Attempt(Started /\ ~Unmerged /\ b \notin DOMAIN heads,
               /\ head' = b
               /\ heads' = IF HeadCommit = Nothing THEN heads ELSE Pointing(heads, b, HeadCommit)
               /\ UNCHANGED <<commits, tags, stashes, far, index, file, history, versions>>)

\* A name that only the remote has makes a local branch of it.
switch_branch ==
  /\ Running("switch_branch")
  /\ \E b \in Branches :
       LET tip == IF b \in DOMAIN heads THEN heads[b] ELSE tracking[b]
       IN  Attempt(b \in DOMAIN heads \cup DOMAIN tracking /\ MayMove(tip),
                   /\ head' = b
                   /\ heads' = Pointing(heads, b, tip)
                   /\ upstream' = IF b \in DOMAIN heads THEN upstream ELSE upstream \cup {b}
                   /\ Move(tip)
                   /\ UNCHANGED <<commits, tags, stashes, remote, tracking, cloned, forsaken, history, versions>>)

\* git branch -d: merged into its upstream, or without one into HEAD.
Merged(b) ==
  LET into == IF b \in upstream \cap DOMAIN tracking THEN tracking[b] ELSE HeadCommit
  IN  heads[b] \in Line(into)

delete_branch ==
  /\ Running("delete_branch")
  /\ \E b \in Branches, force \in BOOLEAN :
       Attempt(b # head /\ b \in DOMAIN heads /\ (force \/ Merged(b)),
               /\ heads' = Without(heads, b)
               /\ upstream' = upstream \ {b}
               /\ forsaken' = IF force THEN forsaken \cup Line(heads[b]) ELSE forsaken
               /\ UNCHANGED <<commits, tags, head, stashes, remote, tracking, cloned, index, file, history, versions>>)

create_tag ==
  /\ Running("create_tag")
  /\ \E t \in Tags :
       Attempt(t \notin DOMAIN tags /\ HeadCommit # Nothing,
               /\ tags' = Pointing(tags, t, HeadCommit)
               /\ UNCHANGED <<commits, heads, head, stashes, far, index, file, history, versions>>)

-----------------------------------------------------------------------------
(* The stash and conflicts.                                                *)

stash_list == Running("stash") /\ End /\ UNCHANGED <<repo, far, index, file, history, versions>>

stash_create ==
  /\ Running("stash")
  /\ Len(stashes) < MaxStashes
  /\ Attempt(HeadCommit # Nothing /\ ~Unmerged,
             /\ stashes' = IF <<file>> = index /\ index = Doc(HeadCommit) THEN stashes
                           ELSE <<[base |-> Doc(HeadCommit), staged |-> index, doc |-> file]>> \o stashes
             /\ index' = Doc(HeadCommit) /\ file' = commits[HeadCommit].doc
             /\ UNCHANGED <<commits, heads, tags, head, far, history, versions>>)

\* stash apply merges the stashed document into the staged one.  Two changes
\* of one document merge into a third or conflict; the command fails then, and
\* has written the markers.
Applies == stashes # <<>> /\ ~Unmerged
Brings == <<stashes[1].doc>> \notin {index, stashes[1].base}
Diverges == Brings /\ index # stashes[1].base

stash_apply ==
  /\ Running("stash")
  /\ Attempt(Applies /\ ~Diverges /\ (Brings => <<file>> = index),
             /\ file' = IF Brings THEN stashes[1].doc ELSE file
             /\ UNCHANGED <<repo, far, index, history, versions>>)

stash_merge ==
  /\ Running("stash")
  /\ Applies /\ Diverges /\ <<file>> = index
  /\ versions <= MaxVersions
  /\ file' = Fresh /\ versions' = Fresh
  /\ End
  /\ UNCHANGED <<repo, far, index, history>>

stash_conflict ==
  /\ Running("stash")
  /\ Applies /\ Diverges /\ <<file>> = index
  /\ file' = Markers
  /\ index' = <<index[1], stashes[1].doc>>
  /\ End
  /\ UNCHANGED <<repo, far, history, versions>>

\* git checkout --ours or --theirs, whatever is in the file, and stage.
resolve_conflict ==
  /\ Running("resolve_conflict")
  /\ \E ours \in 1..2 :
       Attempt(Unmerged, /\ index' = <<index[ours]>> /\ file' = index[ours]
                         /\ UNCHANGED <<repo, far, history, versions>>)

-----------------------------------------------------------------------------
(* The remote, which others push to.                                       *)

FarCommit ==
  /\ versions < MaxVersions /\ Len(commits) <= MaxCommits
  /\ \E b \in Branches, from \in DOMAIN remote :
       /\ b \in DOMAIN remote => from = b
       /\ commits' = Committed(Fresh, remote[from])
       /\ remote' = Pointing(remote, b, Len(commits'))
  /\ versions' = Fresh
  /\ UNCHANGED <<heads, tags, head, stashes, tracking, upstream, cloned, forsaken, index, file,
                 history, call>>

FarDelete ==
  \E b \in DOMAIN remote \ {Main} :
    /\ remote' = Without(remote, b)
    /\ forsaken' = forsaken \cup Line(remote[b])
    /\ UNCHANGED <<repo, tracking, upstream, cloned, index, file, history, call, versions>>

Online == cloned = "remote"

\* fetch --prune.
fetch ==
  /\ Running("fetch")
  /\ Attempt(Online, /\ tracking' = remote
                     /\ UNCHANGED <<repo, remote, upstream, cloned, forsaken, index, file, history, versions>>)

\* Mutant of FastForward: a pull that takes what the remote has.
ForceForward(tip) == tip # Nothing

\* pull --ff-only of a branch: nothing new, a fast-forward, or a refusal that
\* has fetched the branch.
FastForward(tip) == HeadCommit = Nothing \/ HeadCommit \in Line(tip)
Pulled(b) ==
  /\ tracking' = Pointing(tracking, b, remote[b])
  /\ UNCHANGED <<commits, tags, head, stashes, remote, upstream, cloned, forsaken, history, versions>>
pull ==
  /\ Running("pull")
  /\ \E b \in Branches :
       IF ~Online \/ Unmerged \/ b \notin DOMAIN remote THEN Refused
       ELSE /\ Pulled(b)
            /\ IF HeadCommit # Nothing /\ remote[b] \in Line(HeadCommit) THEN
                  End /\ UNCHANGED <<heads, index, file>>
               ELSE IF FastForward(remote[b]) /\ MayMove(remote[b]) THEN
                  /\ heads' = Pointing(heads, head, remote[b])
                  /\ Move(remote[b])
                  /\ End
               ELSE End /\ UNCHANGED <<heads, index, file>>

\* push -u, which the remote refuses unless it is a fast-forward.
push ==
  /\ Running("push")
  /\ \E b \in Branches :
       Attempt(Online /\ b \in DOMAIN heads /\ (b \in DOMAIN remote => remote[b] \in Line(heads[b])),
               /\ remote' = Pointing(remote, b, heads[b])
               /\ tracking' = Pointing(tracking, b, heads[b])
               /\ upstream' = upstream \cup {b}
               /\ UNCHANGED <<repo, cloned, forsaken, index, file, history, versions>>)

Next ==
  \/ \E checkpoint \in {Checkpointed(method) : method \in Methods} : Call(checkpoint)
  \/ Edit
  \/ init \/ set_remote \/ stage \/ unstage \/ commit
  \/ create_branch \/ switch_branch \/ delete_branch \/ create_tag
  \/ stash_list \/ stash_create \/ stash_apply \/ stash_merge \/ stash_conflict \/ resolve_conflict
  \/ FarCommit \/ FarDelete \/ fetch \/ pull \/ push

Spec == Init /\ [][Next]_vars

-----------------------------------------------------------------------------
\* Where a version can be found again.
Kept == history \cup {commits[c].doc : c \in DOMAIN commits} \cup ToSet(index)
                \cup {s.doc : s \in ToSet(stashes)} \cup (UNION {ToSet(s.staged) : s \in ToSet(stashes)})

\* What a Git operation takes out of the worktree can be found again: in the
\* history, a commit, the stash or the index.  Left out is a version that was
\* written after the checkpoint of a resolution: checkout overwrites it.
EditsSurviveGit ==
  [][ call # Nothing /\ call' = Nothing /\ file' # file /\ file # Markers
        => file \in Kept' \/ (resolve_conflict /\ call.kept \notin {file, Nothing}) ]_vars

\* Conflict markers stay in the worktree of the one project: no operation
\* stages, commits, stashes or pushes them, and as long as the document holds
\* them Git itself still knows of the conflict.
MarkersStayOut ==
  /\ Markers \notin Kept
  /\ file = Markers => Unmerged

\* A commit is lost only on purpose: whatever was committed here or fetched is
\* reached from a branch, a tag or the remote, unless its branch was deleted
\* with force or by others.
CommitsSurvive ==
  DOMAIN commits \subseteq Lines(heads) \cup Lines(tags) \cup Lines(tracking) \cup Lines(remote) \cup forsaken


\* docs/guides/git.md:5 says of a conflict: "Resolve explicitly with one side,
\* then inspect status again."  Resolving begins with the checkpoint, which
\* cannot load what the conflict made of the document.
ConflictsCanBeResolved ==
  Unmerged /\ call = Nothing => ENABLED Call(Checkpointed("resolve_conflict"))
=============================================================================
