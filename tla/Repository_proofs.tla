-------------------------- MODULE Repository_proofs --------------------------
(***************************************************************************)
(* Theorems about Repository, for any number of branches, tags, commits,   *)
(* versions and stash entries.                                             *)
(***************************************************************************)
EXTENDS Repository, SequenceTheorems, TLAPS

\* An operation that began with a checkpoint runs on a document without
\* markers, for only operations write them and it holds the lock; what it kept
\* is in the history.  Once there is a commit something is staged.
Clean ==
  /\ file = Markers => Unmerged
  /\ call # Nothing /\ call.kept # Nothing => call.kept \in history /\ file # Markers
  /\ index = <<>> => HeadCommit = Nothing

\* A commit descends from itself and from whatever its ancestors descend from.
Ancestry ==
  \A c \in DOMAIN commits :
    /\ c \in commits[c].line
    /\ \A d \in commits[c].line : commits[d].line \subseteq commits[c].line

\* A branch or tag descends from d.
Reaches(cs, refs, d) == \E b \in DOMAIN refs : d \in cs[refs[b]].line

\* Whatever the remote was seen to have it has still, or somebody deleted it:
\* others push fast-forwards, too.  Hence a fetch, which forgets what it had
\* seen, and the deletion of a branch that was merged into what was seen, lose
\* nothing.
Seen ==
  \A d \in DOMAIN commits :
    Reaches(commits, tracking, d) => Reaches(commits, remote, d) \/ d \in forsaken

\* A commit is reached without what was seen of the remote.
Reachable ==
  \A d \in DOMAIN commits :
    \/ Reaches(commits, heads, d) \/ Reaches(commits, tags, d)
    \/ Reaches(commits, remote, d) \/ d \in forsaken

Inv == TypeOK /\ Clean

-----------------------------------------------------------------------------
(* Types.                                                                  *)

\* A reference set to a commit, or removed, leaves references.
LEMMA PointingType ==
  ASSUME NEW refs, NEW names, NEW cs, NEW b \in names, NEW c \in cs,
         DOMAIN refs \subseteq names, refs \in [DOMAIN refs -> cs]
  PROVE  /\ DOMAIN Pointing(refs, b, c) \subseteq names
         /\ Pointing(refs, b, c) \in [DOMAIN Pointing(refs, b, c) -> cs]
  BY DEF Pointing

LEMMA WithoutType ==
  ASSUME NEW refs, NEW names, NEW cs, NEW b,
         DOMAIN refs \subseteq names, refs \in [DOMAIN refs -> cs]
  PROVE  /\ DOMAIN Without(refs, b) \subseteq names
         /\ Without(refs, b) \in [DOMAIN Without(refs, b) -> cs]
  BY DEF Without

LEMMA Documents ==
  /\ \A stages \in Staged : stages = <<>> \/ \E v \in Nat : stages = <<v>>
  /\ \A v \in Nat : <<v>> \in Staged /\ Len(<<v>>) = 1 /\ <<v>> # <<>>
  /\ <<>> \in Staged /\ Len(<<>>) = 0
  /\ \A stages \in Conflicts : Len(stages) = 2 /\ stages # <<>>
                            /\ stages[1] \in Nat /\ stages[2] \in Nat
  BY DEF Staged, Conflicts

LEMMA CommitTypes ==
  ASSUME TypeOK
  PROVE  /\ HeadCommit \in DOMAIN commits \cup {Nothing}
         /\ Doc(Nothing) = <<>>
         /\ \A c \in DOMAIN commits :
              /\ c \in Nat /\ c # Nothing
              /\ commits[c].doc \in Nat /\ Doc(c) = <<commits[c].doc>>
              /\ Line(c) = commits[c].line /\ Line(c) \subseteq DOMAIN commits
  <1>1. HeadCommit \in DOMAIN commits \cup {Nothing}
    BY DEF TypeOK, HeadCommit, Pointers
  <1>2. ASSUME NEW c \in DOMAIN commits
        PROVE  c \in Nat /\ c # Nothing /\ commits[c].doc \in Nat
    <2>1. commits[c] \in Commits /\ c \in Nat
      BY DEF TypeOK
    <2> QED BY <2>1, RepositoryAssumption DEF Commits
  <1>3. Doc(Nothing) = <<>>
    BY DEF Doc
  <1>4. ASSUME NEW c \in DOMAIN commits
        PROVE  /\ Doc(c) = <<commits[c].doc>> /\ Line(c) = commits[c].line
               /\ commits[c].line \subseteq DOMAIN commits
    BY <1>2 DEF Doc, Line, TypeOK
  <1> QED BY <1>1, <1>2, <1>3, <1>4

LEMMA StashTypes ==
  ASSUME TypeOK, stashes # <<>>
  PROVE  stashes[1].doc \in Nat /\ stashes[1].base \in Staged /\ stashes[1].staged \in Staged
  <1>1. stashes \in Seq(Stashes) /\ 1 \in DOMAIN stashes
    BY DEF TypeOK
  <1>2. stashes[1] \in Stashes
    BY <1>1
  <1> QED BY <1>2 DEF Stashes

\* An operation with a checkpoint runs on a document without markers.
LEMMA RunsOnDocument ==
  ASSUME Inv, NEW method \in Mutations, Running(method)
  PROVE  /\ call # Nothing /\ call.kept # Nothing /\ call.kept \in history
         /\ file \in Nat /\ file # Markers
  BY RepositoryAssumption DEF Inv, TypeOK, Clean, Running, Checkpointed

\* A checkout puts a document of one stage into index and file.
LEMMA MoveType ==
  ASSUME Inv, file \in Nat, NEW c \in DOMAIN commits, MayMove(c), Move(c)
  PROVE  index' \in Staged \ {<<>>} /\ file' \in Nat
  <1>1. index \in Staged
    BY Documents DEF Inv, TypeOK, MayMove, Unmerged
  <1>2. Doc(c) = <<commits[c].doc>> /\ commits[c].doc \in Nat
    BY CommitTypes DEF Inv
  <1>3. Doc(c) \in Staged \ {<<>>}
    BY <1>2, Documents
  <1>4. CASE Doc(c) = Doc(HeadCommit)
    <2>1. HeadCommit # Nothing
      BY <1>3, <1>4 DEF Doc
    <2>2. index' = index /\ file' = file
      BY <1>4 DEF Move
    <2> QED BY <1>1, <2>1, <2>2 DEF Inv, Clean
  <1>5. CASE Doc(c) = index
    BY <1>3, <1>5 DEF Move
  <1>6. CASE Doc(c) \notin {Doc(HeadCommit), index}
    BY <1>2, <1>3, <1>6 DEF Move
  <1> QED BY <1>4, <1>5, <1>6

\* A commit is added at the end, and refers to what its parent does.
NewCommit(doc, parent) ==
  /\ commits' \in Seq(Commits)
  /\ Len(commits') = Len(commits) + 1 /\ Len(commits') \notin DOMAIN commits
  /\ DOMAIN commits' = DOMAIN commits \cup {Len(commits')}
  /\ \A c \in DOMAIN commits : commits'[c] = commits[c]
  /\ commits'[Len(commits')].doc = doc
  /\ commits'[Len(commits')].line = {Len(commits')} \cup Line(parent)
  /\ \A c \in DOMAIN commits' : commits'[c].line \subseteq DOMAIN commits'

LEMMA CommittedType ==
  ASSUME TypeOK, NEW doc \in Nat, NEW parent \in DOMAIN commits \cup {Nothing},
         commits' = Committed(doc, parent)
  PROVE  NewCommit(doc, parent)
  <1> DEFINE new == [doc |-> doc, line |-> {Len(commits) + 1} \cup Line(parent)]
  <1>1. Line(parent) \subseteq DOMAIN commits /\ commits \in Seq(Commits)
    BY CommitTypes DEF Line, TypeOK
  <1>2. new \in Commits
    BY <1>1, LenProperties DEF Commits
  <1>3. /\ new.doc = doc /\ new.line = {Len(commits) + 1} \cup Line(parent)
        /\ commits' = Append(commits, new)
    BY DEF Committed
  <1> HIDE DEF new
  <1>4. /\ commits' \in Seq(Commits) /\ Len(commits') = Len(commits) + 1
        /\ DOMAIN commits' = DOMAIN commits \cup {Len(commits')}
        /\ Len(commits') \notin DOMAIN commits
        /\ \A c \in DOMAIN commits : commits'[c] = commits[c]
        /\ commits'[Len(commits')] = new
    BY <1>1, <1>2, <1>3
  <1>5. \A c \in DOMAIN commits : commits[c].line \subseteq DOMAIN commits
    BY DEF TypeOK
  <1> QED BY <1>1, <1>3, <1>4, <1>5 DEF NewCommit

LEMMA InitInv == Init => Inv
<1> SUFFICES ASSUME Init PROVE Inv
  OBVIOUS
<1>1. <<>> \in Seq(Commits) /\ <<>> \in Seq(Stashes) /\ DOMAIN <<>> = {}
  OBVIOUS
<1>2. Pointers(heads, Branches) /\ Pointers(remote, Branches) /\ Pointers(tracking, Branches)
      /\ Pointers(tags, Tags)
  BY <1>1 DEF Init, Pointers
<1>3. TypeOK
  BY <1>1, <1>2, Documents, RepositoryAssumption DEF Init, TypeOK
<1>4. Clean
  BY <1>1, RepositoryAssumption DEF Init, Clean, HeadCommit
<1> QED BY <1>3, <1>4 DEF Inv

\* What an operation leaves alone keeps its type.
LEMMA InvStep == Inv /\ [Next]_vars => Inv'
<1> SUFFICES ASSUME Inv, [Next]_vars PROVE Inv'
  OBVIOUS
<1> USE DEF Inv
<1>1. ASSUME NEW checkpoint, Call(checkpoint) PROVE Inv'
  BY <1>1, RepositoryAssumption
  DEF Call, TypeOK, Clean, Pointers, HeadCommit, Unmerged, repo, far
<1>2. CASE Edit
  BY <1>2, RepositoryAssumption
  DEF Edit, Fresh, TypeOK, Clean, Pointers, HeadCommit, Unmerged, repo, far
<1>3. CASE Refused
  BY <1>3, RepositoryAssumption
  DEF Refused, End, TypeOK, Clean, Pointers, HeadCommit, Unmerged, repo, far
<1>4. CASE init \/ set_remote
  BY <1>4, RepositoryAssumption
  DEF init, set_remote, End, TypeOK, Clean, Pointers, HeadCommit, Unmerged, repo
<1>5. CASE stage
  <2>1. file \in Nat /\ file # Markers
    BY <1>5, RunsOnDocument DEF stage, Mutations
  <2>2. CASE index' = <<file>> /\ End /\ UNCHANGED <<repo, far, file, history, versions>>
    <3>1. index' \in Staged /\ index' # <<>>
      BY <2>1, <2>2, Documents
    <3>2. TypeOK'
      BY <2>2, <3>1 DEF End, TypeOK, Pointers, repo, far
    <3> QED BY <2>1, <2>2, <3>1, <3>2 DEF End, Clean
  <2> QED BY <1>3, <1>5, <2>2 DEF stage, Attempt
<1>6. CASE unstage
  <2>1. file \in Nat /\ file # Markers
    BY <1>6, RunsOnDocument DEF unstage, Mutations
  <2>2. CASE /\ HeadCommit # Nothing /\ index' = Doc(HeadCommit)
             /\ End /\ UNCHANGED <<repo, far, file, history, versions>>
    <3>1. index' \in Staged /\ index' # <<>>
      BY <2>2, Documents, CommitTypes
    <3>2. TypeOK'
      BY <2>2, <3>1 DEF End, TypeOK, Pointers, repo, far
    <3> QED BY <2>1, <2>2, <3>1, <3>2 DEF End, Clean
  <2> QED BY <1>3, <1>6, <2>2 DEF unstage, Attempt
<1>7. CASE stash_list
  BY <1>3, <1>7 DEF stash_list, Refused
<1>8. CASE stash_create
  <2>1. file \in Nat /\ file # Markers
    BY <1>8, RunsOnDocument DEF stash_create, Mutations
  <2>2. CASE /\ HeadCommit # Nothing /\ ~Unmerged
             /\ stashes' = IF <<file>> = index /\ index = Doc(HeadCommit) THEN stashes
                           ELSE <<[base |-> Doc(HeadCommit), staged |-> index, doc |-> file]>> \o stashes
             /\ index' = Doc(HeadCommit) /\ file' = commits[HeadCommit].doc
             /\ End /\ UNCHANGED <<commits, heads, tags, head, far, history, versions>>
    <3>1. /\ index' \in Staged /\ index' # <<>> /\ Doc(HeadCommit) \in Staged
          /\ file' \in Nat /\ index \in Staged
      BY <2>2, Documents, CommitTypes DEF TypeOK, Unmerged
    <3>2. stashes' \in Seq(Stashes)
      <4>1. [base |-> Doc(HeadCommit), staged |-> index, doc |-> file] \in Stashes
        BY <2>1, <3>1 DEF Stashes
      <4>2. \A entry \in Stashes : <<entry>> \o stashes \in Seq(Stashes)
        BY DEF TypeOK
      <4> QED BY <2>2, <4>1, <4>2 DEF TypeOK
    <3>3. TypeOK'
      BY <2>2, <3>1, <3>2 DEF End, TypeOK, Pointers, far
    <3> QED BY <2>2, <3>1, <3>3, RepositoryAssumption DEF End, Clean
  <2> QED BY <1>3, <1>8, <2>2 DEF stash_create, Attempt
<1>9. CASE stash_apply
  <2>1. file \in Nat /\ file # Markers
    BY <1>9, RunsOnDocument DEF stash_apply, Mutations
  <2>2. CASE /\ Applies /\ file' = IF Brings THEN stashes[1].doc ELSE file
             /\ End /\ UNCHANGED <<repo, far, index, history, versions>>
    <3>1. file' \in Nat
      BY <2>1, <2>2, StashTypes DEF Applies
    <3> QED BY <2>2, <3>1, RepositoryAssumption
        DEF End, TypeOK, Clean, Pointers, HeadCommit, repo, far
  <2> QED BY <1>3, <1>9, <2>2 DEF stash_apply, Attempt
<1>10. CASE stash_merge
  BY <1>10, RepositoryAssumption
  DEF stash_merge, End, Fresh, TypeOK, Clean, Pointers, HeadCommit, repo, far
<1>11. CASE stash_conflict
  <2>1. file \in Nat /\ index = <<file>>
    BY <1>11, RunsOnDocument DEF stash_conflict, Mutations
  <2>2. index' \in Conflicts
    <3>1. stashes[1].doc \in Nat /\ index[1] = file
      BY <1>11, <2>1, StashTypes DEF stash_conflict, Applies
    <3> QED BY <1>11, <2>1, <3>1 DEF stash_conflict, Conflicts
  <2>3. Len(index') = 2 /\ index' # <<>>
    BY <2>2, Documents
  <2>4. TypeOK'
    BY <1>11, <2>2 DEF stash_conflict, End, TypeOK, Pointers, repo, far
  <2> QED BY <1>11, <2>3, <2>4 DEF stash_conflict, End, Clean, Unmerged
<1>12. CASE resolve_conflict
  <2>1. ASSUME NEW ours \in 1..2, Unmerged, index' = <<index[ours]>>, file' = index[ours],
               End, UNCHANGED <<repo, far, history, versions>>
        PROVE  Inv'
    <3>1. index[ours] \in Nat
      <4>1. index \in Conflicts
        BY <2>1, Documents DEF TypeOK, Unmerged
      <4> QED BY <4>1, Documents
    <3>2. index' \in Staged /\ index' # <<>>
      BY <2>1, <3>1, Documents
    <3>3. TypeOK'
      BY <2>1, <3>1, <3>2 DEF End, TypeOK, Pointers, repo, far
    <3> QED BY <2>1, <3>1, <3>2, <3>3, RepositoryAssumption DEF End, Clean
  <2> QED BY <1>3, <1>12, <2>1 DEF resolve_conflict, Attempt
<1>13. CASE commit
  <2>1. file \in Nat /\ file # Markers
    BY <1>13, RunsOnDocument DEF commit, Mutations
  <2>2. CASE /\ ~Unmerged /\ index # Doc(HeadCommit)
             /\ commits' = Committed(index[1], HeadCommit)
             /\ heads' = Pointing(heads, head, Len(commits'))
             /\ End /\ UNCHANGED <<tags, head, stashes, far, index, file, history, versions>>
    <3>1. index # <<>>
      BY <2>2 DEF Clean, Doc
    <3>2. index[1] \in Nat /\ index \in Staged
      BY <2>2, <3>1, Documents DEF TypeOK, Unmerged
    <3>3. NewCommit(index[1], HeadCommit)
      BY <2>2, <3>2, CommittedType, CommitTypes
    <3>4. Pointers(heads, Branches)'
      <4>1. DOMAIN heads \subseteq Branches /\ head \in Branches
            /\ heads \in [DOMAIN heads -> DOMAIN commits'] /\ Len(commits') \in DOMAIN commits'
        BY <3>3 DEF NewCommit, TypeOK, Pointers
      <4> QED BY <2>2, <4>1, PointingType DEF Pointers
    <3>5. /\ Pointers(remote, Branches)' /\ Pointers(tracking, Branches)' /\ Pointers(tags, Tags)'
          /\ forsaken' \subseteq DOMAIN commits'
      BY <2>2, <3>3 DEF NewCommit, TypeOK, Pointers, far
    <3>6. TypeOK'
      BY <2>2, <3>3, <3>4, <3>5 DEF End, NewCommit, TypeOK, far
    <3> QED BY <2>1, <2>2, <3>1, <3>6 DEF End, Clean
  <2> QED BY <1>3, <1>13, <2>2 DEF commit, Attempt
<1>14. CASE create_branch
  <2>1. file \in Nat /\ file # Markers
    BY <1>14, RunsOnDocument DEF create_branch, Mutations
  <2>2. ASSUME NEW b \in Branches, b \notin DOMAIN heads, head' = b,
               heads' = IF HeadCommit = Nothing THEN heads ELSE Pointing(heads, b, HeadCommit),
               End, UNCHANGED <<commits, tags, stashes, far, index, file, history, versions>>
        PROVE  Inv'
    <3>1. Pointers(heads, Branches)'
      BY <2>2, CommitTypes, PointingType DEF TypeOK, Pointers
    <3>2. TypeOK'
      BY <2>2, <3>1 DEF End, TypeOK, Pointers, far
    <3>3. HeadCommit = Nothing => HeadCommit' = Nothing
      BY <2>2 DEF HeadCommit
    <3> QED BY <2>1, <2>2, <3>2, <3>3 DEF End, Clean
  <2> QED BY <1>3, <1>14, <2>2 DEF create_branch, Attempt
<1>15. CASE switch_branch
  <2>1. file \in Nat /\ file # Markers
    BY <1>15, RunsOnDocument DEF switch_branch, Mutations
  <2>2. ASSUME NEW b \in Branches, NEW tip,
               tip = IF b \in DOMAIN heads THEN heads[b] ELSE tracking[b],
               b \in DOMAIN heads \cup DOMAIN tracking, MayMove(tip), head' = b,
               heads' = Pointing(heads, b, tip),
               upstream' = IF b \in DOMAIN heads THEN upstream ELSE upstream \cup {b},
               Move(tip), End,
               UNCHANGED <<commits, tags, stashes, remote, tracking, cloned, forsaken, history, versions>>
        PROVE  Inv'
    <3>1. tip \in DOMAIN commits
      BY <2>2 DEF TypeOK, Pointers
    <3>2. index' \in Staged /\ index' # <<>> /\ file' \in Nat
      BY <2>1, <2>2, <3>1, MoveType
    <3>3. Pointers(heads, Branches)'
      BY <2>2, <3>1, PointingType DEF TypeOK, Pointers
    <3>4. TypeOK'
      BY <2>2, <3>2, <3>3 DEF End, TypeOK, Pointers
    <3> QED BY <2>2, <3>2, <3>4, RepositoryAssumption DEF End, Clean
  <2> QED BY <1>3, <1>15, <2>2 DEF switch_branch, Attempt
<1>16. CASE delete_branch
  <2>1. ASSUME NEW b \in Branches, NEW force \in BOOLEAN, b # head, b \in DOMAIN heads,
               heads' = Without(heads, b), upstream' = upstream \ {b},
               forsaken' = IF force THEN forsaken \cup Line(heads[b]) ELSE forsaken, End,
               UNCHANGED <<commits, tags, head, stashes, remote, tracking, cloned, index, file, history, versions>>
        PROVE  Inv'
    <3>1. Pointers(heads, Branches)'
      BY <2>1, WithoutType DEF TypeOK, Pointers
    <3>2. forsaken' \subseteq DOMAIN commits
      BY <2>1, CommitTypes DEF TypeOK, Pointers
    <3>3. TypeOK'
      BY <2>1, <3>1, <3>2 DEF End, TypeOK, Pointers
    <3>4. HeadCommit' = HeadCommit
      BY <2>1 DEF HeadCommit, Without
    <3> QED BY <2>1, <3>3, <3>4 DEF End, Clean, Unmerged
  <2> QED BY <1>3, <1>16, <2>1 DEF delete_branch, Attempt
<1>17. CASE create_tag
  <2>1. ASSUME NEW t \in Tags, HeadCommit # Nothing, tags' = Pointing(tags, t, HeadCommit), End,
               UNCHANGED <<commits, heads, head, stashes, far, index, file, history, versions>>
        PROVE  Inv'
    <3>1. Pointers(tags, Tags)'
      BY <2>1, CommitTypes, PointingType DEF TypeOK, Pointers
    <3>2. TypeOK'
      BY <2>1, <3>1 DEF End, TypeOK, Pointers, far
    <3> QED BY <2>1, <3>2 DEF End, Clean, HeadCommit, Unmerged
  <2> QED BY <1>3, <1>17, <2>1 DEF create_tag, Attempt
<1>18. CASE FarCommit
  <2>1. PICK b \in Branches, from \in DOMAIN remote :
          /\ commits' = Committed(Fresh, remote[from])
          /\ remote' = Pointing(remote, b, Len(commits'))
    BY <1>18 DEF FarCommit
  <2>2. Fresh \in Nat /\ remote[from] \in DOMAIN commits
    BY DEF Fresh, TypeOK, Pointers
  <2>3. NewCommit(Fresh, remote[from])
    BY <2>1, <2>2, CommittedType
  <2>4. Pointers(remote, Branches)'
    <3>1. DOMAIN remote \subseteq Branches
          /\ remote \in [DOMAIN remote -> DOMAIN commits'] /\ Len(commits') \in DOMAIN commits'
      BY <2>3 DEF NewCommit, TypeOK, Pointers
    <3> QED BY <2>1, <3>1, PointingType DEF Pointers
  <2>5. /\ Pointers(heads, Branches)' /\ Pointers(tracking, Branches)' /\ Pointers(tags, Tags)'
        /\ forsaken' \subseteq DOMAIN commits'
    BY <1>18, <2>3 DEF FarCommit, NewCommit, TypeOK, Pointers
  <2>6. TypeOK'
    BY <1>18, <2>2, <2>3, <2>4, <2>5 DEF FarCommit, NewCommit, TypeOK
  <2>7. Clean'
    BY <1>18 DEF FarCommit, Clean, HeadCommit, Unmerged
  <2> QED BY <2>6, <2>7
<1>19. CASE FarDelete
  <2>1. PICK b \in DOMAIN remote :
          remote' = Without(remote, b) /\ forsaken' = forsaken \cup Line(remote[b])
    BY <1>19 DEF FarDelete
  <2>2. Pointers(remote, Branches)' /\ forsaken' \subseteq DOMAIN commits
    <3>1. commits' = commits /\ Line(remote[b]) \subseteq DOMAIN commits
      BY <1>19, CommitTypes DEF FarDelete, repo, TypeOK, Pointers
    <3> QED BY <2>1, <3>1, WithoutType DEF TypeOK, Pointers
  <2>3. TypeOK'
    BY <1>19, <2>2 DEF FarDelete, TypeOK, Pointers, repo
  <2>4. Clean'
    BY <1>19 DEF FarDelete, Clean, HeadCommit, Unmerged, repo
  <2> QED BY <2>3, <2>4
<1>20. CASE fetch
  <2>1. CASE /\ tracking' = remote /\ End
             /\ UNCHANGED <<repo, remote, upstream, cloned, forsaken, index, file, history, versions>>
    BY <2>1 DEF End, TypeOK, Clean, Pointers, HeadCommit, Unmerged, repo
  <2> QED BY <1>3, <1>20, <2>1 DEF fetch, Attempt
<1>21. CASE pull
  <2>1. file \in Nat /\ file # Markers
    BY <1>21, RunsOnDocument DEF pull, Mutations
  <2>2. ASSUME NEW b \in Branches, b \in DOMAIN remote, Pulled(b), End,
               \/ UNCHANGED <<heads, index, file>>
               \/ MayMove(remote[b]) /\ heads' = Pointing(heads, head, remote[b]) /\ Move(remote[b])
        PROVE  Inv'
    <3>1. remote[b] \in DOMAIN commits
      BY <2>2 DEF TypeOK, Pointers
    <3>2. Pointers(tracking, Branches)'
      BY <2>2, <3>1, PointingType DEF Pulled, TypeOK, Pointers
    <3>3. CASE UNCHANGED <<heads, index, file>>
      BY <2>2, <3>2, <3>3 DEF Pulled, End, TypeOK, Clean, Pointers, HeadCommit, Unmerged
    <3>4. CASE MayMove(remote[b]) /\ heads' = Pointing(heads, head, remote[b]) /\ Move(remote[b])
      <4>1. index' \in Staged /\ index' # <<>> /\ file' \in Nat
        BY <2>1, <3>1, <3>4, MoveType
      <4>2. Pointers(heads, Branches)'
        BY <2>2, <3>1, <3>4, PointingType DEF Pulled, TypeOK, Pointers
      <4>3. TypeOK'
        BY <2>2, <3>2, <4>1, <4>2 DEF Pulled, End, TypeOK, Pointers
      <4> QED BY <2>2, <4>1, <4>3, RepositoryAssumption DEF End, Clean
    <3> QED BY <2>2, <3>3, <3>4
  <2> QED BY <1>3, <1>21, <2>2 DEF pull
<1>22. CASE push
  <2>1. ASSUME NEW b \in Branches, b \in DOMAIN heads, remote' = Pointing(remote, b, heads[b]),
               tracking' = Pointing(tracking, b, heads[b]), upstream' = upstream \cup {b}, End,
               UNCHANGED <<repo, cloned, forsaken, index, file, history, versions>>
        PROVE  Inv'
    <3>1. Pointers(remote, Branches)' /\ Pointers(tracking, Branches)'
      BY <2>1, PointingType DEF TypeOK, Pointers, repo
    <3>2. TypeOK'
      BY <2>1, <3>1 DEF End, TypeOK, Pointers, repo
    <3> QED BY <2>1, <3>2 DEF End, Clean, HeadCommit, Unmerged, repo
  <2> QED BY <1>3, <1>22, <2>1 DEF push, Attempt
<1>23. CASE UNCHANGED vars
  BY <1>23 DEF vars, TypeOK, Clean, Pointers, HeadCommit, Unmerged, repo, far
<1> QED
  BY <1>1, <1>2, <1>4, <1>5, <1>6, <1>7, <1>8, <1>9, <1>10, <1>11, <1>12, <1>13, <1>14, <1>15,
     <1>16, <1>17, <1>18, <1>19, <1>20, <1>21, <1>22, <1>23
  DEF Next

\* Documents, commits, references, index, stash and history keep their types,
\* whatever is edited beside Git and pushed by others.
THEOREM TypeCorrect == Spec => []TypeOK
<1>1. Inv => TypeOK
  BY DEF Inv
<1> QED BY <1>1, InitInv, InvStep, PTL DEF Spec

-----------------------------------------------------------------------------
(* Conflict markers.                                                       *)

LEMMA StagedDocuments ==
  ASSUME NEW stages \in Staged \cup Conflicts
  PROVE  ToSet(stages) \subseteq Nat
  <1>1. CASE stages \in Staged
    BY <1>1 DEF Staged, ToSet
  <1>2. CASE stages \in Conflicts
    BY <1>2 DEF Conflicts, ToSet
  <1> QED BY <1>1, <1>2

\* What history, commits, stash and index hold are versions.
LEMMA KeptIsUnmarked == ASSUME TypeOK PROVE Kept \subseteq Nat
  <1>1. \A c \in DOMAIN commits : commits[c].doc \in Nat
    BY CommitTypes
  <1>2. \A s \in ToSet(stashes) : s.doc \in Nat /\ ToSet(s.staged) \subseteq Nat
    <2>1. \A s \in ToSet(stashes) : s \in Stashes
      BY DEF ToSet, TypeOK
    <2> QED BY <2>1, StagedDocuments DEF Stashes
  <1>3. ToSet(index) \subseteq Nat /\ history \subseteq Nat
    BY StagedDocuments DEF TypeOK
  <1> QED BY <1>1, <1>2, <1>3 DEF Kept

\* No operation stages, commits, stashes or pushes conflict markers, and while
\* the document holds them Git knows of the conflict: the checkpoint that
\* begins an operation cannot load such a document, and only operations write
\* markers.
THEOREM MarkersStay == Spec => []MarkersStayOut
<1>1. Inv => MarkersStayOut
  BY KeptIsUnmarked, RepositoryAssumption DEF Inv, Clean, MarkersStayOut
<1> QED BY <1>1, InitInv, InvStep, PTL DEF Spec

-----------------------------------------------------------------------------
(* Edits.                                                                  *)

\* A checkout that replaces the document finds it committed.
LEMMA MoveKeeps ==
  ASSUME Inv, file \in Nat, NEW c \in DOMAIN commits, MayMove(c), Move(c), file' # file
  PROVE  \E d \in DOMAIN commits : file = commits[d].doc
  <1>1. Doc(c) \notin {Doc(HeadCommit), index}
    BY DEF Move
  <1>2. index = Doc(HeadCommit) /\ <<file>> = index
    BY <1>1 DEF MayMove
  <1>3. HeadCommit # Nothing
    BY <1>2, CommitTypes DEF Inv
  <1>4. HeadCommit \in DOMAIN commits /\ <<file>> = <<commits[HeadCommit].doc>>
    BY <1>2, <1>3, CommitTypes DEF Inv
  <1> QED BY <1>4

\* What a Git operation takes out of the worktree is in the history, a commit,
\* the stash or the index, however edits fall between the checkpoint and the
\* operation, except when a conflict is resolved.
THEOREM EditsAreKept == Spec => EditsSurviveGit
<1> DEFINE Lost == /\ call # Nothing /\ call' = Nothing /\ file' # file /\ file # Markers
                   /\ file \notin Kept'
                   /\ ~(resolve_conflict /\ call.kept \notin {file, Nothing})
<1>1. ASSUME Inv, Next, Lost PROVE FALSE
  <2>1. /\ \A c \in DOMAIN commits' : file # commits'[c].doc
        /\ \A s \in ToSet(stashes') : file # s.doc
        /\ \A i \in DOMAIN index' : file # index'[i]
        /\ file \notin history'
    BY <1>1 DEF Kept, ToSet
  <2>2. file \in Nat
    BY <1>1 DEF Inv, TypeOK
  <2>3. CASE switch_branch
    <3>1. PICK b \in Branches :
            LET tip == IF b \in DOMAIN heads THEN heads[b] ELSE tracking[b]
            IN  b \in DOMAIN heads \cup DOMAIN tracking /\ MayMove(tip) /\ Move(tip) /\ commits' = commits
      BY <1>1, <2>3 DEF switch_branch, Attempt, Refused
    <3> DEFINE tip == IF b \in DOMAIN heads THEN heads[b] ELSE tracking[b]
    <3>2. tip \in DOMAIN commits /\ MayMove(tip) /\ Move(tip) /\ commits' = commits
      BY <1>1, <3>1 DEF Inv, TypeOK, Pointers
    <3> HIDE DEF tip
    <3> QED BY <1>1, <2>1, <2>2, <3>2, MoveKeeps
  <2>4. CASE pull
    <3>1. PICK b \in Branches : b \in DOMAIN remote /\ MayMove(remote[b]) /\ Move(remote[b]) /\ commits' = commits
      BY <1>1, <2>4 DEF pull, Refused, Pulled
    <3>2. remote[b] \in DOMAIN commits
      BY <1>1, <3>1 DEF Inv, TypeOK, Pointers
    <3> QED BY <1>1, <2>1, <2>2, <3>1, <3>2, MoveKeeps
  <2>5. CASE stash_create
    <3>1. /\ HeadCommit # Nothing
          /\ stashes' = IF <<file>> = index /\ index = Doc(HeadCommit) THEN stashes
                        ELSE <<[base |-> Doc(HeadCommit), staged |-> index, doc |-> file]>> \o stashes
          /\ file' = commits[HeadCommit].doc
      BY <1>1, <2>5 DEF stash_create, Attempt, Refused
    <3>2. CASE <<file>> = index /\ index = Doc(HeadCommit)
      <4>1. <<file>> = <<file'>>
        BY <1>1, <3>1, <3>2, CommitTypes DEF Inv
      <4> QED BY <1>1, <4>1
    <3>3. CASE ~(<<file>> = index /\ index = Doc(HeadCommit))
      <4> DEFINE new == [base |-> Doc(HeadCommit), staged |-> index, doc |-> file]
      <4>1. new.doc = file /\ stashes' = <<new>> \o stashes /\ stashes \in Seq(Stashes)
        BY <1>1, <3>1, <3>3 DEF Inv, TypeOK
      <4> HIDE DEF new
      <4>2. 1 \in DOMAIN stashes' /\ stashes'[1] = new
        <5>1. stashes \in Seq(Stashes \cup {new}) /\ <<new>> \in Seq(Stashes \cup {new})
          BY <4>1
        <5> QED BY <4>1, <5>1
      <4> QED BY <2>1, <4>1, <4>2 DEF ToSet
    <3> QED BY <3>2, <3>3
  <2>6. CASE stash_apply \/ stash_merge \/ stash_conflict
    <3>1. index = <<file>> /\ 1 \in DOMAIN index' /\ index'[1] = index[1]
      BY <1>1, <2>6 DEF stash_apply, stash_merge, stash_conflict, Attempt, Refused
    <3> QED BY <2>1, <3>1
  <2>7. CASE resolve_conflict
    <3>1. call.kept \in history /\ call.kept # Nothing /\ history' = history
      BY <1>1, <2>7, RunsOnDocument DEF resolve_conflict, Mutations, Attempt, Refused
    <3> QED BY <1>1, <2>1, <2>7, <3>1
  <2>8. CASE \/ init \/ set_remote \/ stage \/ unstage \/ commit \/ create_branch \/ delete_branch
             \/ create_tag \/ stash_list \/ fetch \/ push
    BY <1>1, <2>8
    DEF init, set_remote, stage, unstage, commit, create_branch, delete_branch, create_tag,
        stash_list, fetch, push, Attempt, Refused
  <2>9. CASE Edit \/ FarCommit \/ FarDelete \/ \E checkpoint : Call(checkpoint)
    BY <1>1, <2>9 DEF Edit, FarCommit, FarDelete, Call
  <2> QED BY <1>1, <2>3, <2>4, <2>5, <2>6, <2>7, <2>8, <2>9 DEF Next
<1>2. Inv /\ [Next]_vars => [~Lost]_vars
  BY <1>1 DEF vars
<1>3. [~Lost]_vars =>
        [call # Nothing /\ call' = Nothing /\ file' # file /\ file # Markers
           => file \in Kept' \/ (resolve_conflict /\ call.kept \notin {file, Nothing})]_vars
  OBVIOUS
<1> HIDE DEF Lost
<1> QED BY <1>2, <1>3, InitInv, InvStep, PTL DEF Spec, EditsSurviveGit

-----------------------------------------------------------------------------
(* Commits.                                                                *)

\* A reference that moves to a descendant, or is added, reaches what it
\* reached; it reaches nothing new but what its commit descends from.
LEMMA PointingReaches ==
  ASSUME NEW cs, NEW refs, NEW b, NEW c, NEW d
  PROVE  /\ Reaches(cs, refs, d) /\ (b \in DOMAIN refs /\ d \in cs[refs[b]].line => d \in cs[c].line)
              => Reaches(cs, Pointing(refs, b, c), d)
         /\ d \in cs[c].line => Reaches(cs, Pointing(refs, b, c), d)
         /\ Reaches(cs, Pointing(refs, b, c), d) => Reaches(cs, refs, d) \/ d \in cs[c].line
  BY DEF Reaches, Pointing

\* A reference that is removed leaves unreached only what it descends from.
LEMMA WithoutReaches ==
  ASSUME NEW cs, NEW refs, NEW b \in DOMAIN refs, NEW d, Reaches(cs, refs, d)
  PROVE  Reaches(cs, Without(refs, b), d) \/ d \in cs[refs[b]].line
  BY DEF Reaches, Without

\* New commits change nothing for references to old ones.
LEMMA OldReaches ==
  ASSUME NEW refs, NEW d,
         \A b \in DOMAIN refs : refs[b] \in DOMAIN commits,
         \A c \in DOMAIN commits : commits'[c] = commits[c]
  PROVE  Reaches(commits', refs, d) <=> Reaches(commits, refs, d)
  BY DEF Reaches

CommitInv == Ancestry /\ Seen /\ Reachable

\* Whatever descends from a commit in the line of c is in the line of c.
LEMMA Descends ==
  ASSUME TypeOK, Ancestry, NEW c \in DOMAIN commits \cup {Nothing}, NEW d \in Line(c)
  PROVE  d \in DOMAIN commits /\ commits[d].line \subseteq Line(c) /\ c # Nothing
  BY CommitTypes DEF Ancestry, Line

LEMMA CommitInit == Init => CommitInv
  BY DEF Init, CommitInv, Ancestry, Seen, Reachable, Reaches

\* References and commits that nobody touched.
LEMMA CommitFrame ==
  ASSUME CommitInv, UNCHANGED <<commits, heads, tags, remote, tracking, forsaken>>
  PROVE  CommitInv'
  BY DEF CommitInv, Ancestry, Seen, Reachable

\* A commit on top of an old one: its line is its parent's and itself.
LEMMA AncestryGrows ==
  ASSUME TypeOK, Ancestry, NEW doc, NEW parent \in DOMAIN commits \cup {Nothing},
         NewCommit(doc, parent)
  PROVE  Ancestry'
  <1> DEFINE new == Len(commits')
  <1>1. /\ new \notin DOMAIN commits /\ DOMAIN commits' = DOMAIN commits \cup {new}
        /\ \A c \in DOMAIN commits : commits'[c] = commits[c]
        /\ commits'[new].line = {new} \cup Line(parent)
    BY DEF NewCommit
  <1> HIDE DEF new
  <1>2. ASSUME NEW c \in DOMAIN commits, NEW d \in commits[c].line
        PROVE  d \in DOMAIN commits /\ commits'[d].line \subseteq commits'[c].line
    BY <1>1, <1>2, CommitTypes DEF Ancestry
  <1>3. ASSUME NEW d \in Line(parent)
        PROVE  d \in DOMAIN commits /\ commits'[d].line \subseteq Line(parent)
    BY <1>1, Descends
  <1>4. ASSUME NEW c \in DOMAIN commits'
        PROVE  c \in commits'[c].line /\ \A d \in commits'[c].line : commits'[d].line \subseteq commits'[c].line
    <2>1. CASE c \in DOMAIN commits
      BY <1>1, <1>2, <2>1 DEF Ancestry
    <2>2. CASE c = new
      BY <1>1, <1>3, <2>2
    <2> QED BY <1>1, <2>1, <2>2
  <1> QED BY <1>4 DEF Ancestry

LEMMA CommitStep == Inv /\ CommitInv /\ [Next]_vars => CommitInv'
<1> SUFFICES ASSUME Inv, CommitInv, [Next]_vars PROVE CommitInv'
  OBVIOUS
<1> USE DEF Inv
<1>0. /\ TypeOK /\ Ancestry /\ Seen /\ Reachable
      /\ \A d \in DOMAIN commits : d \in commits[d].line
  BY DEF CommitInv, Ancestry
<1>1. CASE UNCHANGED <<commits, heads, tags, remote, tracking, forsaken>>
  BY <1>1, CommitFrame
<1>2. CASE commit
  <2>1. CASE /\ ~Unmerged /\ index # Doc(HeadCommit)
             /\ commits' = Committed(index[1], HeadCommit)
             /\ heads' = Pointing(heads, head, Len(commits'))
             /\ UNCHANGED <<tags, remote, tracking, forsaken>>
    <3>1. index[1] \in Nat
      <4>1. index \in Staged \ {<<>>}
        BY <2>1, Documents DEF TypeOK, Clean, Doc, Unmerged
      <4> QED BY <4>1, Documents
    <3>2. NewCommit(index[1], HeadCommit)
      BY <2>1, <3>1, CommittedType, CommitTypes
    <3>3. Ancestry'
      BY <1>0, <3>2, AncestryGrows, CommitTypes
    <3> DEFINE new == Len(commits')
    <3>4. /\ DOMAIN commits' = DOMAIN commits \cup {new}
          /\ \A c \in DOMAIN commits : commits'[c] = commits[c]
          /\ commits'[new].line = {new} \cup Line(HeadCommit)
          /\ heads' = Pointing(heads, head, new) /\ new \notin DOMAIN commits
      BY <2>1, <3>2 DEF NewCommit
    <3> HIDE DEF new
    <3>5. ASSUME NEW d
          PROVE  /\ Reaches(commits', tags, d) <=> Reaches(commits, tags, d)
                 /\ Reaches(commits', remote, d) <=> Reaches(commits, remote, d)
                 /\ Reaches(commits', tracking, d) <=> Reaches(commits, tracking, d)
                 /\ Reaches(commits', heads, d) <=> Reaches(commits, heads, d)
      BY <3>4, OldReaches DEF TypeOK, Pointers
    <3>6. ASSUME NEW d, Reaches(commits, heads, d)
          PROVE  Reaches(commits', Pointing(heads, head, new), d)
      <4>1. head \in DOMAIN heads => commits'[heads[head]].line \subseteq commits'[new].line
        <5>1. ASSUME head \in DOMAIN heads PROVE heads[head] \in DOMAIN commits /\ HeadCommit = heads[head]
          BY <5>1 DEF TypeOK, Pointers, HeadCommit
        <5> QED BY <3>4, <5>1, CommitTypes
      <4> QED BY <3>5, <3>6, <4>1, PointingReaches
    <3>7. Reaches(commits', Pointing(heads, head, new), new)
      BY <3>4, PointingReaches
    <3>8. ASSUME NEW d, Reaches(commits, tracking, d) PROVE d \in DOMAIN commits
      BY <3>8, CommitTypes DEF Reaches, TypeOK, Pointers
    <3>9. Seen'
      BY <1>0, <2>1, <3>4, <3>5, <3>8 DEF Seen
    <3>10. Reachable'
      BY <1>0, <2>1, <3>4, <3>5, <3>6, <3>7 DEF Reachable
    <3> QED BY <3>3, <3>9, <3>10 DEF CommitInv
  <2> QED BY <1>1, <1>2, <2>1 DEF commit, Attempt, Refused, repo, far
<1>3. CASE create_branch
  <2>1. ASSUME NEW b \in Branches, b \notin DOMAIN heads, HeadCommit # Nothing,
               heads' = Pointing(heads, b, HeadCommit),
               UNCHANGED <<commits, tags, remote, tracking, forsaken>>
        PROVE  CommitInv'
    BY <1>0, <2>1, PointingReaches DEF CommitInv, Ancestry, Seen, Reachable
  <2> QED BY <1>1, <1>3, <2>1 DEF create_branch, Attempt, Refused, repo, far
<1>4. CASE switch_branch
  <2>1. ASSUME NEW b \in Branches, NEW tip,
               tip = IF b \in DOMAIN heads THEN heads[b] ELSE tracking[b],
               heads' = Pointing(heads, b, tip),
               UNCHANGED <<commits, tags, remote, tracking, forsaken>>
        PROVE  CommitInv'
    BY <1>0, <2>1, PointingReaches DEF CommitInv, Ancestry, Seen, Reachable
  <2> QED BY <1>1, <1>4, <2>1 DEF switch_branch, Attempt, Refused, repo, far
<1>5. CASE delete_branch
  <2>1. ASSUME NEW b \in Branches, NEW force \in BOOLEAN, b # head, b \in DOMAIN heads,
               force \/ Merged(b), heads' = Without(heads, b),
               forsaken' = IF force THEN forsaken \cup Line(heads[b]) ELSE forsaken,
               UNCHANGED <<commits, tags, remote, tracking>>
        PROVE  CommitInv'
    <3>1. /\ heads[b] \in DOMAIN commits /\ Line(heads[b]) = commits[heads[b]].line
      BY <2>1, CommitTypes DEF TypeOK, Pointers
    <3>2. ASSUME NEW d \in DOMAIN commits, d \in commits[heads[b]].line, ~force
          PROVE  Reaches(commits, Without(heads, b), d) \/ Reaches(commits, remote, d) \/ d \in forsaken
      <4>1. CASE b \in upstream \cap DOMAIN tracking
        <5>1. heads[b] \in Line(tracking[b]) /\ tracking[b] \in DOMAIN commits
          BY <2>1, <3>2, <4>1 DEF Merged, TypeOK, Pointers
        <5>2. d \in commits[tracking[b]].line
          BY <1>0, <3>2, <5>1, CommitTypes DEF Ancestry
        <5>3. Reaches(commits, tracking, d)
          BY <4>1, <5>2 DEF Reaches
        <5> QED BY <1>0, <5>3 DEF Seen
      <4>2. CASE b \notin upstream \cap DOMAIN tracking
        <5>1. heads[b] \in Line(HeadCommit)
          BY <2>1, <3>2, <4>2 DEF Merged
        <5>2. /\ HeadCommit # Nothing /\ d \in commits[HeadCommit].line
          BY <1>0, <3>2, <5>1, CommitTypes DEF Ancestry, Line
        <5>3. head \in DOMAIN Without(heads, b) /\ Without(heads, b)[head] = HeadCommit
          BY <2>1, <5>2 DEF HeadCommit, Without
        <5> QED BY <5>2, <5>3 DEF Reaches
      <4> QED BY <4>1, <4>2
    <3>3. Reachable'
      BY <1>0, <2>1, <3>1, <3>2, WithoutReaches DEF Reachable
    <3>4. Seen' /\ Ancestry'
      BY <1>0, <2>1 DEF Seen, Ancestry
    <3> QED BY <3>3, <3>4 DEF CommitInv
  <2> QED BY <1>1, <1>5, <2>1 DEF delete_branch, Attempt, Refused, repo, far
<1>6. CASE create_tag
  <2>1. ASSUME NEW t \in Tags, t \notin DOMAIN tags, tags' = Pointing(tags, t, HeadCommit),
               UNCHANGED <<commits, heads, remote, tracking, forsaken>>
        PROVE  CommitInv'
    BY <1>0, <2>1, PointingReaches DEF CommitInv, Ancestry, Seen, Reachable
  <2> QED BY <1>1, <1>6, <2>1 DEF create_tag, Attempt, Refused, repo, far
<1>7. CASE FarCommit
  <2>1. PICK b \in Branches, from \in DOMAIN remote :
          /\ b \in DOMAIN remote => from = b
          /\ commits' = Committed(Fresh, remote[from])
          /\ remote' = Pointing(remote, b, Len(commits'))
    BY <1>7 DEF FarCommit
  <2>2. Fresh \in Nat /\ remote[from] \in DOMAIN commits
    BY DEF Fresh, TypeOK, Pointers
  <2>3. NewCommit(Fresh, remote[from])
    BY <2>1, <2>2, CommittedType
  <2>4. Ancestry'
    BY <1>0, <2>2, <2>3, AncestryGrows
  <2> DEFINE new == Len(commits')
  <2>5. /\ DOMAIN commits' = DOMAIN commits \cup {new}
        /\ \A c \in DOMAIN commits : commits'[c] = commits[c]
        /\ commits'[new].line = {new} \cup commits[remote[from]].line
        /\ remote' = Pointing(remote, b, new) /\ new \notin DOMAIN commits
    BY <2>1, <2>2, <2>3, CommitTypes DEF NewCommit
  <2> HIDE DEF new
  <2>6. ASSUME NEW d
        PROVE  /\ Reaches(commits', tags, d) <=> Reaches(commits, tags, d)
               /\ Reaches(commits', remote, d) <=> Reaches(commits, remote, d)
               /\ Reaches(commits', tracking, d) <=> Reaches(commits, tracking, d)
               /\ Reaches(commits', heads, d) <=> Reaches(commits, heads, d)
    BY <2>5, OldReaches DEF TypeOK, Pointers
  <2>7. ASSUME NEW d, Reaches(commits, remote, d)
        PROVE  Reaches(commits', Pointing(remote, b, new), d)
    <3>1. b \in DOMAIN remote => commits'[remote[b]].line \subseteq commits'[new].line
      BY <2>1, <2>2, <2>5
    <3> QED BY <2>6, <2>7, <3>1, PointingReaches
  <2>8. Reaches(commits', Pointing(remote, b, new), new)
    BY <2>5, PointingReaches
  <2>9. ASSUME NEW d, Reaches(commits, tracking, d) PROVE d \in DOMAIN commits
    BY <2>9, CommitTypes DEF Reaches, TypeOK, Pointers
  <2>10. UNCHANGED <<heads, tags, tracking, forsaken>>
    BY <1>7 DEF FarCommit
  <2>11. Seen'
    BY <1>0, <2>5, <2>6, <2>7, <2>9, <2>10 DEF Seen
  <2>12. Reachable'
    BY <1>0, <2>5, <2>6, <2>7, <2>8, <2>10 DEF Reachable
  <2> QED BY <2>4, <2>11, <2>12 DEF CommitInv
<1>8. CASE FarDelete
  <2>1. PICK b \in DOMAIN remote :
          remote' = Without(remote, b) /\ forsaken' = forsaken \cup Line(remote[b])
    BY <1>8 DEF FarDelete
  <2>2. UNCHANGED <<commits, heads, tags, tracking>>
    BY <1>8 DEF FarDelete, repo
  <2>3. Line(remote[b]) = commits[remote[b]].line
    BY CommitTypes DEF TypeOK, Pointers
  <2> QED BY <1>0, <2>1, <2>2, <2>3, WithoutReaches DEF CommitInv, Ancestry, Seen, Reachable
<1>9. CASE fetch
  <2>1. CASE tracking' = remote /\ UNCHANGED <<commits, heads, tags, remote, forsaken>>
    BY <1>0, <2>1 DEF CommitInv, Ancestry, Seen, Reachable
  <2> QED BY <1>1, <1>9, <2>1 DEF fetch, Attempt, Refused, repo, far
<1>10. CASE pull
  <2>1. ASSUME NEW b \in Branches, b \in DOMAIN remote, Pulled(b),
               \/ heads' = heads
               \/ FastForward(remote[b]) /\ heads' = Pointing(heads, head, remote[b])
        PROVE  CommitInv'
    <3>1. UNCHANGED <<commits, tags, remote, forsaken>> /\ remote[b] \in DOMAIN commits
          /\ tracking' = Pointing(tracking, b, remote[b])
      BY <2>1 DEF Pulled, TypeOK, Pointers
    <3>2. \A d : d \in commits[remote[b]].line => Reaches(commits, remote, d)
      BY <2>1 DEF Reaches
    <3>3. Seen' /\ Ancestry'
      BY <1>0, <3>1, <3>2, PointingReaches DEF Seen, Ancestry
    <3>4. ASSUME NEW d \in DOMAIN commits, Reaches(commits, heads, d) PROVE Reaches(commits, heads', d)
      <4>1. CASE heads' = heads
        BY <3>4, <4>1
      <4>2. CASE FastForward(remote[b]) /\ heads' = Pointing(heads, head, remote[b])
        <5>1. ASSUME head \in DOMAIN heads, d \in commits[heads[head]].line
              PROVE  d \in commits[remote[b]].line
          <6>1. HeadCommit = heads[head] /\ HeadCommit \in DOMAIN commits /\ HeadCommit # Nothing
            BY <5>1, CommitTypes DEF HeadCommit, TypeOK, Pointers
          <6>2. HeadCommit \in commits[remote[b]].line
            BY <3>1, <4>2, <6>1, CommitTypes DEF FastForward
          <6> QED BY <1>0, <3>1, <5>1, <6>1, <6>2 DEF Ancestry
        <5> QED BY <3>4, <4>2, <5>1, PointingReaches
      <4> QED BY <2>1, <4>1, <4>2
    <3>5. Reachable'
      BY <1>0, <3>1, <3>4 DEF Reachable
    <3> QED BY <3>3, <3>5 DEF CommitInv
  <2> QED BY <1>1, <1>10, <2>1 DEF pull, Refused, repo, far
<1>11. CASE push
  <2>1. ASSUME NEW b \in Branches, b \in DOMAIN heads,
               b \in DOMAIN remote => remote[b] \in Line(heads[b]),
               remote' = Pointing(remote, b, heads[b]), tracking' = Pointing(tracking, b, heads[b]),
               UNCHANGED <<commits, heads, tags, forsaken>>
        PROVE  CommitInv'
    <3>1. heads[b] \in DOMAIN commits /\ Line(heads[b]) = commits[heads[b]].line
      BY <2>1, CommitTypes DEF TypeOK, Pointers
    <3>2. ASSUME NEW d, Reaches(commits, remote, d) PROVE Reaches(commits, remote', d)
      <4>1. ASSUME b \in DOMAIN remote, d \in commits[remote[b]].line PROVE d \in commits[heads[b]].line
        BY <1>0, <2>1, <3>1, <4>1 DEF Ancestry
      <4> QED BY <2>1, <3>2, <4>1, PointingReaches
    <3>3. \A d : d \in commits[heads[b]].line => Reaches(commits, remote', d)
      BY <2>1, PointingReaches
    <3>4. Seen'
      BY <1>0, <2>1, <3>2, <3>3, PointingReaches DEF Seen
    <3>5. Reachable' /\ Ancestry'
      BY <1>0, <2>1, <3>2 DEF Reachable, Ancestry
    <3> QED BY <3>4, <3>5 DEF CommitInv
  <2> QED BY <1>1, <1>11, <2>1 DEF push, Attempt, Refused, repo, far
<1>12. CASE \/ init \/ set_remote \/ stage \/ unstage \/ stash_list \/ stash_create \/ stash_apply
            \/ stash_merge \/ stash_conflict \/ resolve_conflict
  BY <1>1, <1>12
  DEF init, set_remote, stage, unstage, stash_list, stash_create, stash_apply, stash_merge,
      stash_conflict, resolve_conflict, Attempt, Refused, repo, far
<1>13. CASE (\E checkpoint : Call(checkpoint)) \/ Edit \/ UNCHANGED vars
  BY <1>1, <1>13 DEF Call, Edit, vars, repo, far
<1> QED
  BY <1>2, <1>3, <1>4, <1>5, <1>6, <1>7, <1>8, <1>9, <1>10, <1>11, <1>12, <1>13 DEF Next

\* Whatever was committed here or fetched is reached from a branch, a tag or
\* the remote, unless its branch was deleted with force or by others: pulls
\* and pushes move references to descendants only, and a branch that is deleted
\* without force is merged into one that stays.
THEOREM CommitsStay == Spec => []CommitsSurvive
<1>1. Inv /\ CommitInv => CommitsSurvive
  <2> SUFFICES ASSUME Inv, CommitInv, NEW d \in DOMAIN commits
               PROVE  d \in Lines(heads) \cup Lines(tags) \cup Lines(tracking) \cup Lines(remote) \cup forsaken
    BY DEF CommitsSurvive
  <2>1. ASSUME NEW refs, \A b \in DOMAIN refs : refs[b] \in DOMAIN commits, Reaches(commits, refs, d)
        PROVE  d \in Lines(refs)
    BY <2>1, CommitTypes DEF Inv, Reaches, Lines
  <2> QED BY <2>1 DEF Inv, TypeOK, Pointers, CommitInv, Reachable
<1>2. Inv /\ CommitInv /\ [Next]_vars => Inv' /\ CommitInv'
  BY InvStep, CommitStep
<1> QED BY <1>1, <1>2, InitInv, CommitInit, PTL DEF Spec
=============================================================================
