-------------------------- MODULE Workspace_proofs --------------------------
(***************************************************************************)
(* Theorems about Workspace, for any number of sessions, processes,        *)
(* branches, graphs and any bounds.                                        *)
(***************************************************************************)
EXTENDS Workspace, TLAPS

\* What a session has read and is going to write, by where it is.
Shape ==
  \A s \in Sessions :
    /\ req[s].at \in {"open", "saving", "locked", "loaded", "branching"} =>
         req[s].view \in Documents
    /\ req[s].at \in {"saving", "locked", "coding", "mapping"} => req[s].graph \in Graphs
    /\ At(s, "locked") => req[s].view.rev < MaxRev

Typed == TypeOK /\ Shape

\* s is between the drift check and the write of the source map.
Writing(s) == At(s, "coding") \/ At(s, "mapping")

Paired(t) == t.code \in {t.map, Hand}

\* While no two generations have met, been cut short or had Git move files
\* under them, and only they wrote the source map: every commit is a pair, at most one session writes, and the
\* working tree is a pair except while the code it has is ahead of the map.
\* When the checked-out commit holds an edit, the tree still has it, with the
\* same map: this is why a switch of branch, which replaces the files one by
\* one, puts together only what belongs together.
Pairs ==
  ~torn /\ ~spoiled =>
    /\ \A b \in Branches : Paired(heads[b])
    /\ \A s, t \in Sessions : Writing(s) /\ Writing(t) => s = t
    /\ (\A s \in Sessions : ~At(s, "mapping")) => Paired(tree)
    /\ \A s \in Sessions : At(s, "mapping") => tree.code \in {req[s].graph, Hand}
    /\ \A s \in Sessions : Writing(s) => heads[branch].code # Hand
    /\ heads[branch].code = Hand =>
         tree.code = Hand /\ tree.map = heads[branch].map

\* While only generations wrote it, there is a source map of a graph, in the
\* working tree and in every commit.
Mapped ==
  ~spoiled => tree.map \in Graphs /\ \A b \in Branches : heads[b].map \in Graphs

\* A session that is going to write generated.py has looked at code that came
\* from a graph, or has found nothing to compare it with.
LookedAt ==
  \A s \in Sessions :
    At(s, "coding") => req[s].view \in Graphs \/ (req[s].view = Nothing /\ spoiled)

\* What s is going to replace is as s read it unless something else wrote it,
\* or s has not read it.
Seen(s) == req[s].view = Nothing \/ Unedited(s) \/ bypassed

\* The session past the comparison of ETags holds the lock.
Puts == \A s \in Sessions : At(s, "putting") => editing = s /\ Seen(s)

-----------------------------------------------------------------------------
(* Types.                                                                  *)

\* A snapshot leaves a history of documents within the bound.
LEMMA SnapshotType ==
  ASSUME TypeOK, NEW d \in Documents, Snapshot(d)
  PROVE  /\ hist' \in Seq(Documents) /\ Len(hist') <= HistoryMax
         /\ {recent', stale'} \subseteq BOOLEAN
  <1>1. <<d>> \o hist \in Seq(Documents) /\ Len(<<d>> \o hist) = Len(hist) + 1
    BY DEF TypeOK
  <1>2. Len(hist) \in Nat /\ HistoryMax \in Nat \ {0}
    BY WorkspaceAssumption DEF TypeOK
  <1>3. PICK n \in 1..(Len(hist) + 1) :
          n <= HistoryMax /\ hist' = SubSeq(<<d>> \o hist, 1, n)
    <2>1. CASE Len(hist) < HistoryMax
      BY <2>1, <1>2 DEF Snapshot
    <2>2. CASE ~(Len(hist) < HistoryMax)
      BY <2>2, <1>2 DEF Snapshot, TypeOK
    <2> QED BY <2>1, <2>2
  <1>4. hist' \in Seq(Documents) /\ Len(hist') = n
    BY <1>1, <1>3
  <1>5. {recent', stale'} \subseteq BOOLEAN
    BY DEF Snapshot
  <1> QED BY <1>3, <1>4, <1>5, <1>2

\* A generated and committed project has the types.
LEMMA InitTyped == Init => Typed
  <1> SUFFICES ASSUME Init PROVE Typed
    OBVIOUS
  <1>1. heads \in [Branches -> Trees]
    BY WorkspaceAssumption DEF Init, Generated, Trees, Documents, Codes, Maps
  <1>2. tree \in Trees
    BY <1>1 DEF Init
  <1>3. hist \in Seq(Documents) /\ Len(hist) <= HistoryMax
    BY WorkspaceAssumption DEF Init
  <1>4. /\ branch \in Branches
        /\ events \in 0..MaxEvents
        /\ locks \in [Processes -> Sessions \cup {Nothing}]
        /\ {editing, working} \subseteq Sessions \cup {Nothing}
    BY WorkspaceAssumption DEF Init
  <1>5. {recent, settled, stale, foreign, torn, spoiled, bypassed} \subseteq BOOLEAN
    BY Zenon DEF Init
  <1>6. /\ req \in [Sessions -> Requests]
        /\ \A s \in Sessions : req[s].at = "idle"
    BY DEF Init, Idle, Steps, Requests
  <1>7. TypeOK
    BY <1>1, <1>2, <1>3, <1>4, <1>6, <1>5 DEF TypeOK
  <1>8. Shape
    BY <1>6 DEF Shape, At
  <1> QED BY <1>7, <1>8 DEF Typed

\* The parts of a document and of a tree.
LEMMA Parts ==
  /\ \A d \in Documents : d.rev \in 0..MaxRev /\ d.graph \in Graphs
  /\ \A t \in Trees : t.doc \in Documents /\ t.code \in Codes /\ t.map \in Maps
  /\ Graphs \subseteq Codes /\ Hand \in Codes
  /\ Codes \subseteq Maps /\ Nothing \in Maps
  BY DEF Documents, Trees, Codes, Maps

\* What is left of the type when an action leaves the files, Git and most of
\* the rest alone: the requests have to be looked at again.
LEMMA RequestStep ==
  ASSUME Typed, UNCHANGED <<files, git>>,
         req' \in [Sessions -> Requests],
         Shape',
         events' \in 0..MaxEvents,
         locks' \in [Processes -> Sessions \cup {Nothing}],
         {editing', working'} \subseteq Sessions \cup {Nothing},
         {settled', stale', foreign', torn', spoiled', bypassed'} \subseteq BOOLEAN
  PROVE  Typed'
  BY DEF Typed, TypeOK, files, git

\* Reads, saves and restores keep the types.
LEMMA VisualTyped ==
  ASSUME Typed, NEW s \in Sessions, Visual(s)
  PROVE  Typed'
  <1> USE DEF Typed
  <1>1. CASE Open(s)
    BY <1>1, Parts, RequestStep
    DEF Open, TypeOK, Shape, At, Read, Steps, Requests, mutex, past
  <1>2. CASE Restore(s)
    BY <1>2, Parts, RequestStep
    DEF Restore, TypeOK, Shape, At, Steps, Requests, mutex, past
  <1>3. CASE Conflict(s)
    BY <1>3, RequestStep
    DEF Conflict, Locked, TypeOK, Shape, At, Done, Idle, Steps, Requests, mutex, past
  <1>4. CASE Accept(s)
    <2>1. tree.doc \in Documents
      BY Parts DEF TypeOK
    <2>2. /\ hist' \in Seq(Documents) /\ Len(hist') <= HistoryMax
          /\ {recent', stale'} \subseteq BOOLEAN
      <3>1. CASE Snapshot(tree.doc)
        BY <2>1, <3>1, SnapshotType
      <3>2. CASE UNCHANGED <<hist, recent, stale>>
        BY <3>2 DEF TypeOK
      <3> QED BY <1>4, <3>1, <3>2 DEF Accept, EditSnapshot
    <2>3. PICK g \in Choice(s) : req' = [req EXCEPT ![s].graph = g, ![s].at = "locked"]
      BY <1>4 DEF Accept
    <2>4. g \in Graphs /\ req[s].view \in Documents /\ req[s].view.rev < MaxRev
      BY <1>4, <2>3 DEF Accept, Locked, Choice, At, Current, Shape
    <2>5. req' \in [Sessions -> Requests] /\ Shape'
      <3>1. req' \in [Sessions -> Requests]
        <4> DEFINE q == [req[s] EXCEPT !.graph = g, !.at = "locked"]
        <4>1. q \in Requests
          BY <2>4 DEF TypeOK, Steps, Requests
        <4>2. req' = [req EXCEPT ![s] = q]
          BY <2>3 DEF TypeOK
        <4> QED BY <4>1, <4>2 DEF TypeOK
      <3>2. /\ req'[s].at = "locked" /\ req'[s].view = req[s].view /\ req'[s].graph = g
            /\ \A t \in Sessions \ {s} : req'[t] = req[t]
        BY <2>3 DEF TypeOK, Requests
      <3>3. Shape'
        BY <2>4, <3>2 DEF Shape, At
      <3> QED BY <3>1, <3>3
    <2>6. locks' \in [Processes -> Sessions \cup {Nothing}]
      BY <1>4 DEF Accept, TypeOK
    <2> QED BY <1>4, <2>2, <2>5, <2>6 DEF Accept, TypeOK, git
  <1>5. CASE Save(s)
    <2> DEFINE d == [rev |-> req[s].view.rev + 1, graph |-> req[s].graph]
    <2>1. d \in Documents
      BY <1>5, Parts, WorkspaceAssumption DEF Save, Shape, At, Documents
    <2>2. tree' \in Trees
      BY <1>5, <2>1 DEF Save, TypeOK, Trees
    <2>3. req' = [req EXCEPT ![s] = [at |-> "open", view |-> d, graph |-> Nothing]]
      BY <1>5 DEF Save
    <2> HIDE DEF d
    <2>4. req' \in [Sessions -> Requests] /\ Shape'
      BY <2>1, <2>3 DEF TypeOK, Shape, At, Steps, Requests
    <2>5. locks' \in [Processes -> Sessions \cup {Nothing}]
      BY <1>5 DEF Save, TypeOK
    <2>6. {settled', bypassed'} \subseteq BOOLEAN
      BY <1>5 DEF Save, Bypass
    <2> QED BY <1>5, <2>2, <2>4, <2>5, <2>6 DEF Save, TypeOK, git
  <1> QED BY <1>1, <1>2, <1>3, <1>4, <1>5 DEF Visual

\* Checkpoints and generations keep the types.
LEMMA GenerationTyped ==
  ASSUME Typed, NEW s \in Sessions, Generation(s)
  PROVE  Typed'
  <1> USE DEF Typed
  <1>1. CASE Load(s)
    BY <1>1, Parts, RequestStep
    DEF Load, TypeOK, Shape, At, Read, Steps, Requests, mutex, past
  <1>2. CASE Checkpoint(s)
    <2>1. /\ hist' \in Seq(Documents) /\ Len(hist') <= HistoryMax
          /\ {recent', stale'} \subseteq BOOLEAN
      BY <1>2, SnapshotType DEF Checkpoint, Shape, At
    <2>2. req' \in [Sessions -> Requests] /\ Shape'
      BY <1>2 DEF Checkpoint, Done, Idle, TypeOK, Shape, At, Steps, Requests
    <2> QED BY <1>2, <2>1, <2>2 DEF Checkpoint, TypeOK, git, mutex
  <1>3. CASE Drift(s)
    BY <1>3, RequestStep
    DEF Drift, TypeOK, Shape, At, Done, Idle, Steps, Requests, mutex, past
  <1>4. CASE Check(s)
    <2>1. req[s].view \in Documents /\ tree.code \in Codes
      BY <1>4, Parts DEF Check, Shape, At, TypeOK
    <2>2. /\ hist' \in Seq(Documents) /\ Len(hist') <= HistoryMax
          /\ {recent', stale'} \subseteq BOOLEAN
      BY <1>4, <2>1, SnapshotType DEF Check
    <2>3. req' \in [Sessions -> Requests] /\ Shape'
      BY <1>4, <2>1, Parts DEF Check, TypeOK, Shape, At, Steps, Requests
    <2>4. torn' \in BOOLEAN
      BY <1>4 DEF Check
    <2> QED BY <1>4, <2>2, <2>3, <2>4 DEF Check, TypeOK, git, mutex
  <1>5. CASE WriteCode(s)
    <2>1. tree' \in Trees
      BY <1>5, Parts DEF WriteCode, TypeOK, Shape, At, Trees
    <2>2. req' \in [Sessions -> Requests] /\ Shape'
      BY <1>5 DEF WriteCode, Go, TypeOK, Shape, At, Steps, Requests
    <2>3. bypassed' \in BOOLEAN
      BY <1>5 DEF WriteCode, Bypass
    <2> QED BY <1>5, <2>1, <2>2, <2>3 DEF WriteCode, TypeOK, git, mutex
  <1>6. CASE WriteMap(s)
    <2>1. tree' \in Trees
      BY <1>6, Parts DEF WriteMap, TypeOK, Shape, At, Trees
    <2>2. req' \in [Sessions -> Requests] /\ Shape'
      BY <1>6 DEF WriteMap, Done, Idle, TypeOK, Shape, At, Steps, Requests
    <2> QED BY <1>6, <2>1, <2>2 DEF WriteMap, TypeOK, git, mutex, past
  <1> QED BY <1>1, <1>2, <1>3, <1>4, <1>5, <1>6 DEF Generation

\* The file editor keeps the types.
LEMMA EditorTyped ==
  ASSUME Typed, NEW s \in Sessions, Editor(s)
  PROVE  Typed'
  <1> USE DEF Typed
  <1>1. CASE View(s)
    <2>1. tree.doc \in Documents /\ tree.code \in Codes
      BY Parts DEF TypeOK
    <2> QED
      BY <1>1, <2>1, RequestStep, WorkspaceAssumption
      DEF View, Event, TypeOK, Shape, At, Read, Steps, Requests, mutex, past
  <1>2. CASE Outdated(s)
    BY <1>2, RequestStep
    DEF Outdated, TypeOK, Shape, At, Done, Idle, Steps, Requests, mutex, past
  <1>3. CASE Compare(s)
    BY <1>3, RequestStep DEF Compare, TypeOK, Shape, At, Go, Steps, Requests, files, git
  <1>5. CASE Overwrite(s)
    BY <1>5, RequestStep, WorkspaceAssumption
    DEF Overwrite, Event, TypeOK, Shape, At, Read, Steps, Requests, files, git
  <1>4. CASE Put(s)
    <2>1. tree' \in Trees
      <3>1. ASSUME NEW d \in Written(s), tree' = [tree EXCEPT !.doc = d]
            PROVE  tree' \in Trees
        BY <3>1 DEF Written, TypeOK, Trees
      <3>2. CASE tree' = [tree EXCEPT !.code = Hand]
        BY <3>2, Parts DEF TypeOK, Trees
      <3> QED BY <1>4, <3>1, <3>2 DEF Put
    <2>2. req' \in [Sessions -> Requests] /\ Shape'
      BY <1>4 DEF Put, Done, Idle, TypeOK, Shape, At, Steps, Requests
    <2>3. {foreign', settled', bypassed'} \subseteq BOOLEAN
      BY <1>4 DEF Put, TypeOK
    <2>4. editing' \in Sessions \cup {Nothing}
      BY <1>4 DEF Put
    <2> QED BY <1>4, <2>1, <2>2, <2>3, <2>4 DEF Put, TypeOK, git
  <1> QED BY <1>1, <1>2, <1>3, <1>4, <1>5 DEF Editor

\* Git operations keep the types.
LEMMA RepositoryTyped ==
  ASSUME Typed, NEW s \in Sessions, Repository(s)
  PROVE  Typed'
  <1> USE DEF Typed
  <1>1. CASE Lock(s)
    BY <1>1, Parts, RequestStep, WorkspaceAssumption
    DEF Lock, Event, TypeOK, Shape, At, Read, Steps, Requests, files, git, past
  <1>2. CASE Keep(s)
    <2>1. /\ hist' \in Seq(Documents) /\ Len(hist') <= HistoryMax
          /\ {recent', stale'} \subseteq BOOLEAN
      BY <1>2, SnapshotType DEF Keep, Shape, At
    <2>2. req' \in [Sessions -> Requests] /\ Shape'
      BY <1>2 DEF Keep, Go, TypeOK, Shape, At, Steps, Requests
    <2> QED BY <1>2, <2>1, <2>2 DEF Keep, TypeOK, git, mutex
  <1>3. ASSUME Unlock(s) PROVE req' \in [Sessions -> Requests] /\ Shape'
    BY <1>3 DEF Unlock, Done, Idle, TypeOK, Shape, At, Steps, Requests
  <1>4. ASSUME Unlock(s)
        PROVE  working' \in Sessions \cup {Nothing} /\
               UNCHANGED <<hist, recent, locks, editing, stale, events>>
    BY <1>4 DEF Unlock
  <1>5. CASE Commit(s)
    BY <1>3, <1>4, <1>5 DEF Commit, TypeOK
  <1>6. CASE Switch(s)
    <2>1. PICK b \in Branches \ {branch} :
            /\ tree' = [f \in DOMAIN tree |-> IF Clean(f) THEN heads[b][f] ELSE tree[f]]
            /\ branch' = b
      BY <1>6 DEF Switch
    <2>2. tree' \in Trees
      BY <2>1 DEF TypeOK, Trees
    <2>3. {foreign', settled', torn', bypassed'} \subseteq BOOLEAN
      BY <1>6 DEF Switch, TypeOK
    <2> QED BY <1>3, <1>4, <1>6, <2>1, <2>2, <2>3 DEF Switch, TypeOK
  <1>7. CASE Refuse(s)
    BY <1>3, <1>4, <1>7 DEF Refuse, TypeOK
  <1> QED BY <1>1, <1>2, <1>5, <1>6, <1>7 DEF Repository

\* Every step keeps the types.
LEMMA StepTyped == Typed /\ [Next]_vars => Typed'
  <1> SUFFICES ASSUME Typed, [Next]_vars PROVE Typed'
    OBVIOUS
  <1> USE DEF Typed
  <1>1. CASE Age
    BY <1>1 DEF Age, TypeOK, Shape, At, git, mutex
  <1>2. CASE HandEdit
    <2>1. tree' \in Trees
      BY <1>2, Parts DEF HandEdit, TypeOK, Trees
    <2>2. events' \in 0..MaxEvents
      BY <1>2, WorkspaceAssumption DEF HandEdit, Event, TypeOK
    <2>3. bypassed' \in BOOLEAN
      BY <1>2 DEF HandEdit, Bypass
    <2> QED BY <1>2, <2>1, <2>2, <2>3 DEF HandEdit, TypeOK, Shape, At, git, mutex
  <1>3. ASSUME NEW s \in Sessions,
               Visual(s) \/ Generation(s) \/ Editor(s) \/ Repository(s)
        PROVE  Typed'
    BY <1>3, VisualTyped, GenerationTyped, EditorTyped, RepositoryTyped
  <1>4. ASSUME NEW s \in Sessions, Close(s)
        PROVE  Typed'
    BY <1>4, RequestStep
    DEF Close, TypeOK, Shape, At, Done, Idle, Steps, Requests, mutex, past
  <1>5. ASSUME NEW p \in Processes, Crash(p)
        PROVE  Typed'
    <2> DEFINE here == {s \in Sessions :
                          Host[s] = p /\ req[s].at \notin {"idle", "open", "reading"}}
    <2>1. req' = [s \in Sessions |-> IF s \in here THEN Idle ELSE req[s]]
      BY <1>5 DEF Crash
    <2>2. req' \in [Sessions -> Requests] /\ Shape'
      BY <2>1 DEF TypeOK, Shape, At, Idle, Steps, Requests
    <2>3. events' \in 0..MaxEvents
      BY <1>5, WorkspaceAssumption DEF Crash, Event, TypeOK
    <2>4. /\ locks' \in [Processes -> Sessions \cup {Nothing}]
          /\ {editing', working'} \subseteq Sessions \cup {Nothing}
      BY <1>5 DEF Crash, TypeOK
    <2>5. {torn', bypassed'} \subseteq BOOLEAN
      BY <1>5 DEF Crash
    <2> QED BY <1>5, <2>2, <2>3, <2>4, <2>5, RequestStep DEF Crash, TypeOK
  <1>6. CASE UNCHANGED vars
    BY <1>6 DEF vars, files, git, mutex, past, TypeOK, Shape, At
  <1>7. CASE Spoil
    <2>1. tree' \in Trees
      BY <1>7, Parts DEF Spoil, TypeOK, Trees
    <2>2. events' \in 0..MaxEvents
      BY <1>7, WorkspaceAssumption DEF Spoil, Event, TypeOK
    <2> QED BY <1>7, <2>1, <2>2 DEF Spoil, TypeOK, Shape, At, git, mutex
  <1> QED BY <1>1, <1>2, <1>3, <1>4, <1>5, <1>6, <1>7 DEF Next

\* The files, the repository, the locks and the requests keep their types,
\* and the history its bound, whatever the sessions and processes do.
THEOREM TypeCorrect == Spec => []TypeOK
  <1>1. Typed => TypeOK
    BY DEF Typed
  <1> QED BY <1>1, InitTyped, StepTyped, PTL DEF Spec

-----------------------------------------------------------------------------
(* What one step does to the requests.                                     *)

\* s is in the part of a generation or an edit that must not be disturbed.
Busy(s) == req[s].at \in {"coding", "mapping", "putting"}

\* Nothing but the check, the write of the code, the comparison of ETags and
\* an edit without one makes a session busy.
LEMMA OthersStay ==
  ASSUME Typed, NEW s \in Sessions, NEW t \in Sessions,
         \/ Visual(t) \/ Load(t) \/ Checkpoint(t) \/ Drift(t) \/ WriteMap(t)
         \/ View(t) \/ Outdated(t) \/ Put(t) \/ Repository(t) \/ Close(t)
  PROVE  Busy(s)' => req'[s] = req[s]
  <1>1. req \in [Sessions -> Requests] /\ req[s] \in Requests
    BY DEF Typed, TypeOK
  <1>2. CASE t # s
    BY <1>1, <1>2
    DEF Visual, Open, Restore, Conflict, Accept, Save, Load, Checkpoint, Drift, WriteMap,
        View, Outdated, Put, Repository, Lock, Keep, Commit, Switch, Refuse, Unlock,
        Close, Go, Read, Done
  <1>3. CASE Load(s) \/ Checkpoint(s) \/ Drift(s) \/ WriteMap(s)
    BY <1>1, <1>3 DEF Load, Checkpoint, Drift, WriteMap, Read, Done, Idle, Requests, Busy
  <1>4. CASE Visual(s)
    <2>1. CASE Accept(s)
      BY <1>1, <2>1 DEF Accept, Requests, Busy
    <2>2. CASE Save(s)
      BY <1>1, <2>2 DEF Save, Busy
    <2>3. CASE Open(s) \/ Restore(s) \/ Conflict(s)
      BY <1>1, <2>3 DEF Open, Restore, Conflict, Read, Done, Idle, Requests, Busy
    <2> QED BY <1>4, <2>1, <2>2, <2>3 DEF Visual
  <1>5. CASE View(s) \/ Outdated(s) \/ Put(s)
    BY <1>1, <1>5 DEF View, Outdated, Put, Read, Done, Idle, Requests, Busy
  <1>6. CASE Repository(s) \/ Close(s)
    BY <1>1, <1>6
    DEF Repository, Lock, Keep, Commit, Switch, Refuse, Unlock, Close, Go, Read, Done,
        Idle, Requests, Busy
  <1> QED BY <1>2, <1>3, <1>4, <1>5, <1>6

\* These four do, each for its own session.
LEMMA TheseGo ==
  ASSUME Typed, NEW t \in Sessions
  PROVE  /\ Check(t) \/ WriteCode(t) \/ Compare(t) \/ Overwrite(t) =>
              \A s \in Sessions \ {t} : req'[s] = req[s]
         /\ Check(t) => At(t, "coding")'
         /\ WriteCode(t) => At(t, "mapping")' /\ req'[t].graph = req[t].graph
         /\ Compare(t) => At(t, "putting")' /\ req'[t].view = req[t].view
         /\ Overwrite(t) => At(t, "putting")' /\ req'[t].view = Nothing
  <1>1. req \in [Sessions -> Requests] /\ req[t] \in Requests
    BY DEF Typed, TypeOK
  <1>2. Check(t) =>
          /\ At(t, "coding")'
          /\ \A s \in Sessions \ {t} : req'[s] = req[s]
    BY <1>1 DEF Check, At
  <1>3. WriteCode(t) =>
          /\ At(t, "mapping")' /\ req'[t].graph = req[t].graph
          /\ \A s \in Sessions \ {t} : req'[s] = req[s]
    BY <1>1 DEF WriteCode, Go, At, Requests
  <1>4. Compare(t) =>
          /\ At(t, "putting")' /\ req'[t].view = req[t].view
          /\ \A s \in Sessions \ {t} : req'[s] = req[s]
    BY <1>1 DEF Compare, Go, At, Requests
  <1>5. Overwrite(t) =>
          /\ At(t, "putting")' /\ req'[t].view = Nothing
          /\ \A s \in Sessions \ {t} : req'[s] = req[s]
    BY <1>1 DEF Overwrite, Read, At, Requests
  <1> QED BY <1>2, <1>3, <1>4, <1>5

\* A crash only takes sessions away.
LEMMA CrashTakes ==
  ASSUME Typed, NEW s \in Sessions, NEW p \in Processes, Crash(p)
  PROVE  /\ req'[s] = req[s] \/ req'[s] = Idle
         /\ At(s, "mapping") => At(s, "mapping")' \/ torn'
  BY DEF Crash, Idle, At, Typed, TypeOK

\* A session comes between the check and the source map, or past the
\* comparison of ETags, in one way; it stays as it was in the steps of others.
LEMMA Moves ==
  ASSUME Typed, [Next]_vars, NEW s \in Sessions
  PROVE  /\ At(s, "coding")' => req'[s] = req[s] \/ Check(s)
         /\ At(s, "mapping")' => req'[s] = req[s] \/ WriteCode(s)
         /\ At(s, "putting")' => req'[s] = req[s] \/ Compare(s) \/ Overwrite(s)
  <1>1. CASE Age \/ HandEdit \/ Spoil \/ UNCHANGED vars
    BY <1>1 DEF Age, HandEdit, Spoil, vars
  <1>2. ASSUME NEW t \in Sessions,
               \/ Visual(t) \/ Load(t) \/ Checkpoint(t) \/ Drift(t) \/ WriteMap(t)
               \/ View(t) \/ Outdated(t) \/ Put(t) \/ Repository(t) \/ Close(t)
        PROVE  Busy(s)' => req'[s] = req[s]
    BY <1>2, OthersStay
  <1>3. ASSUME NEW t \in Sessions, t # s,
               Check(t) \/ WriteCode(t) \/ Compare(t) \/ Overwrite(t)
        PROVE  req'[s] = req[s]
    BY <1>3, TheseGo DEF Typed, TypeOK
  <1>4. CASE Check(s) \/ WriteCode(s) \/ Compare(s) \/ Overwrite(s)
    BY <1>4, TheseGo DEF At
  <1>5. ASSUME NEW p \in Processes, Crash(p)
        PROVE  Busy(s)' => req'[s] = req[s]
    BY <1>5, CrashTakes DEF Busy, Idle
  <1>6. ASSUME NEW t \in Sessions,
               Visual(t) \/ Generation(t) \/ Editor(t) \/ Repository(t) \/ Close(t)
        PROVE  \/ Busy(s)' => req'[s] = req[s]
               \/ Check(s) \/ WriteCode(s) \/ Compare(s) \/ Overwrite(s)
    BY <1>2, <1>3, <1>6 DEF Generation, Editor
  <1> QED BY <1>1, <1>4, <1>5, <1>6 DEF Next, Busy, At

-----------------------------------------------------------------------------
(* Hand-made code.                                                         *)

\* Once the source map was missing or written by somebody, it counts as such.
LEMMA StaysSpoiled == [Next]_vars /\ spoiled => spoiled'
  <1> SUFFICES ASSUME [Next]_vars, spoiled PROVE spoiled'
    OBVIOUS
  <1>1. CASE Age \/ HandEdit \/ Spoil \/ UNCHANGED vars
    BY <1>1 DEF Age, HandEdit, Spoil, vars, past
  <1>2. ASSUME NEW s \in Sessions, Visual(s) \/ Close(s) PROVE spoiled'
    BY <1>2 DEF Visual, Open, Restore, Conflict, Accept, Save, Close, past
  <1>3. ASSUME NEW s \in Sessions, Generation(s) PROVE spoiled'
    BY <1>3
    DEF Generation, Load, Checkpoint, Drift, Check, WriteCode, WriteMap, past
  <1>4. ASSUME NEW s \in Sessions, Editor(s) PROVE spoiled'
    BY <1>4 DEF Editor, View, Outdated, Compare, Overwrite, Put, past
  <1>5. ASSUME NEW s \in Sessions, Repository(s) PROVE spoiled'
    BY <1>5 DEF Repository, Lock, Keep, Commit, Switch, Refuse, past
  <1>6. ASSUME NEW p \in Processes, Crash(p) PROVE spoiled'
    BY <1>6 DEF Crash
  <1> QED BY <1>1, <1>2, <1>3, <1>4, <1>5, <1>6 DEF Next

\* Generations write maps of graphs, and Git moves such maps.
LEMMA StepMapped == Typed /\ Mapped /\ [Next]_vars => Mapped'
  <1> SUFFICES ASSUME Typed, Mapped, [Next]_vars, ~spoiled'
               PROVE  tree'.map \in Graphs /\ \A b \in Branches : heads'[b].map \in Graphs
    BY DEF Mapped
  <1>1. /\ tree \in Trees /\ heads \in [Branches -> Trees]
        /\ tree.map \in Graphs /\ \A b \in Branches : heads[b].map \in Graphs
    BY StaysSpoiled DEF Mapped, Typed, TypeOK
  <1>2. CASE Age \/ HandEdit \/ Spoil \/ UNCHANGED vars
    BY <1>1, <1>2 DEF Age, HandEdit, Spoil, vars, files, git, Trees
  <1>3. ASSUME NEW s \in Sessions, Visual(s) \/ Close(s)
        PROVE  tree'.map = tree.map /\ heads' = heads
    BY <1>1, <1>3
    DEF Visual, Open, Restore, Conflict, Accept, Save, Close, files, git, Trees
  <1>4. ASSUME NEW s \in Sessions, Generation(s)
        PROVE  tree'.map \in Graphs /\ heads' = heads
    <2>1. CASE WriteMap(s)
      BY <1>1, <2>1 DEF WriteMap, git, Trees, Typed, Shape, At
    <2>2. CASE WriteCode(s)
      BY <1>1, <2>2 DEF WriteCode, git, Trees
    <2>3. CASE Load(s) \/ Checkpoint(s) \/ Drift(s) \/ Check(s)
      BY <1>1, <2>3 DEF Load, Checkpoint, Drift, Check, files, git
    <2> QED BY <1>4, <2>1, <2>2, <2>3 DEF Generation
  <1>5. ASSUME NEW s \in Sessions, Editor(s)
        PROVE  tree'.map = tree.map /\ heads' = heads
    <2>1. CASE Put(s)
      BY <1>1, <2>1 DEF Put, git, Trees
    <2>2. CASE View(s) \/ Outdated(s) \/ Compare(s) \/ Overwrite(s)
      BY <2>2 DEF View, Outdated, Compare, Overwrite, files, git
    <2> QED BY <1>5, <2>1, <2>2 DEF Editor
  <1>6. ASSUME NEW s \in Sessions, Repository(s)
        PROVE  tree'.map \in Graphs /\ \A b \in Branches : heads'[b].map \in Graphs
    <2>1. CASE Lock(s) \/ Keep(s) \/ Refuse(s)
      BY <1>1, <2>1 DEF Lock, Keep, Refuse, files, git
    <2>2. CASE Commit(s)
      BY <1>1, <2>2 DEF Commit
    <2>3. CASE Switch(s)
      BY <1>1, <2>3 DEF Switch, Trees
    <2> QED BY <1>6, <2>1, <2>2, <2>3 DEF Repository
  <1>7. ASSUME NEW p \in Processes, Crash(p)
        PROVE  tree' = tree /\ heads' = heads
    BY <1>7 DEF Crash, files, git
  <1> QED BY <1>1, <1>2, <1>3, <1>4, <1>5, <1>6, <1>7 DEF Next

\* The look is at a file equal to its source map, which is of a graph, or there
\* is no map.
LEMMA StepLookedAt == Typed /\ Mapped /\ LookedAt /\ [Next]_vars => LookedAt'
  <1> SUFFICES ASSUME Typed, Mapped, LookedAt, [Next]_vars,
                      NEW s \in Sessions, At(s, "coding")'
               PROVE  req'[s].view \in Graphs \/ (req'[s].view = Nothing /\ spoiled')
    BY DEF LookedAt
  <1>1. CASE req'[s] = req[s]
    BY <1>1, StaysSpoiled DEF LookedAt, At
  <1>2. CASE Check(s)
    <2>1. tree.map = Nothing => spoiled
      BY WorkspaceAssumption DEF Mapped
    <2>2. tree.map # Nothing => tree.code \in Graphs
      BY <1>2 DEF Check, Owned
    <2>3. req'[s].view = IF tree.map = Nothing THEN Nothing ELSE tree.code
      BY <1>2 DEF Check, Typed, TypeOK
    <2> QED BY <2>1, <2>2, <2>3, StaysSpoiled
  <1> QED BY <1>1, <1>2, Moves

\* A generation writes over code made by hand before it looked only where it
\* found no hash of it, and it finds one as long as nobody takes the source map
\* away: in any number of processes, with crashes in between, generations and
\* changes of branch never leave generated.py without one.
THEOREM HandEditsSurvive == Spec => HandEditsKept
  <1>1. Init => Typed /\ Mapped /\ LookedAt
    <2> SUFFICES ASSUME Init PROVE Mapped /\ LookedAt
      BY InitTyped
    <2>1. Mapped
      BY DEF Init, Generated, Mapped
    <2>2. LookedAt
      BY DEF Init, LookedAt, Idle, At
    <2> QED BY <2>1, <2>2
  <1>2. Typed /\ Mapped /\ LookedAt /\ [Next]_vars => (Typed /\ Mapped /\ LookedAt)'
    BY StepTyped, StepMapped, StepLookedAt
  <1>3. Typed /\ LookedAt =>
          \A s \in Sessions :
            Step(s, "coding", "mapping") /\ tree.code = Hand =>
              req[s].view \in Graphs \/ (req[s].view = Nothing /\ spoiled)
    BY DEF LookedAt, Step
  <1> QED BY <1>1, <1>2, <1>3, PTL DEF Spec, HandEditsKept

-----------------------------------------------------------------------------
(* The editor.                                                             *)

\* Whoever is past the comparison keeps the lock, and a write that is not its
\* own is noted.
LEMMA StepPuts == Typed /\ Puts /\ [Next]_vars => Puts'
  <1> SUFFICES ASSUME Typed, Puts, [Next]_vars,
                      NEW s \in Sessions, At(s, "putting")'
               PROVE  editing' = s /\ Seen(s)'
    BY DEF Puts
  <1>1. CASE Compare(s)
    BY <1>1 DEF Compare, Seen, Unedited, FileOf, files, Go, Typed, TypeOK
  <1>3. CASE Overwrite(s)
    BY <1>3, TheseGo DEF Overwrite, Seen
  <1>2. CASE req'[s] = req[s]
    <2>1. At(s, "putting") /\ editing = s /\ Seen(s)
      BY <1>2 DEF Puts, At
    <2>2. editing # Nothing
      BY <2>1, WorkspaceAssumption
    <2>3. tree \in Trees
      BY DEF Typed, TypeOK
    <2>4. ASSUME editing' = editing, bypassed' = bypassed,
                 tree'.doc = tree.doc, tree'.code = tree.code
          PROVE  editing' = s /\ Seen(s)'
      BY <1>2, <2>1, <2>4 DEF Seen, Unedited, FileOf
    <2>5. ASSUME editing' = editing, NEW isDoc \in BOOLEAN, Bypass(isDoc),
                 isDoc => tree'.code = tree.code,
                 ~isDoc => tree'.doc = tree.doc
          PROVE  editing' = s /\ Seen(s)'
      <3>1. CASE req[s].view \in Documents <=> isDoc
        BY <2>1, <2>5, <3>1 DEF Bypass, Seen
      <3>2. CASE ~(req[s].view \in Documents <=> isDoc)
        <4>1. bypassed => bypassed'
          BY <2>5 DEF Bypass
        <4>2. Unedited(s) => Unedited(s)'
          BY <1>2, <2>5, <3>2 DEF Unedited, FileOf
        <4> QED BY <1>2, <2>1, <2>5, <4>1, <4>2 DEF Seen
      <3> QED BY <3>1, <3>2
    <2>6. CASE Age \/ UNCHANGED vars
      BY <2>4, <2>6 DEF Age, vars, files, mutex, past
    <2>7. CASE HandEdit
      BY <2>3, <2>5, <2>7 DEF HandEdit, mutex, Trees
    <2>14. CASE Spoil
      BY <2>3, <2>4, <2>14 DEF Spoil, mutex, Trees
    <2>8. ASSUME NEW t \in Sessions, Visual(t)
          PROVE  editing' = s /\ Seen(s)'
      <3>1. CASE Open(t) \/ Restore(t) \/ Conflict(t) \/ Accept(t)
        BY <2>4, <3>1 DEF Open, Restore, Conflict, Accept, files, mutex, past
      <3>2. CASE Save(t)
        BY <2>3, <2>5, <3>2 DEF Save, Trees
      <3> QED BY <2>8, <3>1, <3>2 DEF Visual
    <2>9. ASSUME NEW t \in Sessions, Generation(t)
          PROVE  editing' = s /\ Seen(s)'
      <3>1. CASE Load(t) \/ Checkpoint(t) \/ Drift(t) \/ Check(t)
        BY <2>4, <3>1 DEF Load, Checkpoint, Drift, Check, files, mutex, past
      <3>2. CASE WriteMap(t)
        BY <2>3, <2>4, <3>2 DEF WriteMap, mutex, past, Trees
      <3>3. CASE WriteCode(t)
        BY <2>3, <2>5, <3>3 DEF WriteCode, mutex, Trees
      <3> QED BY <2>9, <3>1, <3>2, <3>3 DEF Generation
    <2>10. ASSUME NEW t \in Sessions, Editor(t)
           PROVE  editing' = s /\ Seen(s)'
      <3>1. CASE View(t) \/ Outdated(t)
        BY <2>4, <3>1 DEF View, Outdated, files, mutex, past
      <3>2. ~Compare(t) /\ ~Overwrite(t)
        BY <2>2 DEF Compare, Overwrite
      <3>3. ~Put(t)
        <4>1. Put(t) => t = s
          BY <2>1 DEF Put, Puts
        <4>2. Put(t) => req'[t].at = "idle"
          BY DEF Put, Done, Idle, Typed, TypeOK
        <4> QED BY <1>2, <2>1, <4>1, <4>2 DEF At
      <3> QED BY <2>10, <3>1, <3>2, <3>3 DEF Editor
    <2>11. ASSUME NEW t \in Sessions, Repository(t)
           PROVE  editing' = s /\ Seen(s)'
      <3>1. CASE Lock(t) \/ Keep(t) \/ Commit(t) \/ Refuse(t)
        BY <2>4, <3>1 DEF Lock, Keep, Commit, Refuse, Unlock, files, mutex, past
      <3>2. CASE Switch(t)
        BY <2>1, <2>2, <3>2 DEF Switch, Unlock, Seen
      <3> QED BY <2>11, <3>1, <3>2 DEF Repository
    <2>12. ASSUME NEW t \in Sessions, Close(t)
           PROVE  editing' = s /\ Seen(s)'
      BY <2>4, <2>12 DEF Close, files, mutex, past
    <2>13. ASSUME NEW p \in Processes, Crash(p)
           PROVE  editing' = s /\ Seen(s)'
      <3> DEFINE here == {t \in Sessions :
                           Host[t] = p /\ req[t].at \notin {"idle", "open", "reading"}}
      <3>1. s \notin here
        BY <1>2, <2>1, <2>13 DEF Crash, At, Idle
      <3>2. editing \notin here
        BY <2>1, <3>1
      <3> QED BY <2>4, <2>13, <3>2 DEF Crash, files, Typed, TypeOK
    <2> QED BY <2>6, <2>7, <2>8, <2>9, <2>10, <2>11, <2>12, <2>13, <2>14 DEF Next
  <1> QED BY <1>1, <1>2, <1>3, Moves

\* An edit in the file editor that sends an ETag replaces text that its author
\* has not read only when a save, a generation, a change of branch or another
\* program wrote the file under it: no other edit does, with an ETag or without.
THEOREM EditorsAgree == Spec => EditorsSeeEachOther
  <1>1. Init => Typed /\ Puts
    BY InitTyped DEF Init, Puts, Idle, At
  <1>2. Typed /\ Puts /\ [Next]_vars => (Typed /\ Puts)'
    BY StepTyped, StepPuts
  <1>3. Typed /\ Puts =>
          \A s \in Sessions :
            At(s, "putting") /\ req'[s].at = "idle" /\ tree' # tree =>
              req[s].view = Nothing \/ Unedited(s) \/ bypassed
    BY DEF Puts, Seen
  <1> QED BY <1>1, <1>2, <1>3, PTL DEF Spec, EditorsSeeEachOther

-----------------------------------------------------------------------------
(* Generated code and its source map.                                      *)

\* A step that leaves code, map and repository alone and brings nobody
\* between check and source map.
LEMMA QuietPairs ==
  ASSUME Typed, Pairs, torn' \/ ~torn, spoiled' \/ ~spoiled,
         UNCHANGED git, tree'.code = tree.code, tree'.map = tree.map,
         \A s \in Sessions : Writing(s)' => req'[s] = req[s],
         \A s \in Sessions : At(s, "mapping") => At(s, "mapping")' \/ torn'
  PROVE  Pairs'
  BY DEF Pairs, Paired, Writing, At, git

\* A step that puts code made by hand in the place of generated.py.
LEMMA HandPairs ==
  ASSUME Typed, Pairs, torn' = torn, spoiled' \/ ~spoiled,
         UNCHANGED git, tree' = [tree EXCEPT !.code = Hand],
         \A s \in Sessions : Writing(s)' => req'[s] = req[s]
  PROVE  Pairs'
  <1>1. tree'.code = Hand /\ tree'.map = tree.map
    BY DEF Typed, TypeOK, Trees
  <1> QED BY <1>1 DEF Pairs, Paired, Writing, At, git

\* A change of branch by single files puts no foreign map beside code.
LEMMA SwitchPairs ==
  ASSUME Typed, Pairs, NEW s \in Sessions, Switch(s)
  PROVE  Pairs'
  <1> SUFFICES ASSUME ~torn, ~Generating, ~torn', ~spoiled
               PROVE  Pairs'
    BY DEF Switch, Pairs
  <1>1. PICK b \in Branches \ {branch} :
          /\ \A f \in DOMAIN tree : Clean(f) \/ heads[b][f] = heads[branch][f]
          /\ tree' = [f \in DOMAIN tree |-> IF Clean(f) THEN heads[b][f] ELSE tree[f]]
          /\ branch' = b
    BY DEF Switch
  <1>2. DOMAIN tree = {"doc", "code", "map"}
    BY DEF Typed, TypeOK, Trees
  <1>3. /\ tree.code = heads[branch].code \/ heads[b].code = heads[branch].code
        /\ tree.map = heads[branch].map \/ heads[b].map = heads[branch].map
        /\ tree'.code =
             IF tree.code = heads[branch].code THEN heads[b].code ELSE tree.code
        /\ tree'.map = IF tree.map = heads[branch].map THEN heads[b].map ELSE tree.map
    BY <1>1, <1>2 DEF Clean
  <1>4. \A t \in Sessions : ~Writing(t)
    BY DEF Generating, Writing
  <1>5. Paired(tree) /\ Paired(heads[b]) /\ Paired(heads[branch])
    BY <1>4 DEF Pairs, Writing, Typed, TypeOK
  <1>6. heads[branch].code = Hand => tree.code = Hand /\ tree.map = heads[branch].map
    BY DEF Pairs
  <1>7. Paired(tree')
    BY <1>3, <1>5, <1>6 DEF Paired
  <1>8. heads[b].code = Hand => tree'.code = Hand /\ tree'.map = heads[b].map
    BY <1>3, <1>5, <1>6 DEF Paired
  <1>9. \A t \in Sessions : ~Writing(t)'
    BY <1>4 DEF Switch, Unlock, Done, Idle, Writing, At, Typed, TypeOK
  <1>10. heads' = heads
    BY DEF Switch
  <1> QED BY <1>1, <1>7, <1>8, <1>9, <1>10 DEF Pairs, Writing

\* Every step keeps the pairs: one case per action.
LEMMA StepPairs == Typed /\ Mapped /\ Pairs /\ [Next]_vars => Pairs'
  <1> SUFFICES ASSUME Typed, Mapped, Pairs, [Next]_vars PROVE Pairs'
    OBVIOUS
  <1>0. spoiled' \/ ~spoiled
    BY StaysSpoiled
  <1>1. req \in [Sessions -> Requests] /\ tree \in Trees
    BY DEF Typed, TypeOK
  <1>2. ASSUME NEW t \in Sessions,
               \/ Visual(t) \/ Load(t) \/ Checkpoint(t) \/ Drift(t) \/ WriteMap(t)
               \/ View(t) \/ Outdated(t) \/ Put(t) \/ Repository(t) \/ Close(t)
        PROVE  \A s \in Sessions : Writing(s)' => req'[s] = req[s]
    BY <1>2, OthersStay DEF Busy, Writing, At
  <1>3. ASSUME NEW t \in Sessions, ~At(t, "mapping"),
               \A s \in Sessions \ {t} : req'[s] = req[s]
        PROVE  \A s \in Sessions : At(s, "mapping") => At(s, "mapping")'
    BY <1>3 DEF At
  <1>4. CASE Age \/ UNCHANGED vars
    BY <1>4, QuietPairs, <1>0 DEF Age, vars, files, git, mutex, past, Writing, At
  <1>18. CASE Spoil
    BY <1>18 DEF Spoil, Pairs
  <1>5. CASE HandEdit
    BY <1>5, HandPairs, <1>0 DEF HandEdit, Writing, At
  <1>6. ASSUME NEW t \in Sessions, Visual(t)
        PROVE  Pairs'
    <2>1. ~At(t, "mapping") /\ \A s \in Sessions \ {t} : req'[s] = req[s]
      BY <1>1, <1>6
      DEF Visual, Open, Restore, Conflict, Locked, Accept, Save, At, Read, Done
    <2>2. UNCHANGED git /\ torn' = torn
      BY <1>6 DEF Visual, Open, Restore, Conflict, Accept, Save, past
    <2>3. tree'.code = tree.code /\ tree'.map = tree.map
      <3>1. CASE Open(t) \/ Restore(t) \/ Conflict(t) \/ Accept(t)
        BY <3>1 DEF Open, Restore, Conflict, Accept, files
      <3>2. CASE Save(t)
        BY <1>1, <3>2 DEF Save, Trees
      <3> QED BY <1>6, <3>1, <3>2 DEF Visual
    <2> QED BY <1>2, <1>3, <1>6, <2>1, <2>2, <2>3, QuietPairs, <1>0
  <1>7. ASSUME NEW t \in Sessions, Load(t) \/ Checkpoint(t) \/ Drift(t)
        PROVE  Pairs'
    <2>1. ~At(t, "mapping") /\ \A s \in Sessions \ {t} : req'[s] = req[s]
      BY <1>1, <1>7 DEF Load, Checkpoint, Drift, At, Read, Done
    <2>2. UNCHANGED git /\ torn' = torn /\ tree' = tree
      BY <1>7 DEF Load, Checkpoint, Drift, files, past
    <2> QED BY <1>2, <1>3, <1>7, <2>1, <2>2, QuietPairs, <1>0
  <1>8. ASSUME NEW t \in Sessions, Check(t)
        PROVE  Pairs'
    <2> SUFFICES ASSUME ~torn, ~Generating, ~torn', ~spoiled
                 PROVE  Pairs'
      BY <1>8 DEF Check, Pairs
    <2>1. \A s \in Sessions : ~Writing(s)
      BY DEF Generating, Writing
    <2>2. /\ At(t, "coding")'
          /\ \A s \in Sessions \ {t} : ~Writing(s)'
      BY <1>1, <1>8, <2>1, TheseGo DEF Writing, At
    <2>3. tree.code # Hand
      BY <1>8, WorkspaceAssumption DEF Check, Owned, Mapped
    <2>4. tree' = tree /\ UNCHANGED git
      BY <1>8 DEF Check
    <2> QED BY <2>1, <2>2, <2>3, <2>4 DEF Pairs, Paired, Writing, At, git
  <1>9. ASSUME NEW t \in Sessions, WriteCode(t)
        PROVE  Pairs'
    <2>1. /\ At(t, "coding") /\ At(t, "mapping")' /\ req'[t].graph = req[t].graph
          /\ \A s \in Sessions \ {t} : req'[s] = req[s]
      BY <1>1, <1>9, TheseGo DEF WriteCode
    <2>2. /\ tree'.code = req[t].graph /\ tree'.map = tree.map
          /\ UNCHANGED git /\ torn' = torn /\ spoiled' = spoiled
      BY <1>1, <1>9 DEF WriteCode, Trees
    <2> QED BY <2>1, <2>2 DEF Pairs, Paired, Writing, At, git
  <1>10. ASSUME NEW t \in Sessions, WriteMap(t)
         PROVE  Pairs'
    <2>1. /\ At(t, "mapping")
          /\ tree'.map = req[t].graph /\ tree'.code = tree.code
          /\ UNCHANGED git /\ torn' = torn /\ spoiled' = spoiled
      BY <1>1, <1>10 DEF WriteMap, Trees, past
    <2>2. ~torn /\ ~spoiled => \A s \in Sessions : ~Writing(s)'
      <3>1. ~Writing(t)'
        BY <1>1, <1>10 DEF WriteMap, Done, Idle, Writing, At
      <3>2. ASSUME ~torn, ~spoiled, NEW s \in Sessions, s # t
            PROVE  ~Writing(s) /\ req'[s] = req[s]
        BY <1>1, <1>10, <2>1, <3>2 DEF Pairs, Writing, WriteMap, Done
      <3> QED BY <3>1, <3>2 DEF Writing, At
    <2> QED BY <2>1, <2>2 DEF Pairs, Paired, Writing, git
  <1>11. ASSUME NEW t \in Sessions, View(t) \/ Outdated(t) \/ Close(t)
         PROVE  Pairs'
    <2>1. ~At(t, "mapping") /\ \A s \in Sessions \ {t} : req'[s] = req[s]
      BY <1>1, <1>11 DEF View, Outdated, Close, At, Read, Done
    <2>2. UNCHANGED git /\ torn' = torn /\ tree' = tree
      BY <1>11 DEF View, Outdated, Close, files, past
    <2> QED BY <1>2, <1>3, <1>11, <2>1, <2>2, QuietPairs, <1>0
  <1>12. ASSUME NEW t \in Sessions, Compare(t) \/ Overwrite(t)
         PROVE  Pairs'
    <2>1. ~At(t, "mapping") /\ \A s \in Sessions \ {t} : req'[s] = req[s]
      BY <1>1, <1>12, TheseGo DEF Compare, Overwrite, At
    <2>2. UNCHANGED git /\ torn' = torn /\ tree' = tree
      BY <1>12 DEF Compare, Overwrite, files
    <2>3. \A s \in Sessions : Writing(s)' => req'[s] = req[s]
      BY <1>12, <2>1, TheseGo DEF Writing, At
    <2> QED BY <1>3, <2>1, <2>2, <2>3, QuietPairs, <1>0
  <1>13. ASSUME NEW t \in Sessions, Put(t)
         PROVE  Pairs'
    <2>1. ~At(t, "mapping") /\ \A s \in Sessions \ {t} : req'[s] = req[s]
      BY <1>1, <1>13 DEF Put, At, Done
    <2>2. UNCHANGED git /\ torn' = torn
      BY <1>13 DEF Put
    <2>3. CASE tree' = [tree EXCEPT !.code = Hand]
      BY <1>2, <1>13, <2>2, <2>3, HandPairs, <1>0
    <2>4. CASE tree'.code = tree.code /\ tree'.map = tree.map
      BY <1>2, <1>3, <1>13, <2>1, <2>2, <2>4, QuietPairs, <1>0
    <2> QED BY <1>1, <1>13, <2>3, <2>4 DEF Put, Trees
  <1>14. ASSUME NEW t \in Sessions, Lock(t) \/ Keep(t) \/ Refuse(t)
         PROVE  Pairs'
    <2>1. ~At(t, "mapping") /\ \A s \in Sessions \ {t} : req'[s] = req[s]
      BY <1>1, <1>14 DEF Lock, Keep, Refuse, Unlock, At, Go, Read, Done
    <2>2. UNCHANGED git /\ torn' = torn /\ tree' = tree
      BY <1>14 DEF Lock, Keep, Refuse, files, past, git
    <2>3. Repository(t)
      BY <1>14 DEF Repository
    <2> QED BY <1>2, <1>3, <2>1, <2>2, <2>3, QuietPairs, <1>0
  <1>15. ASSUME NEW t \in Sessions, Commit(t)
         PROVE  Pairs'
    <2> SUFFICES ASSUME ~torn, ~Generating, ~torn', ~spoiled
                 PROVE  Pairs'
      BY <1>15 DEF Commit, Pairs
    <2>1. \A s \in Sessions : ~Writing(s)
      BY DEF Generating, Writing
    <2>2. \A s \in Sessions : ~Writing(s)'
      BY <1>2, <1>15, <2>1 DEF Repository, Writing, At
    <2>3. Paired(tree)
      BY <2>1 DEF Pairs, Writing
    <2>4. tree' = tree /\ branch' = branch /\ heads' = [heads EXCEPT ![branch] = tree]
      BY <1>15 DEF Commit
    <2>5. /\ heads'[branch'] = tree
          /\ \A b \in Branches : Paired(heads'[b])
      BY <2>3, <2>4 DEF Pairs, Typed, TypeOK
    <2> QED BY <2>2, <2>3, <2>4, <2>5 DEF Pairs, Writing
  <1>16. ASSUME NEW p \in Processes, Crash(p)
         PROVE  Pairs'
    <2>1. UNCHANGED git /\ tree' = tree /\ (torn' \/ ~torn)
      BY <1>16 DEF Crash, files
    <2>2. \A s \in Sessions : Writing(s)' => req'[s] = req[s]
      BY <1>16, CrashTakes DEF Writing, At, Idle
    <2>3. \A s \in Sessions : At(s, "mapping") => At(s, "mapping")' \/ torn'
      BY <1>16, CrashTakes
    <2> QED BY <2>1, <2>2, <2>3, QuietPairs, <1>0
  <1>17. ASSUME NEW t \in Sessions, Switch(t)
         PROVE  Pairs'
    BY <1>17, SwitchPairs
  <1> QED
    BY <1>4, <1>5, <1>6, <1>7, <1>8, <1>9, <1>10, <1>11, <1>12, <1>13, <1>14, <1>15,
       <1>16, <1>17, <1>18
    DEF Next, Generation, Editor, Repository

\* Between generations generated.py is what its source map says or code made
\* by hand, through saves, edits, commits, changes of branch and crashes, as
\* long as no two generations met, none was cut short and nobody else wrote the
\* source map: the drift check refuses nothing but hand-made code.
THEOREM GeneratedPairs == Spec => []OwnedCodeMatches
  <1>1. Init => Typed /\ Mapped /\ Pairs
    <2> SUFFICES ASSUME Init PROVE Mapped /\ Pairs
      BY InitTyped
    <2>1. \A s \in Sessions : ~Writing(s)
      BY DEF Init, Idle, Writing, At
    <2>2. /\ tree.code = tree.map /\ tree.code \in Graphs /\ heads[branch] = tree
          /\ \A b \in Branches : heads[b].code = heads[b].map /\ heads[b].map \in Graphs
      BY DEF Init, Generated
    <2> QED BY <2>1, <2>2, WorkspaceAssumption DEF Mapped, Pairs, Paired, Writing
  <1>2. Typed /\ Mapped /\ Pairs /\ [Next]_vars => (Typed /\ Mapped /\ Pairs)'
    BY StepTyped, StepMapped, StepPairs
  <1>3. Typed /\ Pairs => OwnedCodeMatches
    BY DEF Pairs, Paired, OwnedCodeMatches
  <1> QED BY <1>1, <1>2, <1>3, PTL DEF Spec

-----------------------------------------------------------------------------
(* The history.                                                            *)

\* Since the document settled, the newest snapshot is of it, or older than
\* the debounce, or was stale when it was taken: time makes a document settled
\* only by making the newest snapshot old.
Newest ==
  recent /\ settled /\ ~stale => Len(hist) > 0 /\ hist[1] = tree.doc

\* The newest snapshot is the one just taken.
LEMMA SnapshotFirst ==
  ASSUME TypeOK, NEW d \in Documents, Snapshot(d)
  PROVE  Len(hist') > 0 /\ hist'[1] = d /\ stale' = (d # tree.doc)
  <1>1. /\ <<d>> \o hist \in Seq(Documents)
        /\ Len(<<d>> \o hist) = Len(hist) + 1
        /\ (<<d>> \o hist)[1] = d
    BY DEF TypeOK
  <1>2. Len(hist) \in Nat /\ HistoryMax \in Nat \ {0}
    BY WorkspaceAssumption DEF TypeOK
  <1>3. PICK n \in 1..(Len(hist) + 1) : hist' = SubSeq(<<d>> \o hist, 1, n)
    <2>1. CASE Len(hist) < HistoryMax
      BY <2>1, <1>2 DEF Snapshot
    <2>2. CASE ~(Len(hist) < HistoryMax)
      BY <2>2, <1>2 DEF Snapshot, TypeOK
    <2> QED BY <2>1, <2>2
  <1>4. Len(hist') = n /\ hist'[1] = d
    BY <1>1, <1>2, <1>3
  <1> QED BY <1>2, <1>3, <1>4 DEF Snapshot

\* Every step keeps the newest snapshot in line with the document.
LEMMA StepNewest == Typed /\ Newest /\ [Next]_vars => Newest'
  <1> SUFFICES ASSUME Typed, Newest, [Next]_vars PROVE Newest'
    OBVIOUS
  <1>1. tree \in Trees /\ tree.doc \in Documents
    BY Parts DEF Typed, TypeOK
  <1>2. ASSUME UNCHANGED <<hist, recent, settled, stale>>, tree'.doc = tree.doc
        PROVE  Newest'
    BY <1>2 DEF Newest
  <1>3. ASSUME NEW d \in Documents, Snapshot(d), tree' = tree
        PROVE  Newest'
    BY <1>3, SnapshotFirst DEF Typed, Newest
  <1>4. CASE Age \/ UNCHANGED vars
    BY <1>2, <1>4 DEF Age, Newest, vars, files, past
  <1>5. CASE HandEdit \/ Spoil
    BY <1>1, <1>2, <1>5 DEF HandEdit, Spoil, Trees
  <1>6. ASSUME NEW s \in Sessions, Visual(s)
        PROVE  Newest'
    <2>1. CASE Open(s) \/ Restore(s) \/ Conflict(s)
      BY <1>2, <2>1 DEF Open, Restore, Conflict, files, past
    <2>2. CASE Accept(s)
      <3>1. tree' = tree /\ settled' = settled
        BY <2>2 DEF Accept
      <3>2. Snapshot(tree.doc) \/ UNCHANGED <<hist, recent, stale>>
        BY <2>2 DEF Accept, EditSnapshot
      <3> QED BY <1>1, <1>2, <1>3, <3>1, <3>2
    <2>3. CASE Save(s)
      BY <2>3 DEF Save, Newest
    <2> QED BY <1>6, <2>1, <2>2, <2>3 DEF Visual
  <1>7. ASSUME NEW s \in Sessions, Generation(s)
        PROVE  Newest'
    <2>1. CASE Load(s) \/ Drift(s)
      BY <1>2, <2>1 DEF Load, Drift, files, past
    <2>2. CASE Checkpoint(s) \/ Check(s)
      BY <1>3, <2>2 DEF Checkpoint, Check, Typed, Shape, At
    <2>3. CASE WriteCode(s) \/ WriteMap(s)
      BY <1>1, <1>2, <2>3 DEF WriteCode, WriteMap, past, Trees
    <2> QED BY <1>7, <2>1, <2>2, <2>3 DEF Generation
  <1>8. ASSUME NEW s \in Sessions, Editor(s) \/ Close(s)
        PROVE  Newest'
    <2>1. CASE View(s) \/ Outdated(s) \/ Compare(s) \/ Overwrite(s) \/ Close(s)
      BY <1>2, <2>1 DEF View, Outdated, Compare, Overwrite, Close, files, past
    <2>2. CASE Put(s)
      <3>1. settled' = FALSE \/ UNCHANGED <<settled, tree.doc>>
        BY <1>1, <2>2 DEF Put, Trees
      <3> QED BY <1>2, <2>2, <3>1 DEF Put, Newest
    <2> QED BY <1>8, <2>1, <2>2 DEF Editor
  <1>9. ASSUME NEW s \in Sessions, Repository(s)
        PROVE  Newest'
    <2>1. CASE Lock(s) \/ Refuse(s) \/ Commit(s)
      BY <1>2, <2>1 DEF Lock, Refuse, Commit, Unlock, files, past
    <2>2. CASE Keep(s)
      BY <1>3, <2>2 DEF Keep, Typed, Shape, At
    <2>3. CASE Switch(s)
      <3>1. settled' => settled /\ tree'.doc = tree.doc
        BY <2>3 DEF Switch
      <3>2. UNCHANGED <<hist, recent, stale>>
        BY <2>3 DEF Switch, Unlock
      <3> QED BY <3>1, <3>2 DEF Newest
    <2> QED BY <1>9, <2>1, <2>2, <2>3 DEF Repository
  <1>10. ASSUME NEW p \in Processes, Crash(p)
         PROVE  Newest'
    BY <1>2, <1>10 DEF Crash, files
  <1> QED BY <1>4, <1>5, <1>6, <1>7, <1>8, <1>9, <1>10 DEF Next

\* A session comes to hold the store's lock by Accept and in no other way.
LEMMA OnlyAccept ==
  ASSUME Typed, [Next]_vars, NEW s \in Sessions, At(s, "locked")'
  PROVE  req'[s] = req[s] \/ Accept(s)
  <1>1. req \in [Sessions -> Requests] /\ req[s] \in Requests
    BY DEF Typed, TypeOK
  <1>2. CASE Age \/ HandEdit \/ Spoil \/ UNCHANGED vars
    BY <1>2 DEF Age, HandEdit, Spoil, vars
  <1>3. ASSUME NEW t \in Sessions,
               Check(t) \/ WriteCode(t) \/ Compare(t) \/ Overwrite(t)
        PROVE  req'[s] = req[s]
    BY <1>3, TheseGo DEF At
  <1>4. ASSUME NEW t \in Sessions, t # s,
               \/ Visual(t) \/ Load(t) \/ Checkpoint(t) \/ Drift(t) \/ WriteMap(t)
               \/ View(t) \/ Outdated(t) \/ Put(t) \/ Repository(t) \/ Close(t)
        PROVE  req'[s] = req[s]
    BY <1>1, <1>4
    DEF Visual, Open, Restore, Conflict, Accept, Save, Load, Checkpoint, Drift, WriteMap,
        View, Outdated, Put, Repository, Lock, Keep, Commit, Switch, Refuse, Unlock,
        Close, Go, Read, Done
  <1>5. ASSUME Open(s) \/ Restore(s) \/ Conflict(s) \/ Save(s)
        PROVE  FALSE
    <2>1. CASE Save(s)
      BY <1>1, <2>1 DEF Save, At
    <2>2. CASE Open(s) \/ Restore(s) \/ Conflict(s)
      BY <1>1, <2>2 DEF Open, Restore, Conflict, Read, Done, Idle, Requests, At
    <2> QED BY <1>5, <2>1, <2>2
  <1>6. ASSUME \/ Load(s) \/ Checkpoint(s) \/ Drift(s) \/ WriteMap(s)
               \/ View(s) \/ Outdated(s) \/ Put(s)
        PROVE  FALSE
    BY <1>1, <1>6
    DEF Load, Checkpoint, Drift, WriteMap, View, Outdated, Put, Read, Done, Idle,
        Requests, At
  <1>7. ASSUME Repository(s) \/ Close(s)
        PROVE  FALSE
    BY <1>1, <1>7
    DEF Repository, Lock, Keep, Commit, Switch, Refuse, Unlock, Close, Go, Read, Done,
        Idle, Requests, At
  <1>8. ASSUME NEW p \in Processes, Crash(p)
        PROVE  req'[s] = req[s]
    BY <1>8, CrashTakes DEF At, Idle
  <1>9. ASSUME NEW t \in Sessions,
               Visual(t) \/ Generation(t) \/ Editor(t) \/ Repository(t) \/ Close(t)
        PROVE  req'[s] = req[s] \/ Accept(s)
    BY <1>3, <1>4, <1>5, <1>6, <1>7, <1>9 DEF Visual, Generation, Editor
  <1> QED BY <1>2, <1>8, <1>9 DEF Next

\* The document a save or restore is about to replace is in the history if it
\* stood for longer than the debounce, whatever checkpoints, generations and
\* Git operations did meanwhile, in any number of processes and for any
\* retention count, unless the newest snapshot was stale when it was taken.
THEOREM SettledSurvives == Spec => SettledIsKept
  <1>1. Init => Typed /\ Newest
    BY InitTyped DEF Init, Newest
  <1>2. Typed /\ Newest /\ [Next]_vars => (Typed /\ Newest)'
    BY StepTyped, StepNewest
  <1>3. Typed /\ Newest /\ [Next]_vars =>
          \A s \in Sessions : ~At(s, "locked") /\ req'[s].at = "locked" /\ settled =>
            stale' \/ \E i \in 1..Len(hist') : hist'[i] = tree.doc
    <2> SUFFICES ASSUME Typed, Newest, [Next]_vars, NEW s \in Sessions,
                        ~At(s, "locked"), req'[s].at = "locked", settled
                 PROVE  stale' \/ \E i \in 1..Len(hist') : hist'[i] = tree.doc
      OBVIOUS
    <2>1. Accept(s)
      BY OnlyAccept DEF At
    <2>2. tree.doc \in Documents
      BY Parts DEF Typed, TypeOK
    <2>3. Len(hist') \in Nat
      BY StepTyped DEF Typed, TypeOK
    <2>4. CASE Snapshot(tree.doc)
      BY <2>2, <2>3, <2>4, SnapshotFirst DEF Typed
    <2>5. CASE UNCHANGED <<hist, recent, stale>> /\ recent
      BY <2>3, <2>5 DEF Newest
    <2> QED BY <2>1, <2>4, <2>5 DEF Accept, EditSnapshot
  <1>4. Typed /\ Newest /\ [Next]_vars =>
          [\A s \in Sessions : ~At(s, "locked") /\ req'[s].at = "locked" /\ settled =>
             stale' \/ \E i \in 1..Len(hist') : hist'[i] = tree.doc]_vars
    BY <1>3
  <1> QED BY <1>1, <1>2, <1>4, PTL DEF Spec, SettledIsKept

-----------------------------------------------------------------------------
(* Saves of one process.                                                   *)

\* The server alone, or one command alone.
OneProcess == \A p, q \in Processes : p = q

\* s has read the document for a visual edit.
Visiting(s) == req[s].at \in {"open", "saving", "locked"}

\* Whoever is in save_pipeline holds the lock of its process. While only saves
\* have written the document, the revision tells its versions apart, and the
\* one that is being replaced is the one its author read.
Base ==
  /\ \A s \in Sessions : At(s, "locked") => locks[Host[s]] = s
  /\ ~foreign =>
       \A s \in Sessions :
         /\ Visiting(s) => req[s].view = tree.doc \/ req[s].view.rev < tree.doc.rev
         /\ At(s, "locked") => req[s].view = tree.doc

\* A step that leaves document, locks and visual edits as they are, or ends
\* some of these.
LEMMA QuietBase ==
  ASSUME Base, tree'.doc = tree.doc \/ foreign', foreign => foreign',
         \A s \in Sessions : Visiting(s)' => req'[s] = req[s],
         \A s \in Sessions : At(s, "locked")' => locks'[Host[s]] = locks[Host[s]]
  PROVE  Base'
  <1>1. \A s \in Sessions : At(s, "locked")' => Visiting(s)'
    BY DEF At, Visiting
  <1>2. \A s \in Sessions : At(s, "locked")' => locks'[Host[s]] = s
    BY <1>1 DEF Base, At
  <1>3. ASSUME ~foreign', NEW s \in Sessions
        PROVE  /\ Visiting(s)' =>
                    req'[s].view = tree'.doc \/ req'[s].view.rev < tree'.doc.rev
               /\ At(s, "locked")' => req'[s].view = tree'.doc
    BY <1>1, <1>3 DEF Base, Visiting, At
  <1> QED BY <1>2, <1>3 DEF Base

\* Only visual edits begin visual edits.
LEMMA OthersVisit ==
  ASSUME Typed, NEW s \in Sessions, NEW t \in Sessions,
         Generation(t) \/ Editor(t) \/ Repository(t) \/ Close(t)
  PROVE  Visiting(s)' => req'[s] = req[s]
  <1>1. req \in [Sessions -> Requests] /\ req[s] \in Requests
    BY DEF Typed, TypeOK
  <1>2. CASE Check(t) \/ WriteCode(t) \/ Compare(t) \/ Overwrite(t)
    BY <1>2, TheseGo DEF Visiting, At
  <1>3. CASE /\ t # s
             /\ \/ Load(t) \/ Checkpoint(t) \/ Drift(t) \/ WriteMap(t)
                \/ View(t) \/ Outdated(t) \/ Put(t) \/ Repository(t) \/ Close(t)
    BY <1>1, <1>3
    DEF Load, Checkpoint, Drift, WriteMap, View, Outdated, Put, Repository, Lock, Keep,
        Commit, Switch, Refuse, Unlock, Close, Go, Read, Done
  <1>4. CASE \/ Load(s) \/ Checkpoint(s) \/ Drift(s) \/ WriteMap(s)
             \/ View(s) \/ Outdated(s) \/ Put(s)
    BY <1>1, <1>4
    DEF Load, Checkpoint, Drift, WriteMap, View, Outdated, Put, Read, Done, Idle,
        Requests, Visiting
  <1>5. CASE Repository(s) \/ Close(s)
    BY <1>1, <1>5
    DEF Repository, Lock, Keep, Commit, Switch, Refuse, Unlock, Close, Go, Read, Done,
        Idle, Requests, Visiting
  <1> QED BY <1>2, <1>3, <1>4, <1>5 DEF Generation, Editor

\* Reads, saves and restores of one process keep what the revision says.
LEMMA VisualBase ==
  ASSUME OneProcess, Typed, Base, NEW s \in Sessions, Visual(s)
  PROVE  Base'
  <1>1. /\ req \in [Sessions -> Requests] /\ req[s] \in Requests
        /\ tree.doc \in Documents /\ tree.doc.rev \in Nat
        /\ locks \in [Processes -> Sessions \cup {Nothing}]
        /\ \A t \in Sessions : Host[t] \in Processes /\ Host[t] = Host[s]
    BY Parts, WorkspaceAssumption DEF Typed, TypeOK, OneProcess
  <1>2. CASE Conflict(s)
    <2>1. \A t \in Sessions : Visiting(t)' => req'[t] = req[t]
      BY <1>1, <1>2 DEF Conflict, Done, Idle, Visiting
    <2> QED BY <1>2, <2>1, QuietBase DEF Conflict, files, mutex, past
  <1>3. CASE Open(s) \/ Restore(s)
    <2>1. /\ UNCHANGED <<tree, locks, foreign>>
          /\ req'[s].view = tree.doc /\ ~At(s, "locked")'
          /\ \A t \in Sessions \ {s} : req'[t] = req[t]
      BY <1>1, <1>3 DEF Open, Restore, Read, Requests, files, mutex, past, At
    <2> QED BY <2>1 DEF Base, Visiting, At
  <1>4. CASE Accept(s)
    <2>1. /\ At(s, "locked")' /\ req'[s].view = req[s].view
          /\ \A t \in Sessions \ {s} : req'[t] = req[t]
      BY <1>1, <1>4 DEF Accept, At, Requests
    <2>2. /\ tree' = tree /\ foreign' = foreign
          /\ locks[Host[s]] = Nothing /\ locks'[Host[s]] = s
          /\ Visiting(s) /\ req[s].view.rev = tree.doc.rev
      BY <1>1, <1>4 DEF Accept, Locked, Current, Visiting
    <2>3. ASSUME NEW t \in Sessions \ {s} PROVE ~At(t, "locked")
      BY <1>1, <2>2, <2>3, WorkspaceAssumption DEF Base
    <2>4. ~foreign => req[s].view = tree.doc
      BY <1>1, <2>2 DEF Base
    <2> QED BY <2>1, <2>2, <2>3, <2>4 DEF Base, Visiting, At
  <1>5. CASE Save(s)
    <2>1. /\ foreign' = foreign
          /\ tree'.doc = [rev |-> req[s].view.rev + 1, graph |-> req[s].graph]
          /\ req'[s].at = "open" /\ req'[s].view = tree'.doc
          /\ \A t \in Sessions \ {s} : req'[t] = req[t]
      BY <1>1, <1>5 DEF Save, Typed, TypeOK, Trees
    <2>2. ASSUME NEW t \in Sessions \ {s} PROVE ~At(t, "locked")
      BY <1>1, <1>5, <2>2 DEF Base, Save
    <2>3. ASSUME NEW t \in Sessions \ {s}, ~foreign, Visiting(t)
          PROVE  req[t].view.rev < tree'.doc.rev
      <3>1. req[s].view = tree.doc /\ tree'.doc.rev = tree.doc.rev + 1
        BY <1>5, <2>1, <2>3 DEF Base, Save
      <3>2. req[t].view.rev \in Nat
        BY <1>1, <2>3, Parts DEF Typed, Shape, Visiting, TypeOK
      <3> QED BY <1>1, <2>3, <3>1, <3>2 DEF Base
    <2> QED BY <2>1, <2>2, <2>3 DEF Base, Visiting, At
  <1> QED BY <1>2, <1>3, <1>4, <1>5 DEF Visual

\* Every step of one process keeps what the revision says.
LEMMA StepBase == OneProcess /\ Typed /\ Base /\ [Next]_vars => Base'
  <1> SUFFICES ASSUME OneProcess, Typed, Base, [Next]_vars PROVE Base'
    OBVIOUS
  <1>1. tree \in Trees
    BY DEF Typed, TypeOK
  <1>2. CASE Age \/ UNCHANGED vars
    BY <1>2, QuietBase DEF Age, vars, files, mutex, past, Visiting
  <1>3. CASE HandEdit
    BY <1>1, <1>3, QuietBase DEF HandEdit, mutex, Trees, Visiting
  <1>8. CASE Spoil
    BY <1>1, <1>8, QuietBase DEF Spoil, mutex, Trees, Visiting
  <1>4. ASSUME NEW s \in Sessions, Generation(s)
        PROVE  Base'
    <2>1. tree'.doc = tree.doc
      BY <1>1, <1>4
      DEF Generation, Load, Checkpoint, Drift, Check, WriteCode, WriteMap, files, Trees
    <2>2. UNCHANGED <<locks, foreign>>
      BY <1>4
      DEF Generation, Load, Checkpoint, Drift, Check, WriteCode, WriteMap, mutex, past
    <2> QED BY <1>4, <2>1, <2>2, OthersVisit, QuietBase
  <1>5. ASSUME NEW s \in Sessions, Editor(s) \/ Close(s)
        PROVE  Base'
    <2>1. tree'.doc = tree.doc \/ foreign'
      BY <1>1, <1>5 DEF Editor, View, Outdated, Compare, Overwrite, Put, Close, files, Trees
    <2>2. locks' = locks /\ (foreign => foreign')
      BY <1>5 DEF Editor, View, Outdated, Compare, Overwrite, Put, Close, mutex, past
    <2> QED BY <1>5, <2>1, <2>2, OthersVisit, QuietBase
  <1>6. ASSUME NEW s \in Sessions, Repository(s)
        PROVE  Base'
    <2>1. tree'.doc = tree.doc \/ foreign'
      BY <1>6 DEF Repository, Lock, Keep, Commit, Switch, Refuse, files
    <2>2. locks' = locks /\ (foreign => foreign')
      <3>1. CASE Lock(s) \/ Keep(s) \/ Commit(s) \/ Refuse(s)
        BY <3>1 DEF Lock, Keep, Commit, Refuse, Unlock, mutex, past
      <3>2. CASE Switch(s)
        BY <3>2 DEF Switch, Unlock
      <3> QED BY <1>6, <3>1, <3>2 DEF Repository
    <2> QED BY <1>6, <2>1, <2>2, OthersVisit, QuietBase
  <1>7. ASSUME NEW p \in Processes, Crash(p)
        PROVE  Base'
    <2>1. \A s \in Sessions : Visiting(s)' => req'[s] = req[s]
      BY <1>7, CrashTakes DEF Visiting, Idle
    <2>2. ASSUME NEW s \in Sessions, At(s, "locked")'
          PROVE  locks'[Host[s]] = locks[Host[s]]
      <3>1. Host[s] # p /\ Host[s] \in Processes
        BY <1>7, <2>2, WorkspaceAssumption DEF Crash, At, Idle
      <3> QED BY <1>7, <3>1 DEF Crash, Typed, TypeOK
    <2> QED BY <1>7, <2>1, <2>2, QuietBase DEF Crash, files
  <1> QED BY <1>2, <1>3, <1>4, <1>5, <1>6, <1>7, <1>8, VisualBase DEF Next

\* When one process does all the saving, a save or restore replaces only the
\* document its author had read, until an edit of its text or a change of
\* branch brings in one whose revision says nothing.
THEOREM SavesReplaceWhatWasRead ==
  ASSUME OneProcess
  PROVE  Spec => SavesSeeTheirBase
  <1>1. Init => Typed /\ Base
    BY InitTyped DEF Init, Base, Idle, At, Visiting
  <1>2. Typed /\ Base /\ [Next]_vars => (Typed /\ Base)'
    BY OneProcess, StepTyped, StepBase
  <1>3. Typed /\ Base =>
          \A s \in Sessions :
            Step(s, "locked", "open") => tree.doc = req[s].view \/ foreign
    BY DEF Base, Step
  <1> QED BY <1>1, <1>2, <1>3, PTL DEF Spec, SavesSeeTheirBase
=============================================================================
