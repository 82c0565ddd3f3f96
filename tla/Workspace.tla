----------------------------- MODULE Workspace ------------------------------
(***************************************************************************)
(* The files of one project and what writes them: visual saves and         *)
(* restores (save_pipeline, under the store's lock), generation            *)
(* (_write_generated, under no lock), the file editor (write_text, under   *)
(* the lock of ProjectFileSystem) and Git (_git_call, under the lock of    *)
(* the project's repository), by requests in several threads, and by       *)
(* several processes when `sdpstudio` commands run beside the server.      *)
(***************************************************************************)
EXTENDS Naturals, Sequences

CONSTANTS
  Sessions,    \* users and requests at work on the project
  Processes,   \* the server and the commands
  Host,        \* [Sessions -> Processes]
  Branches,    \* of the Git repository
  Graphs,      \* visual graphs, each with the code generated from it
  Hand,        \* code that is not generated from a graph
  Nothing,     \* nobody, no document, no graph
  MaxRev,      \* bound on the revision
  MaxEvents,   \* bound on file edits, Git operations and crashes
  HistoryMax   \* SDPSTUDIO_HISTORY_MAX_COUNT

ASSUME WorkspaceAssumption ==
  /\ Host \in [Sessions -> Processes]
  /\ Hand \notin Graphs
  /\ Nothing \notin Sessions \cup Graphs
  /\ MaxRev \in Nat \ {0}
  /\ MaxEvents \in Nat
  /\ HistoryMax \in Nat \ {0}

Documents == [rev : 0..MaxRev, graph : Graphs]
Codes == Graphs \cup {Hand}
Maps == Codes \cup {Nothing}

\* The pipeline document; generated.py, Hand also when there is none; and, for
\* the hash in its source map, the code that hash is of: Hand for a map that
\* cannot be read, Nothing where there is no map or no hash in it.
Trees == [doc : Documents, code : Codes, map : Maps]

VARIABLES
  tree,     \* the working tree
  hist,     \* .sdpstudio/history, newest first
  recent,   \* the newest snapshot is younger than the debounce
  heads,    \* what each branch has committed
  branch,   \* the branch that is checked out
  events,   \* file edits, Git operations and crashes so far
  locks,    \* DataStore._lock of each process
  editing,  \* the lock of ProjectFileSystem
  working,  \* the lock of the project in git_locks
  req,      \* where each session is, the document or code it has read, and
            \* the graph it is going to write
  settled,  \* history: the document has stood for longer than the debounce
  stale,    \* history: the newest snapshot was of a document replaced before
  foreign,  \* history: the document was changed other than by a save
  torn,     \* history: two generations wrote at once, or one was cut short
  spoiled,  \* history: the source map was missing, or was written otherwise
  bypassed  \* history: a file was changed under an edit past its check

files == <<tree, hist, recent>>
git   == <<heads, branch>>
mutex == <<locks, editing, working>>
past  == <<settled, stale, foreign, torn, spoiled, bypassed>>
vars  == <<files, git, mutex, req, past, events>>

Steps == {"idle", "open", "saving", "locked", "loaded", "coding", "mapping",
          "reading", "putting", "branching", "switching"}

Requests == [at : Steps, view : Documents \cup Codes \cup {Nothing},
             graph : Graphs \cup {Nothing}]

TypeOK ==
  /\ tree \in Trees
  /\ hist \in Seq(Documents) /\ Len(hist) <= HistoryMax
  /\ heads \in [Branches -> Trees]
  /\ branch \in Branches
  /\ events \in 0..MaxEvents
  /\ locks \in [Processes -> Sessions \cup {Nothing}]
  /\ {editing, working} \subseteq Sessions \cup {Nothing}
  /\ req \in [Sessions -> Requests]
  /\ {recent, settled, stale, foreign, torn, spoiled, bypassed} \subseteq BOOLEAN

Idle == [at |-> "idle", view |-> Nothing, graph |-> Nothing]

\* A tree that was generated and not touched since.
Generated(d) == [doc |-> d, code |-> d.graph, map |-> d.graph]

\* A project that is generated and committed, created here or cloned, and a
\* visual edit committed on the other branches.
Init ==
  /\ branch \in Branches
  /\ \E g, h \in Graphs :
       /\ g # h
       /\ heads = [b \in Branches |->
                    Generated(IF b = branch THEN [rev |-> 0, graph |-> g]
                                            ELSE [rev |-> 1, graph |-> h])]
  /\ tree = heads[branch]
  /\ hist = <<>>
  /\ recent = FALSE
  /\ events = 0
  /\ locks = [p \in Processes |-> Nothing]
  /\ editing = Nothing
  /\ working = Nothing
  /\ req = [s \in Sessions |-> Idle]
  /\ settled = FALSE
  /\ stale = FALSE
  /\ foreign = FALSE
  /\ torn = FALSE
  /\ spoiled = FALSE
  /\ bypassed = FALSE

At(s, step) == req[s].at = step
Go(s, step) == req' = [req EXCEPT ![s].at = step]
Read(s, v, step) == req' = [req EXCEPT ![s].view = v, ![s].at = step]
Done(s) == req' = [req EXCEPT ![s] = Idle]

Event == events < MaxEvents /\ events' = events + 1

\* Time passes: more than the debounce.
Age ==
  /\ recent \/ ~settled
  /\ recent' = FALSE
  /\ settled' = TRUE
  /\ stale' = FALSE
  /\ UNCHANGED <<tree, hist, git, mutex, req, foreign, torn, spoiled, bypassed, events>>

-----------------------------------------------------------------------------
(* The file history.                                                       *)

\* Mutant of Snapshot: the retention is left out.
SnapshotForever(d) ==
  /\ hist' = <<d>> \o hist
  /\ recent' = TRUE
  /\ stale' = (d # tree.doc)

\* _snapshot with its retention by count; nothing here is old enough for the
\* retention by age.
Snapshot(d) ==
  /\ hist' = SubSeq(<<d>> \o hist, 1, IF Len(hist) < HistoryMax THEN Len(hist) + 1
                                                               ELSE HistoryMax)
  /\ recent' = TRUE
  /\ stale' = (d # tree.doc)

\* A file changes other than by the edit that is past its check.
Bypass(isDoc) ==
  bypassed' = (bypassed \/ \E s \in Sessions :
                             At(s, "putting") /\ (req[s].view \in Documents <=> isDoc))

-----------------------------------------------------------------------------
(* Visual edits.                                                           *)

\* GET pipeline, or the load_pipeline of a reconciliation.
Open(s) ==
  /\ At(s, "idle")
  /\ Read(s, tree.doc, "open")
  /\ UNCHANGED <<files, git, mutex, past, events>>

\* restore_history: the revision is read before save_pipeline takes the lock.
Restore(s) ==
  /\ At(s, "idle")
  /\ \E i \in 1..Len(hist) :
       req' = [req EXCEPT ![s] =
         [at |-> "saving", view |-> tree.doc, graph |-> hist[i].graph]]
  /\ UNCHANGED <<files, git, mutex, past, events>>

\* The graph to save: a new one of the author's, or that of the snapshot.
Choice(s) ==
  IF At(s, "open") THEN Graphs \ {req[s].view.graph} ELSE {req[s].graph}

Locked(s) == req[s].at \in {"open", "saving"} /\ locks[Host[s]] = Nothing

\* Mutant of Current: any earlier revision will do.
CurrentOrOlder(s) == req[s].view.rev <= tree.doc.rev

Current(s) == req[s].view.rev = tree.doc.rev

\* RevisionConflictError.
Conflict(s) ==
  /\ Locked(s)
  /\ ~Current(s)
  /\ Done(s)
  /\ UNCHANGED <<files, git, mutex, past, events>>

\* Mutant of EditSnapshot: only the first edit takes one.
EditSnapshotOnce ==
  IF hist = <<>> THEN Snapshot(tree.doc) ELSE UNCHANGED <<hist, recent, stale>>

\* "before visual edit", unless the newest snapshot is recent.
EditSnapshot ==
  IF hist = <<>> \/ ~recent THEN Snapshot(tree.doc) ELSE UNCHANGED <<hist, recent, stale>>

\* save_pipeline, up to the snapshot.
Accept(s) ==
  /\ Locked(s)
  /\ Current(s)
  /\ tree.doc.rev < MaxRev
  /\ EditSnapshot
  /\ locks' = [locks EXCEPT ![Host[s]] = s]
  /\ \E g \in Choice(s) : req' = [req EXCEPT ![s].graph = g, ![s].at = "locked"]
  /\ UNCHANGED <<tree, git, editing, working, settled, foreign, torn, spoiled, bypassed, events>>

\* save_pipeline writes the document and returns it to its author.
Save(s) ==
  /\ At(s, "locked")
  /\ LET d == [rev |-> req[s].view.rev + 1, graph |-> req[s].graph] IN
       /\ tree' = [tree EXCEPT !.doc = d]
       /\ req' = [req EXCEPT ![s] = [at |-> "open", view |-> d, graph |-> Nothing]]
  /\ settled' = FALSE
  /\ Bypass(TRUE)
  /\ locks' = [locks EXCEPT ![Host[s]] = Nothing]
  /\ UNCHANGED <<hist, recent, git, editing, working, stale, foreign, torn, spoiled, events>>

-----------------------------------------------------------------------------
(* Generation, and the other operations that load a document and take a    *)
(* snapshot of it.                                                         *)

Load(s) ==
  /\ At(s, "idle")
  /\ Read(s, tree.doc, "loaded")
  /\ UNCHANGED <<files, git, mutex, past, events>>

\* create_history_checkpoint.
Checkpoint(s) ==
  /\ At(s, "loaded")
  /\ Snapshot(req[s].view)
  /\ Done(s)
  /\ UNCHANGED <<tree, git, mutex, settled, foreign, torn, spoiled, bypassed, events>>

\* Mutant of Owned: the comparison is left out.
OwnedAlways == tree.code \in Codes

\* The file is what its source map says, or there is no hash to compare it with.
Owned == tree.map = Nothing \/ (tree.map \in Graphs /\ tree.code = tree.map)

\* SDPS-CODEGEN-DRIFT, or SDPS-CODEGEN-MAP for a map that cannot be read.
Drift(s) ==
  /\ At(s, "loaded")
  /\ ~Owned
  /\ Done(s)
  /\ UNCHANGED <<files, git, mutex, past, events>>

Generating == \E s \in Sessions : At(s, "coding") \/ At(s, "mapping")

\* _write_generated, up to the snapshot.  The view is the code that was compared
\* with a hash.
Check(s) ==
  /\ At(s, "loaded")
  /\ Owned
  /\ Snapshot(req[s].view)
  /\ req' = [req EXCEPT ![s] =
       [at |-> "coding", graph |-> req[s].view.graph,
        view |-> IF tree.map = Nothing THEN Nothing ELSE tree.code]]
  /\ torn' = (torn \/ Generating)
  /\ UNCHANGED <<tree, git, mutex, settled, foreign, spoiled, bypassed, events>>

WriteCode(s) ==
  /\ At(s, "coding")
  /\ tree' = [tree EXCEPT !.code = req[s].graph]
  /\ Bypass(FALSE)
  /\ Go(s, "mapping")
  /\ UNCHANGED <<hist, recent, git, mutex, settled, stale, foreign, torn, spoiled, events>>

\* Mutant of WriteMap: the map is of the document as it is now.
WriteMapNow(s) ==
  /\ At(s, "mapping")
  /\ tree' = [tree EXCEPT !.map = tree.doc.graph]
  /\ Done(s)
  /\ UNCHANGED <<hist, recent, git, mutex, past, events>>

WriteMap(s) ==
  /\ At(s, "mapping")
  /\ tree' = [tree EXCEPT !.map = req[s].graph]
  /\ Done(s)
  /\ UNCHANGED <<hist, recent, git, mutex, past, events>>

-----------------------------------------------------------------------------
(* The editor, and programs beside the server.                             *)

\* read_text: the text and its ETag.
View(s) ==
  /\ At(s, "idle")
  /\ Event
  /\ \E f \in {"doc", "code"} : Read(s, tree[f], "reading")
  /\ UNCHANGED <<files, git, mutex, past>>

FileOf(v) == IF v \in Documents THEN "doc" ELSE "code"
Unedited(s) == tree[FileOf(req[s].view)] = req[s].view

\* FileConflictError.
Outdated(s) ==
  /\ At(s, "reading")
  /\ editing = Nothing
  /\ ~Unedited(s)
  /\ Done(s)
  /\ UNCHANGED <<files, git, mutex, past, events>>

\* Mutant of Compare: two edits at a time.
CompareUnlocked(s) ==
  /\ At(s, "reading")
  /\ Unedited(s)
  /\ bypassed' = FALSE
  /\ Go(s, "putting")
  /\ UNCHANGED <<files, git, mutex, settled, stale, foreign, torn, spoiled, events>>

\* write_text, up to the comparison of ETags.
Compare(s) ==
  /\ At(s, "reading")
  /\ editing = Nothing
  /\ Unedited(s)
  /\ editing' = s
  /\ bypassed' = FALSE
  /\ Go(s, "putting")
  /\ UNCHANGED <<files, git, locks, working, settled, stale, foreign, torn, spoiled, events>>

\* write_text without an ETag, which "Create file" sends for any path.
Overwrite(s) ==
  /\ At(s, "idle")
  /\ Event
  /\ editing = Nothing
  /\ editing' = s
  /\ bypassed' = FALSE
  /\ Read(s, Nothing, "putting")
  /\ UNCHANGED <<files, git, locks, working, settled, stale, foreign, torn, spoiled>>

\* Nothing updates the revision in a document whose text is edited.  The
\* documents are those that can be loaded.
Written(s) ==
  IF req[s].view = Nothing THEN Documents
  ELSE {d \in Documents : req[s].view \in Documents /\ d.rev = req[s].view.rev} \ {req[s].view}

Put(s) ==
  /\ At(s, "putting")
  /\ \/ /\ \E d \in Written(s) : tree' = [tree EXCEPT !.doc = d]
        /\ foreign' = TRUE
        /\ settled' = FALSE
     \/ /\ req[s].view \notin Documents
        /\ tree' = [tree EXCEPT !.code = Hand]
        /\ UNCHANGED <<foreign, settled>>
  /\ editing' = Nothing
  /\ bypassed' = FALSE
  /\ Done(s)
  /\ UNCHANGED <<hist, recent, git, locks, working, stale, torn, spoiled, events>>

\* Another program edits generated.py.
HandEdit ==
  /\ tree.code # Hand
  /\ Event
  /\ tree' = [tree EXCEPT !.code = Hand]
  /\ Bypass(FALSE)
  /\ UNCHANGED <<hist, recent, git, mutex, req, settled, stale, foreign, torn, spoiled>>

\* The source map goes, by a user or with a clone that was committed without it,
\* or is overwritten with something else.
Spoil ==
  /\ Event
  /\ \E m \in {Nothing, Hand} \ {tree.map} : tree' = [tree EXCEPT !.map = m]
  /\ spoiled' = TRUE
  /\ UNCHANGED <<hist, recent, git, mutex, req, settled, stale, foreign, torn, bypassed>>

-----------------------------------------------------------------------------
(* Git: _git_call.                                                         *)

Lock(s) ==
  /\ At(s, "idle")
  /\ working = Nothing
  /\ Event
  /\ working' = s
  /\ Read(s, tree.doc, "branching")
  /\ UNCHANGED <<files, heads, branch, locks, editing, past>>

\* "before git ..."
Keep(s) ==
  /\ At(s, "branching")
  /\ Snapshot(req[s].view)
  /\ Go(s, "switching")
  /\ UNCHANGED <<tree, git, mutex, settled, foreign, torn, spoiled, bypassed, events>>

Unlock(s) ==
  /\ At(s, "switching")
  /\ working' = Nothing
  /\ Done(s)
  /\ UNCHANGED <<hist, recent, locks, editing, stale, events>>

\* stage and commit.
Commit(s) ==
  /\ Unlock(s)
  /\ heads' = [heads EXCEPT ![branch] = tree]
  /\ torn' = (torn \/ Generating)
  /\ UNCHANGED <<tree, branch, settled, foreign, spoiled, bypassed>>

Clean(f) == tree[f] = heads[branch][f]

\* switch_branch: Git takes over the files the branches differ in, all of
\* them unchanged, and leaves the others as they are.
Switch(s) ==
  /\ Unlock(s)
  /\ \E b \in Branches \ {branch} :
       /\ \A f \in DOMAIN tree : Clean(f) \/ heads[b][f] = heads[branch][f]
       /\ tree' = [f \in DOMAIN tree |-> IF Clean(f) THEN heads[b][f] ELSE tree[f]]
       /\ branch' = b
  /\ foreign' = (foreign \/ tree'.doc # tree.doc)
  /\ settled' = (settled /\ tree'.doc = tree.doc)
  /\ torn' = (torn \/ Generating)
  /\ bypassed' = (bypassed \/ editing # Nothing)
  /\ UNCHANGED <<heads, spoiled>>

\* Git refuses, or does something that leaves the files alone.
Refuse(s) ==
  /\ Unlock(s)
  /\ UNCHANGED <<tree, heads, branch, settled, foreign, torn, spoiled, bypassed>>

-----------------------------------------------------------------------------
\* The browser goes elsewhere.
Close(s) ==
  /\ At(s, "open") \/ At(s, "reading")
  /\ Done(s)
  /\ UNCHANGED <<files, git, mutex, past, events>>

\* What is only in memory is gone; browsers remain.
Crash(p) ==
  LET here == {s \in Sessions :
                 Host[s] = p /\ req[s].at \notin {"idle", "open", "reading"}} IN
  /\ here # {}
  /\ Event
  /\ req' = [s \in Sessions |-> IF s \in here THEN Idle ELSE req[s]]
  /\ locks' = [locks EXCEPT ![p] = Nothing]
  /\ editing' = IF editing \in here THEN Nothing ELSE editing
  /\ working' = IF working \in here THEN Nothing ELSE working
  /\ torn' = (torn \/ \E s \in here : At(s, "mapping"))
  /\ bypassed' = (bypassed /\ editing \notin here)
  /\ UNCHANGED <<files, git, settled, stale, foreign, spoiled>>

Visual(s) == Open(s) \/ Restore(s) \/ Conflict(s) \/ Accept(s) \/ Save(s)
Generation(s) ==
  Load(s) \/ Checkpoint(s) \/ Drift(s) \/ Check(s) \/ WriteCode(s) \/ WriteMap(s)
Editor(s) == View(s) \/ Outdated(s) \/ Compare(s) \/ Overwrite(s) \/ Put(s)
Repository(s) == Lock(s) \/ Keep(s) \/ Commit(s) \/ Switch(s) \/ Refuse(s)

Next ==
  \/ Age \/ HandEdit \/ Spoil
  \/ \E s \in Sessions :
       Visual(s) \/ Generation(s) \/ Editor(s) \/ Repository(s) \/ Close(s)
  \/ \E p \in Processes : Crash(p)

Spec == Init /\ [][Next]_vars

-----------------------------------------------------------------------------
(* Properties.                                                             *)

Step(s, from, to) == At(s, from) /\ req'[s].at = to

\* What a visual save replaces is what its author had read: the revision
\* guarantees it among the threads of one process, until an edit of the YAML
\* text or a change of branch brings a document in whose revision says nothing.
SavesSeeTheirBase ==
  [][\A s \in Sessions :
       Step(s, "locked", "open") => tree.doc = req[s].view \/ foreign]_vars

\* A document that stood for longer than the debounce is in the history when
\* a visual save or a restore is about to replace it, whatever checkpoints,
\* generations and Git operations did meanwhile, unless the newest snapshot
\* was of a document that had been replaced before it was taken.
SettledIsKept ==
  [][\A s \in Sessions : ~At(s, "locked") /\ req'[s].at = "locked" /\ settled =>
       stale' \/ \E i \in 1..Len(hist') : hist'[i] = tree.doc]_vars

\* Between generations generated.py is what its source map says or has been
\* edited, so that a refusal for drift is the user's doing, unless writes of
\* two generations met, one was cut short, Git moved the files under one, or
\* the map was missing or not written by a generation.
OwnedCodeMatches ==
  ~torn /\ ~spoiled /\ (\A s \in Sessions : ~At(s, "mapping")) => tree.code \in {tree.map, Hand}

\* A generation replaces an edit of generated.py only when the edit was made
\* after the generation had looked, or when it found no hash to compare the
\* file with; and then the project came without a source map, or somebody has
\* removed it: neither generations, in part or at once, nor crashes nor changes
\* of branch lose one that there was.
HandEditsKept ==
  [][\A s \in Sessions :
       Step(s, "coding", "mapping") /\ tree.code = Hand =>
         req[s].view \in Graphs \/ (req[s].view = Nothing /\ spoiled)]_vars

\* An edit in the file editor that sends the ETag it has read, which saving an
\* open file does, replaces text its author has not read only when something
\* other than the editor wrote the file meanwhile.  One that sends none, as
\* "Create file" does, replaces whatever there is, but never under another.
EditorsSeeEachOther ==
  [][\A s \in Sessions : At(s, "putting") /\ req'[s].at = "idle" /\ tree' # tree =>
       req[s].view = Nothing \/ Unedited(s) \/ bypassed]_vars
=============================================================================
