# SDP Studio: specifications, model checking and proofs

SDP Studio edits Spark Declarative Pipelines as graphs, generates their code and
runs them. This directory holds TLA+ specifications of two kinds of parts: those in
which several actors write the same state (the run queue and the life of a run, the
collaboration log, the scheduler, the files of a project and its Git repository,
reconciliation, secrets and runtime profiles), and the compilers, which are functions
from documents to problems, definitions and declarations. The specifications are
translated from the Python source under `src/python`; paths below are relative to it,
and `server/`, `core/`, `codegen/` abbreviate `sdpstudio_server/`, `sdpstudio_core/`,
`sdpstudio_codegen/`.

`tlc -config X.cfg MCModule` runs a configuration, `tlapm Module_proofs.tla` checks
the proofs of a module. `PROJECT.json` lists the runs, the theorems, the source lines
each definition stands for, the hazards and the findings.

## 1. Inventory

The server is one process: FastAPI handlers on an event loop, synchronous work in
threads (`asyncio.to_thread`), background tasks for the run queue and the schedules.
`sdpstudio` commands run beside it on the same database and project directories
(`worker`, `run`, `history`, `generate`). What follows is each component's state,
its operations, what it interacts with, what is hard about it and what makes it
correct.

### Runs

| | |
|---|---|
| Run queue and workers (`server/storage.py` claim_run, heartbeat_run, release_run_claim; `server/run_worker.py`) | **State** `runs.status, created_at, claim_token, heartbeat_at`. **Operations** claim the oldest queued run whose lease is free or expired, renew, release, execute. **Interaction** the server's drain loop and any number of `sdpstudio worker` processes, only through the table. **Hard** workers die holding a claim, a lease expires under a worker that is only slow, an execution raises before its first transition. **Correct if** a claim excludes others while it is renewed, ended executions leave no claim, queued runs leave the queue. |
| Run lifecycle (`sdpstudio_core/models.py` RUN_TRANSITIONS; `sdpstudio_runners/local.py`; `server/run_worker.py`; startup and shutdown in `server/app.py`) | **State** `runs.status`, the subprocess of a run and its `process.json`, the control state of every thread and task that works on the run. **Operations** submit (deferred, or direct from the command line), the chain of `transition_run` calls, spawn, await, collect, fail, shut down, reconcile at startup. **Interaction** a submission thread, workers and the startup sweep write the same column. **Hard** `transition_run` reads and writes in two transactions; crashes between spawn and record; shutdown in the middle of anything. **Correct if** the column moves along the table only, a terminal state is final, one execution per run, every run ends, no process record outlives its server. |
| Run control from outside (cancel, Kubernetes status request) | **State** the same column. **Operations** the status request writes the outcome of the driver pod; cancel looks for a handle. **Hard** the pod ends while the executor still waits for `spark-submit` and goes on to its own transitions. **Correct if** the run neither reopens nor stays between the two writes. |
| Runtime profiles and adapters (`runtime_profiles` in `storage.py`/`async_store.py`, `server/runtime_profile_service.py`) | **State** the profile table; jobs at Spark Connect, Kubernetes, Databricks, Livy. **Operations** create, update, delete, seed an empty table at a start. **Hard** an update completes and validates its request with a row it read earlier; a deletion counts in one transaction and deletes in another. **Correct if** every stored profile is one validation accepts and the last local one stays. What a managed adapter answers is a choice in RunLifecycle. |

### Collaboration

| | |
|---|---|
| Collaboration (`server/collab.py`, `collaboration_merge.py`, the event and snapshot functions of `async_store.py`, `project_socket` in `app.py`) | **State** `collaboration_events`, one snapshot row per project, the hub's sockets. **Operations** join (hub, snapshot, replay), edit (number, append, broadcast), save (append, snapshot, compaction), bundle, the snapshot before a Git operation. **Interaction** socket handlers, PUT /pipeline and Git handlers interleave at every `await`. **Hard** sequence numbers chosen outside the insert's transaction, snapshots written out of order, a client that joins while the log is folded, sockets that die in a broadcast. **Correct if** what is shown is durable, joining leaves no gap, who stays connected misses nothing. |

### Scheduling

| | |
|---|---|
| Scheduler (`server/scheduler.py`, claim_schedule in `storage.py`/`async_store.py`, dispatch in `app.py`) | **State** schedule rows with `last_claim_marker`; per process the last minute seen, the running dispatches and their threads. **Operations** tick, claim, refuse, skip/forbid/replace, recover missed firings, stop; pause, resume, delete. **Interaction** several loops through the table; the dispatch feeds the run queue. **Hard** ticks that last longer than a minute, restarts within the minute, cancellation that does not reach the thread. **Correct if** an occurrence starts once, no overlap unless the policy replaces, nothing due is passed over, a missed run is made up for at startup. |

### Projects

| | |
|---|---|
| Project files and history (`server/storage.py` save_pipeline, _snapshot, restore_history, _write_generated; `server/filesystem.py`; `_git_call` in `app.py`) | **State** the pipeline document with its revision, `generated.py` and its source map, `.sdpstudio/history`, the Git repository. **Operations** visual save, restore, checkpoint, generate, edit a file's text, commit, switch branch. **Interaction** the four kinds of writer hold four different locks (store, none, editor, Git). **Hard** checks and writes that are apart, a revision that text edits and branches do not respect, snapshots suppressed by a debounce, crashes between two files. **Correct if** a writer replaces only what its author saw, a document worth keeping is in the history before it is replaced, generated code is never lost work. |
| Git repository operations (`server/git_service.py`, `_git_call` in `app.py`) | **State** commits, branches, tags, the index, the worktree, the stash, what is known of the remote. **Operations** init, stage, commit, branch, switch, tag, stash, resolve, fetch, pull, push; those listed in `git_mutations` begin with a checkpoint of the document. **Interaction** editors and saves write the document without Git's lock, others push to and delete on the remote. **Hard** a stash that does not merge leaves conflict markers in the document every later operation has to load. **Correct if** nothing written is lost to an operation, markers go nowhere, commits are lost only on purpose. |
| Project catalogue | creation, clone, rename, soft deletion: rows and directories that one request writes. **Hard** deletion under a running run. *Not modelled.* |

### Documents and code

| | |
|---|---|
| Graph validation and compilation (`core/graph.py`, `operators.py`, `plugins.py`, `capabilities.py`, `ir.py`) | no state: a document gives an order, problems, modes, an intermediate representation. **Hard** cycles, edges to missing nodes, nodes without a catalogue entry, all of which the later passes meet as well. **Correct if** the queries are those of the transitive closure. |
| Code generation (`codegen/python_backend.py`, `sql_backend.py`, `planner.py`, `preview.py`) | two generators, a language plan and a preview program, each with rules of its own for the same graph. **Correct if** what is emitted runs, reads streams only where it may, and all four agree on the tables a dataset reads. |
| Import and reconciliation (`codegen/importer.py`, `sql_importer.py`, `reconcile.py`, the reconcile routes in `app.py`, `sdpstudio import`) | declarations read out of text; hand edits taken back into the document, which others save meanwhile. **Correct if** what is generated is read back as drawn, readable edits are taken, and a save replaces the document it reconciled. |
| Debugging and quality (`core/debug.py`) | row traces over samples, schema diffs and contracts, summaries of Spark event logs with bounded memory. **Correct if** bounded answers are never wrong, only incomplete. |

### Access and the rest

| | |
|---|---|
| Secrets (`server/secrets.py`, the secret functions of `async_store.py`) | active and previous keys, rows of ciphertext. **Hard** a rotation reads every row and writes them back later, puts and deletions in between; a start with other keys. **Correct if** whatever was acknowledged stays readable. |
| Accounts and sessions | a registry in memory beside a table, sessions, external sign-in. **Hard** the registry is changed before the save that may fail; ended sessions are only in memory. *Not modelled.* |
| Retention, reviews, observability, settings | clean-up by age and count, records, counters. *Not modelled, apart from the retention of the history.* |
| Command line, web client | appear as processes, sessions and sockets of the modules; parsing and display are left out. |
| Plugins, migrations, scripts, deployment | run at import, installation or release; no state that changes while the program runs. *Not modelled.* |

## 2. Modules

| Module | Models | Uses |
|---|---|---|
| `RunStates` | the state table and `is_valid_run_transition` | |
| `RunContract` | **abstract**: one status column that follows the table | RunStates |
| `RunQueue` | the queue and its workers, the executor reduced to what the queue sees | |
| `RunLifecycle` | every actor that writes `runs.status`, step by step; implements `RunContract` and `RunQueue` | RunStates, INSTANCE of both |
| `Collaboration` | event log, anchor, hub, sockets, saves, Git snapshots | |
| `Scheduler` | loops, claims, dispatches, threads | |
| `Workspace` | the files of one project and their four kinds of writer | |
| `Repository` | the Git operations of a project, its remote, editors beside them | |
| `Reconcile` | edited text, the request that reconciles it, saves beside it | |
| `Administration` | secrets under changing keys, the table of runtime profiles | |
| `Lists` | sequences as the code's loops build and filter them | |
| `Operators` | the catalogue, operator plugins, the check of capabilities | |
| `GraphIndex` | documents and the queries of their graph | Lists |
| `PipelineGraph` | validation, lowering | Operators, GraphIndex |
| `Codegen` | Python and SQL projects, the language plan, the preview | PipelineGraph |
| `Compiler` | a document drawn edge by edge from a palette, lowered and compiled each time it changes | Codegen |
| `Import` | discovery in Python and SQL text, the document of a directory | Codegen |
| `RowTrace` | the row trace, schema diffs and contracts | PipelineGraph |
| `SparkEvents` | the two summaries of an event log | Lists |
| `Readers` | the properties of what others make of a document: importers, row trace, summaries | Compiler, Import, RowTrace, SparkEvents |
| `RunQueue_proofs`, `RunLifecycle_proofs`, `Collaboration_proofs`, `Scheduler_proofs`, `Workspace_proofs`, `Repository_proofs`, `Documents_proofs`, `Administration_proofs` | theorems, section 5 | the module of that name, `Documents_proofs` those of Reconcile and Readers, TLAPS; RunLifecycle's also an instance of RunQueue's |
| `MC...` | instances for TLC: who is who. `MCCompiler` holds the palettes, samples, logs and schemas, and the check of schema contracts | the module of that name, `MCCompiler` that of Readers, TLC |

**RunQueue.** `claim_token` is `"<worker>:<ulid>"`; a worker does one run at a time and
never presents an old token again, so the row's `owner` is the worker. `expired[r]`
stands for `heartbeat_at < now - lease`; `Lapse` lets any lease run out at any time, the
owner's fault or not, and records in `lapsed` whose. `Start/Finish/Raise` are what
`poll_once_async` sees of the executor; a run in `Poison` raises before its first
transition. `Resident` workers (the server's) survive an exception, the others end.

**RunLifecycle.** Actors are workers, one submission per run (named after it) and the
server. Each has a program counter; a point of `Transitions` is a call of
`transition_run`, made in two steps, `Read` (the row is read and the transition
checked) and `Write`. `Next` has the local path (secrets, spawn, `process.json`, await,
artifacts, events), the managed path (validate, remote, clean-up), the exception
handlers in the order Python runs them (`Escape`), shutdown, crash, and the steps of
startup: kill the processes in the records, remove the records, list the unfinished
runs, mark them `lost`. `Faults` says which events the environment may produce.
`Watcher` is the status request for a run in `Kubernetes`: once its `spark-submit` was
spawned the run is in `pods`, and any request may find the pod succeeded or failed and
write that through the same two steps. The request and the resident worker are tasks of
one event loop, so neither is seen half done by the other (`EventLoopFree`, `MayRun`);
threads and other processes see everything.

**Collaboration.** A Yjs update is a model value, a row is the set of updates it brings.
Each `await` between database calls ends a step. `Append` fails on the primary key when
another handler took the number; `Anchor` is the unconditional upsert; `Bundle` and
`Period` are the folding and compaction constants of the code. A saved pipeline document
brings no update: text typed into files is not in it.

**Scheduler.** A tick reads the clock once; it lists, claims one schedule after the
other and may still be at it minutes later. `claim_schedule` compares the stored marker
for inequality. `task` is `_running_tasks`, `threads` the submissions that go on although
their task was cancelled.

**Workspace.** A tree is the document, `generated.py` and the code that its source map
vouches for; a map may be missing, hold no hash (`Nothing`) or be unreadable (`Hand`), and
then a generation goes ahead unchecked, or refuses. `Spoil` is how a map gets there, or is
never there, as in a clone of a repository without it. `Accept`/`Save` are `save_pipeline` before and after its writes,
`Check`/`WriteCode`/`WriteMap` are `_write_generated`, `Compare`/`Put` are `write_text`,
`Overwrite`/`Put` are `write_text` without an ETag (documents left that cannot be loaded,
the empty one of "Create file" among them, are not modelled),
`Lock`...`Unlock` is `_git_call`. A change of branch replaces the files the branches
differ in and refuses if one of them was changed. Variables of group `past` are history:
they record what already happened so that a property can say "unless".

**Repository.** A version of the document is a number, fresh with every edit, and
`Markers` is the document with conflict markers. A commit is its document and the set of
commits it descends from, itself among them (`line`). `Call` is `_git_call` up to the
operation: the checkpoint and, with it, which kind of operation holds the lock (`call`);
which one it is shows when it runs. What `git` does to the index, the file, the stash and
the remote is external, modelled from the commands the code issues; `Move` and `MayMove`
are a checkout and the cases in which git refuses it. `FarCommit` and `FarDelete` are
what others do to the remote. `forsaken` is history: commits somebody gave up on purpose.

**Reconcile.** The configuration of a node has a value, or none, under every key.
Generated code is made of statements; the `Form` of a statement says two things that need
not agree: which keys its arguments show, and into which keys of which node they are read
back. `ReadInto` is the chain of branches over a line's method: each writes a fixed key
whatever the type of the node, so `spark.table` on a dataset that is read elsewhere writes
`table` (`reconcile.py:246`) where the code shows its name. `TakeDecorator` is the loop
over decorators, which finds its node by the name of the function (`Function` makes it of
the output's name) or by the target. `TakeLines` is the loop over the statements, a
recursive function over their positions. In SQL `LinesOf` is the clauses of a kind,
whoever they were generated for, and `Reread` what sqlglot makes of their text (`Normal`).
`Post` loads the document, `Report`/`Save`/`Conflict` are the three ways the request ends,
the middle one with the revision check of `save_pipeline`.

**Administration.** A ciphertext is a row of its key and value; a process opens it when
it knows the key. Requests read in one transaction and write in another (`PutRead`,
`PutWrite`, and so on). `Restart` is a start with other keys, under the one rule an
operator has to follow: a key is dropped only after a rotation under the active one has
ended.

**Operators, GraphIndex, PipelineGraph, Codegen, Import.** A document is nodes (type, name, flags
that say whether a piece of configuration is there, malformed or code) and edges with
ports. `validate_graph`, `lower_pipeline`, `generate_python_project`,
`generate_sql_project`, `plan_pipeline`, `generate_preview_script`, `discover_python` and
`cmd_import_directory` keep the names, the order of checks and the early ends of the
code; a compiler ends in an exception ("raised"), in problems ("refused") or in
definitions. A generated definition is its assignments, each with its node, the variables
it binds and uses and the tables it reads: the text of an expression is data. A variable is
named after the tail of its node's id, as in the code, so nodes may collide; a function is
named after its output (`FunctionName`), a sink's with the prefix of a flow. The loops of the
code (Kahn's algorithm, the walks, the modes, what SQL can express) are functions of the
number of rounds.

**Compiler.** The compilers keep no state; the document does. `palette` is what may be
drawn, `lowered`, `python` and `sql` what the compilers made of the document when it last
changed. A palette that is not strict draws what the canvas refuses, since documents also
come from requests and files.

**RowTrace, SparkEvents.** Rows are functions from columns to values and events are
records; both are interpreted by the operators of `core/debug.py` under their limits.

**Readers** has no code of its own. It compares modules that know nothing of each other: what
the importers find in the generated text with the document it was generated from, what a
trace shows with the relational meaning of the nodes (`Meaning`), and one summary of a log
with the other.

## 3. Runs

Bounds are chosen so that each hazard has room to happen. Each inductive invariant of a
proof was also checked as an invariant of its module's run before it was proved; those of
Workspace by simulation too, with four revisions, eight events and a history of three.

| Run | Instance | Shows |
|---|---|---|
| `queue` | 2 runs, the server's loop, 2 mortal CLI workers | `KeptLeaseOwns`, `ExclusiveExecution`, `ClaimsHeld`; `QueueDrains` under `FairSpec`. Three workers let a lease be lost, taken and lost again. |
| `lifecycle_server` | 2 runs, one on Kubernetes and one managed; status requests; the server may stop twice | the status column refines `RunContract` (`KeepsContract`); `NoStuckRun`, `RecordsCurrent`; `EveryRunEnds`. Two stops are needed for a record to outlive two instances. |
| `lifecycle_shared` | 1 run, server and CLI worker, all faults | `SingleExecution` within leases, and `KeepsQueue`: the lifecycle implements `RunQueue` when two processes share the database. |
| `terminal_reversal` | 1 run, failing submission | *violation* of `TerminalIsFinal`. |
| `collab` | 2 sockets, a saver, 1 update, 1 Git operation, numbers up to 4 | `DeliveredIsDurable`, `JoinIsGapless`, `LiveDelivery`. `Bundle` and `Period` are lowered so that folding and compaction happen within four events. |
| `scheduler` | 2 loops, 1 schedule that fires in minutes 1 and 2 of 3, 3 starts, all policies | `StartedOnceInOrder`, `NoOverlap`, `DueIsClaimed`, `RecoveredAtStart`. Three minutes let one loop fall behind another by a whole firing. |
| `workspace` | 2 users of one server, 2 branches, 2 graphs, 2 revisions, 2 external events, history of 1 | `TypeOK`, `OwnedCodeMatches`, `SavesSeeTheirBase`, `SettledIsKept`, `HandEditsKept`, `EditorsSeeEachOther`. All are also proved for every size, `SavesSeeTheirBase` for one process: see section 5. |
| `compiler` | every document that can be drawn from six palettes of up to eight nodes and fourteen edges; event logs of up to four events of five kinds; limits of two and three rows, one and two tasks | `GraphQueriesExact`, `PythonNamesResolve`, `StreamsOnlyWhereAllowed`, `BackendsAgree`, `ImportReadsGenerated`, `PreviewsAreBounded`, `PythonOnlyForCause`, `TracedRowsAreReal`, `BoundedSummaryAgrees`; `ContractsProtectReaders` as an assumption TLC evaluates. |
| `reconcile` | 2 definitions of 8 nodes and 9 statements, the second reading the first; Python or SQL, 2 values, 2 saves, 1 edit | `ReadableEditsAreTaken`, `ReconcilesWhatItReplaces`. The statements have every way a line can be read into what it does not show: a dataset read elsewhere, a split with the only WHERE of the SQL, a chain of renames, two ids of one tail, a change feed whose decorator has keys. Two saves let a document change and change back under a request; what several edits of one text do is left to the proofs. |
| `repository` | 2 branches, 1 tag, 3 versions, 2 commits and one by others, 1 stash entry | `MarkersStayOut`, `CommitsSurvive`, `EditsSurviveGit`. Three versions are what a conflict needs: the common one, ours and theirs; in a conflict up to two more (`Bound`) let an edit meet its resolution. |
| `repository_conflict` | the same | *violation* of `ConflictsCanBeResolved`. |
| `administration` | 1 secret, 2 keys, 2 profiles, 2 requests at a time, 2 values, 3 starts, 3 adapters and 3 configurations | `SecretsResolve`, `ProfilesAreValid`, `LastLocalIsKept`. Three starts are a change of key and a return to it. |

The palettes of `compiler` are chosen by what the passes distinguish: splits, two-sided
operators, streams, datasets that read datasets, what is malformed or unknown, and the
operators a row trace interprets. Every subset of a palette's edges is a document, most
of them incomplete and some cyclic; a strict palette keeps to one edge per port.

Runs with `CHECK_DEADLOCK FALSE` may stop because a bound is used up (minutes, numbers,
revisions, boots, starts, edges) or because every run has ended; `queue` and the two of
Repository never stop and keep the check. Symmetry is used for interchangeable
sockets, loops, users, branches, graphs, keys and requests, never with a liveness
property.

**Bounds by name.** `MaxBoots` server stops (RunLifecycle) or process starts
(Scheduler); `MaxSeq` event numbers and `MaxGit` Git snapshots; `MaxMinute` the clock;
`MaxRev` revisions, `MaxEvents` file edits, Git operations and crashes, both of
Workspace; `MaxRev`, `MaxEdits` and `MaxValue` (what code can show) of Reconcile; `MaxVersions`, `MaxCommits`,
`MaxStashes` of Repository; `MaxValues` and `MaxStarts` of Administration.
`HistoryMax`, `Bundle`, `Period` and `CompactFrom` are settings or constants of the
program with small values.

**Fairness.** `RunQueue!Fairness`: a live worker's loop polls without end (`drain_runs`) and its
executor progresses (weak fairness per worker); nobody renews the lease of a dead worker, so it
runs out; workers do not crash for ever, for one that always wins the claim and dies
would. `RunLifecycle!Fairness`: threads and tasks progress, subprocesses end, a stopped
server is started again. Nothing is assumed about leases of live workers, about failures,
about status requests being made or about the order of actors. The other modules have
safety properties only: what their actors do is driven by people and by the clock.

## 4. What the checks found

Two violation runs disprove a sentence of the repository; `PROJECT.json` quotes it.

1. **`terminal_reversal`** `transition_run` reads and writes in two transactions. A
   submission that fails its run between a worker's read and write is overwritten: the
   failed run is prepared and executed.
2. **`repository_conflict`** `resolve_conflict` is a Git mutation, so it begins with a
   checkpoint, which loads the pipeline document; while the document holds conflict
   markers that load fails. The one way out is to edit the markers away by hand and stage
   the result.

Each passing property that limits itself with an "unless" names the event it has to leave
out: `lapsed`, `overtaken`, `backwards`, `foreign`, `stale`, `torn`, `spoiled`,
`bypassed`, `forsaken` are history variables for that. The modules hold these cases, and with
the limitation dropped TLC shows each of them:

- A run whose execution raises before the `try` of `execute_queued_local_run` stays
  queued, and `ORDER BY created_at LIMIT 1` offers it again: the runs behind it starve
  (`Poison`).
- A direct submission passes through `queued` without a claim; a worker on the same
  database claims it there and both spawn (`Direct`).
- A pipeline document anchors the collaboration log beyond Yjs updates it does not
  contain; `server/collab.py:25-27` promises a replay of them.
- A schedule's claim is refused only for the minute that is stored; a loop that is a
  minute behind starts an occurrence again (docs/guides/scheduling.md:3).
- A matching revision is taken for an unchanged document, though text edits keep the
  number and branches reuse it.
- A rotation that began before a put ends after it and writes the older value back.
- Two deletions of profiles at once, or an update of its adapter, take the last local
  profile.
- An edit written between the checkpoint of a conflict resolution and its checkout is in
  no snapshot.

Noticed while modelling, without a run:

- *Runs.* Cancellation does not cancel: `RuntimeDispatch.cancel` looks for handles that
  only runs it executes itself have, and for those it asks a runtime that did not spawn
  them; the API answers and nothing changes. A Kubernetes or Spark Connect schedule calls
  `ProfileRuntimeAdapter.submit`, which does not exist. `heartbeat_run` renews only
  queued rows, so the heartbeat ends with the first transition of a run.
- *Schedules.* `tick` compares cron expressions with the host's clock although
  `next_fire` uses the schedule's timezone; an exception in a tick ends the task.
- *Files.* `spark-pipeline.yaml` is generated and its hash stored but never checked for
  drift. A `generated.py` without a source map, as a clone may bring it, or with one that
  holds no hash is overwritten unchecked, although docs/guides/code-synchronization.md:5
  says "Generation refuses to overwrite a changed owned region unless ownership can be
  proven": `HandEditsKept` has it as its exception. "Create file" in the file editor sends
  no ETag and empties a file of that name (`web/src/features/explorer/FileEditor.tsx:82`),
  which `EditorsSeeEachOther` excepts. A deleted `generated.py` is refused as drift;
  deletion and renaming in the file editor take no lock.
- *Compilers.* An edge to a missing node, a cycle given to the planner, a plugin that
  cannot be constructed and a constant without an input end in a Python exception instead
  of a problem. The accepted branch of a split is referred to under a name nothing binds.
  Two nodes whose ids agree in the last eight characters bind one variable, so that what
  is read is whichever came last; a dataset `flow_x` and a sink `x` give two functions of
  one name, for identifiers are compared before the prefix is added
  (`python_backend.py:154`, `506-508`). Neither is refused, and `PythonNamesResolve` leaves
  both out.
  SQL drops sinks without a word and checks no names. The planner takes intersections and
  differences for unsupported by SQL, which supports them, and does not know most of what
  SQL refuses. A JDBC or query source with the streaming flag counts as streaming and is
  read as a batch. A preview passes over the branches of a split.
- *Import.* `@dp.table("x")` depends on itself, sinks are imported
  twice (alike, when no table is read for them), and the document of a directory has no
  edges between its datasets, nor to a source table that has the name of one. A change
  feed that SQL wrote is read back as a temporary view.
- *Reconciliation.* A generated text that nobody edited changes the document: defaults
  become explicit, a dataset or component input that another definition reads gets a
  `table`, the drop of a flattened struct `columns`, the rename of a posexplode `mapping`
  (`reconcile.py:246`, `306`, `275-279`). The generator reads none of these keys there, so
  the code stays as it was; in SQL the table and the predicate are stored as sqlglot
  renders them (`449`, `462`). The only WHERE or table of the first statement goes to the
  only filter or source of the document, also when another node wrote it (`447-462`). A
  decorator goes to the first node of any type with the name of its function, one without
  a target to a node without a name; a line goes to a node whose whole id is in its
  variable, which may be the tail of another's. Casts, the filters of a split and every
  method no branch reads pass silently, although `reconcile.py:61-63` says "Unsupported
  edits are explicitly reported as code-owned"; a document with groups, notes, quality
  checks, component outputs, custom code or a rename without pairs is always code-owned,
  for the lines it generates are not read. A text that renames nodes may go further each
  time it is posted. An older text that is posted takes newer visual edits back; after a
  hand edit that was saved to disk the reconciled document can no longer be generated.
- *Traces.* Joins match absent keys, ignore the kind of join, and one failing node ends a
  whole trace.
- *Access.* Accounts are changed in memory before the save that may fail.

## 5. Proofs

Proved with TLAPS, for any number of actors and objects and any value of the bounds, from
the assumption each module declares on its constants (`QueueAssumption`,
`LifecycleAssumption`, `CollaborationAssumption`, `SchedulerAssumption`,
`WorkspaceAssumption`, `RepositoryAssumption`, `ReconcileAssumption`,
`AdministrationAssumption`, `PalettesAssumption`, `LogsAssumption`). They say that names the code
distinguishes are different, that bounds and settings are natural numbers, that what TLC's
tables give has the shape the code reads, and that `Runs`, a document's nodes and its edges
are finite. TLC evaluates them in every run. Some theorems of RunLifecycle, and one of Workspace, have a deployment as a
hypothesis, where the code keeps a property only there; each holds of the instance whose
run checks the property, and the table says what happens elsewhere.

Every safety invariant and every action property of the modules with state is proved, and
those of the documents but for one of `Readers`. All arguments have the form `Init => IInv`, `IInv /\ [Next]_vars => IInv'`,
`IInv => Inv`, with one step per action; the tables name what `IInv` adds to `Inv` and why
it is needed.

`RunQueue_proofs`

| Theorem | Argument |
|---|---|
| `TypeCorrect` | `TypeOK` is inductive; `born` counts a subset of a finite set. |
| `LeaseSafety` (`KeptLeaseOwns`) | Not inductive alone: a claim takes a row whose lease has expired. `ExpiryRecorded` says that an expired lease of a queued row is recorded against the worker still on it, `FreshUnclaimed` that a row enters the queue unclaimed. |
| `ExecutionIsExclusive` | two workers that both own their row's name are equal |
| `ClaimsAreReturned` (`ClaimsHeld`) | inductive with the types: a release clears a row exactly when it names the worker that ends. |

`RunLifecycle_proofs`. `ControlInv` says at which points each kind of actor can be,
`BootInv` that a server that is down has no drain loop and no submission under way;
`TypeCorrect` is the types with these two.

| Theorem | Where | Argument |
|---|---|---|
| `TypeCorrect` | everywhere | |
| `QueueIsImplemented` (`KeepsQueue`) | `OneServer`: one drain loop, nobody submits directly, and the server may stop, so its loop is one of the workers RunQueue lets die | The mapping sends a status past `queued` to `left` and a worker at `dead` to `down`. `FreshInv`: a run that is not queued yet has no owner, job, process or record. `LeftInv`: whoever works on a run past the preflight has taken it out of the queue, so no later transition is seen by the queue. `DeadInv`: a stopped server's loop counts as crashed. A second drain loop would end and start in one step with the first, where RunQueue has a worker at a time; a direct submission takes a run through `queued` past the claim. |
| `RunsStartOnce` (`SingleExecution`) | `OneServer`, any fault | RunQueue's `LeaseSafety` holds here by the refinement (`Leases`, an instance of `RunQueue_proofs`), so two workers on a run mean a lapsed lease. `OnceInv`: a worker that keeps its lease is the only one that can have started its run. |
| `NobodyIsStuck` (`NoStuckRun`) | `Attended`: no worker process is killed, and a direct submission does not raise; otherwise an unfinished run is left to nobody until the server's next start | `HeldInv`: every unfinished run outside the queue has an actor responsible for it, or is on the sweep's list. It has to follow each handler an exception can escape to, for between two transitions nothing in the database says who has the run. |
| `RecordsAreCurrent` (`RecordsCurrent`) | no worker process is killed, for its record stays until the next start | `RecordsInv`: from the first step of a start, a record that is not on the list of orphans belongs to an actor that will remove it. |
| `ContractIsKept` (`KeepsContract`) | `ServerAlone`: the server's loop is the only worker, nobody submits directly, the store does not fail a submission's checks; the finding `terminal_reversal` breaks the last | `ValidInv`: who is between the read and the write of `transition_run` is alone with its run, so the status it checked is still there. Of the request and the resident worker, the event loop decides that they are never both there. |
| `OutcomesStay` (`TerminalIsFinal`) | `ServerAlone` | from the refinement: no transition of the table leaves a terminal state |

`Collaboration_proofs`

| Theorem | Argument |
|---|---|
| `TypeCorrect` | with `Numbered`: a handler that is about to insert has a number |
| `SharedIsDurable` (`DeliveredIsDurable`) | `DurableInv`: what a handler holds after its insert was inserted, and so was what it joined with. |
| `UpdatesReachTheJoined` (`LiveDelivery`) | `LiveInv`: who has joined and is not broken is in the group, from before its snapshot is read; savers bring no updates. |
| `JoinLeavesNoGap` (`JoinIsGapless`) | `LogInv`: until the anchor moves back, an accepted update is in the row it was inserted with or at most the anchor, and a compaction that was allowed still is. It rests on rows being removed only up to an anchor that was written first. `GaplessInv` carries the property through every step of a handler after its replay. |

`Scheduler_proofs`. `LoopsInv` is what a loop knows at each step of a tick.

| Theorem | Argument |
|---|---|
| `TypeCorrect` | |
| `OverlapIsRefused` (`NoOverlap`) | inductive with the types: a cancelled dispatch counts until its thread ends |
| `OccurrencesStartOnce` (`StartedOnceInOrder`) | `OrderInv`: until a loop claims a minute that another has left behind, nothing is begun or pending for a minute after the marker (`NothingAhead`), and what is pending is pending with one loop (`PendingOnce`). |
| `DueIsSeenTo` (`DueIsClaimed`) | `ClaimsInv`: a marker is a minute that was claimed, and a due schedule is still on a loop's list or claimed. A claim that is refused was made by another loop, and that is the case because refusal means equality of markers. |
| `MissedAreRecovered` (`RecoveredAtStart`) | `RecoveryInv`: during a first tick a run-once schedule is on the list or has no firing between its marker and the minute of the tick. |

`Workspace_proofs`. `Typed` adds to `TypeOK` what a request has read at each step
(`Shape`): after `Open` a document, after `Check` code and so on.

| Theorem | Argument |
|---|---|
| `TypeCorrect` | `Typed` is inductive, one case per action. |
| `GeneratedPairs` (`OwnedCodeMatches`) | `Pairs`: every commit is a pair of code and map (or an edited one), one session at a time writes, and when the checked-out commit holds edited code the tree has it too with the same map. The last part is what makes a branch change sound that replaces files one by one: of code and map, it can never take only the one that does not fit. |
| `HandEditsSurvive` (`HandEditsKept`) | `Mapped`: until somebody takes a map away or rewrites it (`spoiled`), the tree and every commit have one, of a graph. `LookedAt`: a generation past its check has seen code equal to its map, hence from a graph, or no map. |
| `EditorsAgree` (`EditorsSeeEachOther`) | `Puts`: past the comparison of ETags a session keeps the lock, and its file is as it read it unless `bypassed`, or it sent no ETag. |
| `SettledSurvives` (`SettledIsKept`) | `Newest`: while the newest snapshot suppresses others and the document is settled, it is of that document, for time makes a document settled only by making the newest snapshot old. Holds for several processes. |
| `SavesReplaceWhatWasRead` (`SavesSeeTheirBase`) | under the hypothesis `OneProcess`: with a command saving beside the server the check of the revision and the write are under different locks, and TLC shows a save that replaces what its author had not read. `Base`: while only saves have written, a request's view is the document or has a smaller revision. |

`editing` is one lock because only the server has the file editor, and `working`
likewise for Git; `locks` is one per process because commands save, too.

`Repository_proofs`

| Theorem | Argument |
|---|---|
| `TypeCorrect` | commits are a sequence of records of document and `line` |
| `MarkersStay` (`MarkersStayOut`) | `Clean`: while the document holds markers Git has the conflict in its index, and an operation that began with a checkpoint has a document without markers in the file, since the checkpoint had to load it and only operations write markers. |
| `EditsAreKept` (`EditsSurviveGit`) | `Clean` says that what a checkpoint kept is in the history. For each operation that writes the file: the file is what was kept, or Git refuses because it differs from the index, or it goes into the index, a stash or a commit. |
| `CommitsStay` (`CommitsSurvive`) | `CommitInv`: lines are closed under descent (`Ancestry`); what the last fetch saw is at the remote or given up (`Seen`), without which a pruned tracking branch would lose commits; and all that is left is reached from a branch, a tag or the remote (`Reachable`). A pull or push moves a branch to a commit whose line has the old one in it, a deletion without force one that another branch has in its line. |

`Documents_proofs`, on Reconcile. What the loop does to a configuration is shown by induction over the
statements, written with the set of positions up to which a fact holds
(`Induction`, from the least element of a set of numbers), since the library's induction
theorems take operators. `TakeLineFacts` says what a line leaves under each key of each
node, and four inductions follow from it. A node that no line can be read into keeps its
configuration (`LoopBeyond`). What the only line of a node says is not taken back
(`LoopTakes`). As long as names stay, lines go to the same nodes again and the last one
that is read into a key is the last again (`LoopAgain`). A generated text writes what was
not set, or what is read elsewhere, and under a key that the code shows of a node only
what it shows (`Unedited`). For SQL, clauses are never read into a name, and what matches
depends on names alone (`SameMatches`, `ClausesAgain`).

| Theorem | Argument |
|---|---|
| `TypeCorrect` | the concatenated definitions are a sequence of statements (`BodyType`), an edit leaves a sequence of lines, or of clauses |
| `EditsAreTaken` (`ReadableEditsAreTaken`) | `Answered`: an answer is the loop's result on the text as it stands, because every change of the text takes the answer back. |
| `ReplacesWhatItRead` (`ReconcilesWhatItReplaces`) | `Loaded`: a document with the revision a request has loaded is the one it has loaded. `OutcomeFacts` collects the inductions above. The property excepts texts that rename nodes (`NamesStay`) and, for generated texts, nodes that statements of others are read into under a key they show (`OwnKeys`); with either exception dropped TLC shows a save that breaks it. |

`Documents_proofs`, on GraphIndex and Compiler. The documents are finite but of any size,
with any nodes of any configuration; a cycle, an unknown operator or a missing field is
no exception. The argument has four layers.

*Loops.* `Iteration` is that a function of rounds does what a round does, from which
`WalkFacts` (a walk is the least closed set around its start), `AscendingFacts` (sorting
identifiers) and `TopologicalLoop` follow by induction on rounds. A walk takes as many
rounds as there are nodes; that this is enough is a count of what it has not reached.

*Queries.* Kahn's algorithm keeps `Kahn`: the in-degree of a node is the number of edges
into it that are not released, the queue has the nodes whose count came to 0, and no node
is listed twice. `Settled` is `Kahn` with the released edges those that leave a listed
node. At the end the queue is empty, and a node without a cycle before it that is not
listed has, in the least set closed under parents, one that is and should have been
released (`ListedExactly`). Components are the classes of an equivalence (`ClassShared`).

*Documents.* `OnCanvas`, inductive over `Draw`, says that the document has the palette's
nodes, that its edges join them, and that `lowered`, `python` and `sql` are of the
document as it is. Files are emitted only for a `Clean` document, one with no problem that
is an error; a clean document has known ports, an edge into each output and no cycle, and its view,
after lowering, has all of its nodes in an order in which parents come first (`Viewed`).
This is where the validation earns the compilers' trust: every later step uses the order
or the ports, and with a cycle or an edge to nothing there is neither.

*Compilers.* Scopes are least sets closed under parents up to the next dataset
(`ScopeFacts`), modes and expressibility are loops along the order that at each node
know all of its parents (`ModesFacts`, `ExpressibleFacts`).

| Theorem | Argument |
|---|---|
| `QueriesAreExact` | of every well-formed document whose edges join its nodes: the order, the cycle verdict, ancestors, descendants, components and the trace to the sources are what the closure of the edges says |
| `QueriesStayExact` (`GraphQueriesExact`) | of every document drawn |
| `NamesAlwaysResolve` (`PythonNamesResolve`) | a name a node uses is the name of a parent, which is in the same scope and earlier in the order (`EdgeVariable`, `StatementsInOrder`), and who binds it as well has the parent's tail; two functions of one name, both of datasets or both of sinks, are two outputs of one identifier, which `_semantic_problems` refuses, or would, were a name not skipped when it is empty: `PalettesAssumption` says an empty name is an unset one, which validation refuses |
| `StreamsStayWhereAllowed` (`StreamsOnlyWhereAllowed`) | what reads a stream makes everything behind it streaming (`StreamsReachTheOutput`), and a streaming materialized view is a problem; a document that passes the capabilities of a batch runtime has no streaming source at all |
| `BackendsAlwaysAgree` (`BackendsAgree`) | SQL refuses a document in which an output has a dataset behind it (`ExpressibleBehind`), so Python's scope, which stops at datasets, is all of the ancestors SQL reads |
| `PythonAlwaysForCause` (`PythonOnlyForCause`) | each reason the planner has for Python, the set operations apart, is a type or a port that has no expression, and that passes to everything behind it |
| `PreviewsStayBounded` (`PreviewsAreBounded`) | the scope of a preview has the ancestors of its root up to the next dataset; a stream among them is refused. `Root` says what the preview of an output computes: its only parent |

`Documents_proofs`, on Readers: the importers for every palette, the summaries for every
log of events and every limit.

| Theorem | Argument |
|---|---|
| `SummariesAgree` (`BoundedSummaryAgrees`) | a stage that gave up no task keeps all of them in their order, and a task replayed from time 0 has the duration, the run time and the bytes it had (`Alike`); what a summary says depends on nothing else (`AlikeSummaries`), so that the sums and the middle of the sorted durations need no unfolding |
| `GeneratedIsReadBack` (`ImportReadsGenerated`) | generated text has one decorated function per output and one call per sink (`PythonIsWritten`), and the reader finds one declaration for each (`DiscoverPlain`, `WrittenIsRead`); the tables a function reads are those of its scope, which are the ancestors in the document cut at datasets (`CutAncestors`, `TablesReadBack`); declarations differ in name because a document with two outputs of one name is refused (`NamesDiffer`), so that what is found can be counted through the concatenations (`CountConcat`, `ReadBackCounts`); the edges of the directory's document, both ways (`DirectoryFacts`); SQL by `DiscoverSql` and `SqlReadBack` |

`Administration_proofs`

| Theorem | Argument |
|---|---|
| `TypeCorrect` | each request holds what its first transaction read |
| `SecretsStayOpen` (`SecretsResolve`) | `RowsInv`: rows open, and are under the active key once a rotation has ended. `PutsInv`: a put in flight has encrypted with the active key. `RotationsInv`: a row that a rotation in flight is not going to write was put after it had read and has the active key; without it the end of a rotation would say nothing of such rows, and the next start might drop their key. |
| `ProfilesStayValid` (`ProfilesAreValid`) | `ProfilesInv`: an update in flight carries an adapter and a configuration that go together, whichever row it will overwrite. |
| `LastLocalStays` (`LastLocalIsKept`) | `DeletionsInv`: a deletion in flight had counted another local profile. |

**Only model-checked.** Liveness (`QueueDrains`, `EveryRunEnds`): the prover does not
reason about fairness. `ConflictsCanBeResolved` is about ENABLED, and is violated.
`TracedRowsAreReal` is a fold over rows with an operator of two arguments, and about the
text of numbers (`ToString`), which no prover here interprets; it also holds only of
palettes whose rows have the columns that the arguments name, which the run's palettes do
and no assumption says. `ContractsProtectReaders` compares
finite schemas. In
RunLifecycle, `SingleExecution`, `KeepsQueue` and the rest are not claimed outside the
deployments named above.

## 6. Not modelled

- Run lifecycle: cancellation, since it changes no state (section 4); a pod that an
  earlier run left under a configured `driver_name`; the deletion of a project under its
  runs.
- Collaboration: presence entries, roles, size limits, the browser's Yjs document.
- Scheduler: the evaluation of cron expressions, which is the constant `Fires`; changes
  of an expression; the run-now route.
- Workspace: `generate_sql`, deletion, renaming and directories in the editor, retention
  by age. Repository: reviews at a provider, which are HTTP; submodules and hooks.
- Compilers: the text of expressions and its quoting, the grammar that decides which
  code is one safe expression (a flag of the node here), YAML, notebooks. Debugging:
  plan analysis, quality reports, run comparison and bundles, which format data nothing
  reads back.
- Administration: encryption itself, and the bodies of adapters.
- Project catalogue, accounts and sessions, retention of runtime artifacts, reviews,
  observability: each is single rows one request writes, or agreement of one registry
  with one table; the hazards they share with runs are listed in `PROJECT.json`.
- Rendering, HTTP, authentication headers, Spark itself: text and external services, on
  which no property here depends.
- Migrations, scripts, images, plugins at import time: no state that changes afterwards.

## 7. Plan

1. *(done)* RunStates, RunContract, RunQueue, RunLifecycle with the status request;
   Collaboration; Scheduler; Workspace; Repository; Reconcile; Administration; Operators,
   GraphIndex, PipelineGraph, Codegen, Compiler, Import, RowTrace, SparkEvents; the proofs of
   section 5, which cover every safety property but one.
2. **Proofs**: the abstract specifications below, each with the refinement by its module;
   the hazards that section 4 shows at the edge of a theorem, as theorems of what does
   hold there (a run offered again after a failure keeps its place; between two stops of
   the server a stuck run is one that a killed worker left); `TracedRowsAreReal`, the one
   property of `Readers` that is left.
3. **Still to model**: the deletion of a project under its runs; cron (`schedule_matches`,
   `next_fire`, `_missed_since` against the set of matching minutes); retention by age;
   accounts in registry and table over failed saves and restarts.

Abstract specifications still worth stating: an occurrence that is pending, started or
skipped (for Scheduler), and a log that only grows (for Collaboration).
