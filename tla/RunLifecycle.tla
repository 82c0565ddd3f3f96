---------------------------- MODULE RunLifecycle ----------------------------
(***************************************************************************)
(* The life of runs, from submission to their terminal state, with every   *)
(* process that writes runs.status:                                        *)
(*   - a submission per run: an API call in a server thread, which leaves  *)
(*     the run to the queue (defer_execution), or, for a run in Direct, the *)
(*     command line or the schedule worker, which executes it itself;      *)
(*   - the workers of RunQueue, running execute_queued_local_run;          *)
(*   - the server itself, which at startup reconciles what the previous    *)
(*     instance left;                                                      *)
(*   - the status request for a run on Kubernetes, which asks for the pod  *)
(*     of its driver and writes what it learns (the actor Watcher).        *)
(* Each is an actor with a program counter.  transition_run is two         *)
(* database accesses, get_run and update_run, each in its own connection:  *)
(* Read checks the status, Write stores the target, and anything may happen*)
(* in between (mid[a] is TRUE there).                                      *)
(***************************************************************************)
EXTENDS RunStates, Naturals, FiniteSets

CONSTANTS
  Runs, Workers, Resident, Mortal, Poison, NoWorker, NoRun,  \* as in RunQueue
  Direct,     \* runs submitted without defer_execution
  Managed,    \* runs whose profile is a Databricks one
  Kubernetes, \* runs whose profile submits to Kubernetes, by a subprocess
  Server,     \* the server process as an actor
  Watcher,    \* the status requests of the server as an actor
  Faults,     \* the events of FaultKinds the environment may produce
  MaxBoots    \* bound: how often the server may stop or die

FaultKinds == {"unavailable", "lapse", "crash", "restart", "raise"}

ASSUME LifecycleAssumption ==
  /\ Resident \subseteq Workers /\ Mortal \subseteq Workers
  /\ Poison \subseteq Runs /\ Direct \subseteq Runs /\ Managed \subseteq Runs
  /\ Kubernetes \subseteq Runs \ Managed
  /\ NoWorker \notin Workers /\ NoRun \notin Runs
  /\ Workers \cap Runs = {} /\ Server \notin Workers \cup Runs
  /\ Watcher \notin Workers \cup Runs \cup {Server}
  /\ IsFiniteSet(Runs)
  /\ Faults \subseteq FaultKinds
  /\ MaxBoots \in Nat

\* The submission of run r is named r.
Actors == Workers \cup Runs \cup {Server, Watcher}

VARIABLES
  status, born, owner, expired,   \* columns of the runs table
  pc, mid, job,                   \* control of each actor, and its run
  live,      \* subprocesses: <<a, r>> was spawned by a for r and still runs
  pods,      \* runs that have a driver pod, finished or not
  marker,    \* [Runs -> Actors \cup {NoWorker}], run-artifacts/<r>/process.json
  todo,      \* the rows or markers a startup step has listed
  boots,     \* how often the server has gone down
  lapsed, crashed,   \* history, as in RunQueue
  started    \* history: who spawned r, workers only if within their lease

row == <<status, born, owner, expired>>
host == <<live, pods, marker>>
boot == <<todo, boots>>
history == <<lapsed, crashed, started>>
vars == <<row, pc, mid, job, host, boot, history>>

-----------------------------------------------------------------------------
(* Control points.  A point in Transitions calls transition_run with the   *)
(* target it names.                                                        *)

Target ==
  [ to_queued |-> "queued", to_preparing |-> "preparing",
    to_validating |-> "validating", to_submitting |-> "submitting",
    to_running |-> "running", to_collecting |-> "collecting_artifacts",
    to_succeeded |-> "succeeded", to_exit_failed |-> "failed",
    to_failed |-> "failed", to_failed_outer |-> "failed",
    to_failed_submit |-> "failed", to_cancelled |-> "cancelled",
    to_validation_failed |-> "validation_failed", to_lost |-> "lost",
    to_pod_collecting |-> "collecting_artifacts", to_pod_succeeded |-> "succeeded",
    to_pod_failed |-> "failed" ]

Transitions == DOMAIN Target

PC == Transitions \cup
  { "new", "checks", "ended",                          \* a submission
    "idle", "preflight", "on_error", "release", "abort", "dead",   \* a worker
    "secrets", "spawn", "mark", "await", "artifacts", "wrapup",
    "validate", "remote", "cleanup", "cleanup_raise", "cleanup_cancel",
    "up", "stopping", "down", "orphans", "unmark", "sweep_write",
    "starting", "watching" }

IsWorker(a) == a \in Workers
IsManaged(a) == job[a] \in Managed

\* Where an executor goes when its work on the run is over: a worker returns
\* to poll_once_async, a submission's own task just ends.
Over(a) == IF IsWorker(a) THEN "release" ELSE "ended"

\* An exception leaves the executor: the outer handler of
\* execute_queued_local_run encloses the local path only.
Escape(a) ==
  CASE ~IsWorker(a) -> "ended"
    [] IsWorker(a) /\ IsManaged(a) -> "abort"
    [] OTHER -> "on_error"

\* After transition_run has returned.
AfterWrite(a) ==
  CASE pc[a] = "to_queued" /\ a \in Direct -> "to_preparing"
    [] pc[a] = "to_queued" /\ a \notin Direct ->
         IF IsManaged(a) THEN "ended" ELSE "checks"
    [] pc[a] = "to_preparing" -> "to_validating"
    [] pc[a] = "to_validating" ->
         IF IsWorker(a) \/ IsManaged(a) THEN "to_submitting" ELSE "checks"
    [] pc[a] = "to_submitting" ->
         IF IsManaged(a) THEN "validate"
         ELSE IF IsWorker(a) THEN "secrets" ELSE "to_running"
    [] pc[a] = "to_running" -> IF IsManaged(a) THEN "to_collecting" ELSE "spawn"
    [] pc[a] = "to_collecting" -> IF IsManaged(a) THEN "to_succeeded" ELSE "artifacts"
    [] pc[a] \in {"to_succeeded", "to_exit_failed"} ->
         IF IsManaged(a) THEN "cleanup" ELSE "wrapup"
    [] pc[a] \in {"to_failed", "to_validation_failed"} -> "cleanup"
    [] pc[a] = "to_cancelled" -> "cleanup_cancel"
    [] pc[a] = "to_failed_outer" -> "abort"
    [] pc[a] = "to_failed_submit" -> "ended"
    [] pc[a] = "to_lost" -> "unmark"
    [] pc[a] = "to_pod_collecting" -> "to_pod_succeeded"
    [] pc[a] \in {"to_pod_succeeded", "to_pod_failed"} -> "watching"

\* After transition_run has raised ValueError.
AfterInvalid(a) ==
  CASE pc[a] \in {"to_queued", "to_failed_submit"} -> "ended"
    [] pc[a] \in {"to_preparing", "to_validating"} -> Escape(a)
    [] pc[a] \in {"to_submitting", "to_running"} ->
         IF IsManaged(a) THEN "to_failed" ELSE Escape(a)
    [] pc[a] \in {"to_collecting", "to_succeeded", "to_exit_failed",
                  "to_validation_failed"} -> "to_failed"
    [] pc[a] \in {"to_failed", "to_cancelled"} -> "cleanup_raise"
    [] pc[a] = "to_failed_outer" -> "abort"
    [] pc[a] = "to_lost" -> "down"
    [] OTHER -> "watching"      \* kubernetes_status takes it for bad JSON

Goto(a, point) == pc' = [pc EXCEPT ![a] = point]
SetStatus(r, s) == status' = [status EXCEPT ![r] = s]

-----------------------------------------------------------------------------
TypeOK ==
  /\ status \in [Runs -> Status \cup {"absent"}]
  /\ born \in [Runs -> Nat]
  /\ owner \in [Runs -> Workers \cup {NoWorker}]
  /\ expired \in [Runs -> BOOLEAN]
  /\ pc \in [Actors -> PC]
  /\ mid \in [Actors -> BOOLEAN]
  /\ job \in [Actors -> Runs \cup {NoRun}]
  /\ live \subseteq Actors \X Runs /\ pods \subseteq Kubernetes
  /\ marker \in [Runs -> Actors \cup {NoWorker}]
  /\ todo \subseteq Runs
  /\ boots \in 0..MaxBoots
  /\ lapsed \subseteq Workers /\ crashed \subseteq Workers
  /\ started \in [Runs -> SUBSET Actors]

Init ==
  /\ status = [r \in Runs |-> "absent"]
  /\ born = [r \in Runs |-> 0]
  /\ owner = [r \in Runs |-> NoWorker]
  /\ expired = [r \in Runs |-> FALSE]
  /\ pc = [a \in Actors |-> IF a \in Runs THEN "new"
                            ELSE IF a \in Workers THEN "idle"
                            ELSE IF a = Server THEN "up" ELSE "watching"]
  /\ mid = [a \in Actors |-> FALSE]
  /\ job = [a \in Actors |-> IF a \in Runs THEN a ELSE NoRun]
  /\ live = {} /\ pods = {}
  /\ marker = [r \in Runs |-> NoWorker]
  /\ todo = {}
  /\ boots = 0
  /\ lapsed = {} /\ crashed = {}
  /\ started = [r \in Runs |-> {}]

-----------------------------------------------------------------------------
(* transition_run, for every actor.                                        *)

\* Mutant of Read: update_run is called without the check.
ReadUnchecked(a) ==
  /\ pc[a] \in Transitions /\ ~mid[a]
  /\ mid' = [mid EXCEPT ![a] = TRUE]
  /\ UNCHANGED <<row, pc, job, host, boot, history>>

\* get_run and the check of RUN_TRANSITIONS.
Read(a) ==
  /\ pc[a] \in Transitions /\ ~mid[a]
  /\ IF IsValidTransition(status[job[a]], Target[pc[a]])
     THEN mid' = [mid EXCEPT ![a] = TRUE] /\ UNCHANGED pc
     ELSE Goto(a, AfterInvalid(a)) /\ UNCHANGED mid
  /\ UNCHANGED <<row, job, host, boot, history>>

\* update_run: UPDATE runs SET status=? WHERE id=?, whatever the row holds now.
Write(a) ==
  /\ pc[a] \in Transitions /\ mid[a]
  /\ SetStatus(job[a], Target[pc[a]])
  /\ mid' = [mid EXCEPT ![a] = FALSE]
  /\ Goto(a, AfterWrite(a))
  /\ UNCHANGED <<born, owner, expired, job, host, boot, history>>

-----------------------------------------------------------------------------
(* LocalRuntime.submit.                                                    *)

\* The INSERT of create_run.  API calls are served while the server is up.
Submit(r) ==
  /\ pc[r] = "new"
  /\ r \in Direct \/ pc[Server] = "up"
  /\ SetStatus(r, "created")
  /\ born' = [born EXCEPT ![r] = 1 + Cardinality({q \in Runs : born[q] # 0})]
  /\ Goto(r, "to_queued")
  /\ UNCHANGED <<owner, expired, mid, job, host, boot, history>>

\* Probe result, secret resolution and command construction: any of them may
\* fail the run; otherwise a deferred submission returns.
Checks(r) ==
  /\ pc[r] = "checks"
  /\ \/ "unavailable" \in Faults /\ Goto(r, "to_failed_submit")
     \/ Goto(r, IF r \in Direct THEN "to_submitting" ELSE "ended")
  /\ UNCHANGED <<row, mid, job, host, boot, history>>

-----------------------------------------------------------------------------
(* The worker loop around an execution (RunQueue has it on its own).  No   *)
(* Heartbeat appears: execute_queued_local_run reaches its first await only *)
(* after the run has left 'queued', so the heartbeat task of the same event *)
(* loop finds no row to renew.                                             *)

\* Mutant of Claimable: the lease of another worker is ignored.
ClaimableIgnoringLease(r) == status[r] = "queued"

Claimable(r) == status[r] = "queued" /\ (owner[r] = NoWorker \/ expired[r])

FirstClaimable(r) ==
  Claimable(r) /\ \A q \in Runs : Claimable(q) => born[r] <= born[q]

Claim(w, r) ==
  /\ pc[w] = "idle"
  /\ w \in Resident => pc[Server] = "up"
  /\ FirstClaimable(r)
  /\ owner' = [owner EXCEPT ![r] = w]
  /\ expired' = [expired EXCEPT ![r] = FALSE]
  /\ job' = [job EXCEPT ![w] = r]
  /\ lapsed' = lapsed \ {w}
  /\ Goto(w, "preflight")
  /\ UNCHANGED <<status, born, mid, host, boot, crashed, started>>

\* Profile lookup, directories and command construction come before the try
\* block: if one raises, the run is still 'queued'.
Preflight(w) ==
  /\ pc[w] = "preflight"
  /\ Goto(w, IF job[w] \in Poison THEN "abort" ELSE "to_preparing")
  /\ UNCHANGED <<row, mid, job, host, boot, history>>

\* Mutant of OnError: the exception is re-raised and the run left as it is.
OnErrorIgnored(w) ==
  /\ pc[w] = "on_error"
  /\ Goto(w, "abort")
  /\ UNCHANGED <<row, mid, job, host, boot, history>>

\* except Exception: fail the run unless it is already finished.
OnError(w) ==
  /\ pc[w] = "on_error"
  /\ Goto(w, IF status[job[w]] \in Terminal THEN "abort" ELSE "to_failed_outer")
  /\ UNCHANGED <<row, mid, job, host, boot, history>>

\* Mutant of Release: WHERE id=?, without the token.
ReleaseAnyToken(w) ==
  /\ pc[w] \in {"release", "abort"}
  /\ owner' = [owner EXCEPT ![job[w]] = NoWorker]
  /\ expired' = [expired EXCEPT ![job[w]] = FALSE]
  /\ job' = [job EXCEPT ![w] = NoRun]
  /\ lapsed' = lapsed \ {w}
  /\ Goto(w, IF pc[w] = "abort" /\ w \notin Resident THEN "dead" ELSE "idle")
  /\ UNCHANGED <<status, born, mid, host, boot, crashed, started>>

\* Mutant of Release: drain_runs does not catch what an execution raises.
ReleaseEndsLoop(w) ==
  /\ pc[w] \in {"release", "abort"}
  /\ IF owner[job[w]] = w
     THEN /\ owner' = [owner EXCEPT ![job[w]] = NoWorker]
          /\ expired' = [expired EXCEPT ![job[w]] = FALSE]
     ELSE UNCHANGED <<owner, expired>>
  /\ job' = [job EXCEPT ![w] = NoRun]
  /\ lapsed' = lapsed \ {w}
  /\ Goto(w, IF pc[w] = "abort" THEN "dead" ELSE "idle")
  /\ UNCHANGED <<status, born, mid, host, boot, crashed, started>>

\* release_run_claim after a return ("release") or an exception ("abort"),
\* which ends a CLI worker.
Release(w) ==
  /\ pc[w] \in {"release", "abort"}
  /\ IF owner[job[w]] = w
     THEN /\ owner' = [owner EXCEPT ![job[w]] = NoWorker]
          /\ expired' = [expired EXCEPT ![job[w]] = FALSE]
     ELSE UNCHANGED <<owner, expired>>
  /\ job' = [job EXCEPT ![w] = NoRun]
  /\ lapsed' = lapsed \ {w}
  /\ Goto(w, IF pc[w] = "abort" /\ w \notin Resident THEN "dead" ELSE "idle")
  /\ UNCHANGED <<status, born, mid, host, boot, crashed, started>>

Lapse(r) ==
  /\ "lapse" \in Faults
  /\ owner[r] # NoWorker /\ ~expired[r]
  /\ expired' = [expired EXCEPT ![r] = TRUE]
  /\ lapsed' = IF status[r] = "queued" /\ job[owner[r]] = r
               THEN lapsed \cup {owner[r]} ELSE lapsed
  /\ UNCHANGED <<status, born, owner, pc, mid, job, host, boot,
                 crashed, started>>

-----------------------------------------------------------------------------
(* Execution of a local run: execute_queued_local_run and                  *)
(* LocalRuntime._execute.                                                  *)

\* At one of these points an exception is caught where Handler says.
Handler(a) ==
  CASE pc[a] = "secrets" -> {Escape(a)}
    [] pc[a] = "spawn" -> {Escape(a), "to_failed"}   \* the event before the try, or the spawn
    [] pc[a] \in {"await", "artifacts", "wrapup", "validate", "remote"} -> {"to_failed"}
    [] OTHER -> {}

Fail(a) ==
  /\ "raise" \in Faults
  /\ \E point \in Handler(a) : Goto(a, point)
  /\ UNCHANGED <<row, mid, job, host, boot, history>>

ResolveSecrets(a) ==
  /\ pc[a] = "secrets"
  /\ Goto(a, "to_running")
  /\ UNCHANGED <<row, mid, job, host, boot, history>>

\* create_subprocess_exec; spark-submit creates the driver pod.
Spawn(a) ==
  /\ pc[a] = "spawn"
  /\ live' = live \cup {<<a, job[a]>>}
  /\ pods' = pods \cup ({job[a]} \cap Kubernetes)
  /\ started' = IF a \in lapsed THEN started
                ELSE [started EXCEPT ![job[a]] = @ \cup {a}]
  /\ Goto(a, "mark")
  /\ UNCHANGED <<row, mid, job, marker, boot, lapsed, crashed>>

\* process.json is written after the process runs.
Mark(a) ==
  /\ pc[a] = "mark"
  /\ marker' = [marker EXCEPT ![job[a]] = a]
  /\ Goto(a, "await")
  /\ UNCHANGED <<row, mid, job, live, pods, boot, history>>

\* A subprocess ends by itself, whoever still waits for it.
ProcessEnds(p) ==
  /\ p \in live
  /\ live' = live \ {p}
  /\ UNCHANGED <<row, pc, mid, job, pods, marker, boot, history>>

\* The output is at its end and wait() has returned.
Exited(a) ==
  /\ pc[a] = "await"
  /\ <<a, job[a]>> \notin live
  /\ Goto(a, "to_collecting")
  /\ UNCHANGED <<row, mid, job, host, boot, history>>

\* Plan artifacts and node snapshots are stored, then the exit code decides.
Artifacts(a) ==
  /\ pc[a] = "artifacts"
  /\ \E point \in {"to_succeeded", "to_exit_failed"} : Goto(a, point)
  /\ UNCHANGED <<row, mid, job, host, boot, history>>

\* Final events and the event-log summary follow the terminal status.
Wrapup(a) ==
  /\ pc[a] = "wrapup"
  /\ Goto(a, "cleanup")
  /\ UNCHANGED <<row, mid, job, host, boot, history>>

\* The finally block, after a return, an exception or a cancellation.  The
\* cancelled worker leaves poll_once_async without releasing its claim.
Cleanup(a) ==
  /\ pc[a] \in {"cleanup", "cleanup_raise", "cleanup_cancel"}
  /\ marker' = IF IsManaged(a) THEN marker
               ELSE [marker EXCEPT ![job[a]] = NoWorker]
  /\ CASE pc[a] = "cleanup" -> Goto(a, Over(a)) /\ UNCHANGED <<job, lapsed, crashed>>
       [] pc[a] = "cleanup_raise" -> Goto(a, Escape(a)) /\ UNCHANGED <<job, lapsed, crashed>>
       [] pc[a] = "cleanup_cancel" ->
            /\ Goto(a, "dead")
            /\ job' = [job EXCEPT ![a] = NoRun]
            /\ lapsed' = lapsed \ {a}
            /\ crashed' = crashed \cup {a}
  /\ UNCHANGED <<row, mid, live, pods, boot, started>>

-----------------------------------------------------------------------------
(* Execution of a managed run: execute_managed_databricks.                 *)

Validate(a) ==
  /\ pc[a] = "validate"
  /\ \E point \in {"remote", "to_validation_failed"} : Goto(a, point)
  /\ UNCHANGED <<row, mid, job, host, boot, history>>

\* submit, stream_events and status of the adapter.
Remote(a) ==
  /\ pc[a] = "remote"
  /\ \E point \in {"to_running", "to_exit_failed"} : Goto(a, point)
  /\ UNCHANGED <<row, mid, job, host, boot, history>>

-----------------------------------------------------------------------------
(* The status request: kubernetes_status.                                  *)

\* The tasks of the server's event loop are at an await: the drain loop, whose
\* worker is resident, and the requests.  Nothing of what they do up to the
\* next await is seen half done by each other; threads and processes see it.
EventLoopFree ==
  /\ \A w \in Resident : pc[w] \in {"idle", "spawn", "await", "validate", "remote", "dead"}
  /\ pc[Watcher] = "watching"
MayRun(a) == a \in Resident => pc[Watcher] = "watching"

\* kubectl has answered with the phase of the driver pod.  A pod that still
\* runs, and a run that is finished, change nothing.
Watch(r) ==
  /\ r \in pods
  /\ pc[Server] = "up" /\ EventLoopFree
  /\ status[r] \notin Terminal
  /\ \E point \in {"to_pod_failed",
                   IF status[r] = "running" THEN "to_pod_collecting" ELSE "to_pod_succeeded"} :
       Goto(Watcher, point)
  /\ job' = [job EXCEPT ![Watcher] = r]
  /\ UNCHANGED <<row, mid, host, boot, history>>

-----------------------------------------------------------------------------
(* Processes stop and start.                                               *)

\* The actors that live in the server process.
InServer == Resident \cup (Runs \ Direct) \cup {Watcher}

Killed(a) ==
  IF a \in Workers THEN "dead"
  ELSE IF a = Watcher THEN "watching"
  ELSE IF pc[a] = "new" THEN "new" ELSE "ended"

\* The actors in A die where they are; subprocesses survive them.
Die(A) ==
  /\ pc' = [a \in Actors |-> IF a = Server /\ A \cap InServer # {} THEN "down"
                             ELSE IF a \in A THEN Killed(a) ELSE pc[a]]
  /\ mid' = [a \in Actors |-> IF a \in A \/ (a = Server /\ A \cap InServer # {})
                              THEN FALSE ELSE mid[a]]
  /\ job' = [a \in Actors |-> IF a \in A \cap Workers THEN NoRun ELSE job[a]]
  /\ lapsed' = lapsed \ A
  /\ crashed' = crashed \cup (A \cap Workers)

\* A CLI worker, or the command line of a direct run, is killed.
Crash(a) ==
  /\ "crash" \in Faults
  /\ a \in (Mortal \ Resident) \cup Direct
  /\ pc[a] \notin {"dead", "new", "ended"}
  /\ Die({a})
  /\ UNCHANGED <<row, host, boot, started>>

\* A CLI worker is started again.
Restart(w) ==
  /\ w \in Workers \ Resident /\ pc[w] = "dead"
  /\ Goto(w, "idle")
  /\ UNCHANGED <<row, mid, job, host, boot, history>>

\* The server process is killed, at work or during its startup.
ServerCrash ==
  /\ "restart" \in Faults /\ boots < MaxBoots
  /\ pc[Server] # "down"
  /\ boots' = boots + 1
  /\ todo' = {}
  /\ Die(InServer)
  /\ UNCHANGED <<row, host, started>>

\* Lifespan shutdown cancels the drain task, which stops at an await: the
\* executor of a local run handles CancelledError, that of a managed one does
\* not.  The subprocess is not terminated.
Shutdown ==
  /\ "restart" \in Faults /\ boots < MaxBoots
  /\ pc[Server] = "up"
  /\ EventLoopFree
  /\ pc' = [a \in Actors |->
              IF a = Server THEN "stopping"
              ELSE IF a \in Resident
                   THEN IF pc[a] \in {"spawn", "await"} THEN "to_cancelled" ELSE "dead"
                   ELSE pc[a]]
  /\ job' = [a \in Actors |-> IF a \in Resident /\ pc[a] \notin {"spawn", "await"}
                              THEN NoRun ELSE job[a]]
  /\ lapsed' = lapsed \ {w \in Resident : job[w] # NoRun /\ job'[w] = NoRun}
  /\ crashed' = crashed \cup {w \in Resident : job'[w] = NoRun}
  /\ UNCHANGED <<row, mid, host, boot, started>>

\* The process ends when its tasks and threads have.
ServerExit ==
  /\ pc[Server] = "stopping"
  /\ \A w \in Resident : pc[w] = "dead" \/ pc[w] = "idle"
  /\ \A r \in Runs \ Direct : pc[r] \in {"new", "ended"}
  /\ boots < MaxBoots
  /\ boots' = boots + 1
  /\ pc' = [a \in Actors |-> IF a = Server THEN "down"
                             ELSE IF a \in Resident THEN "dead" ELSE pc[a]]
  /\ crashed' = crashed \cup Resident
  /\ UNCHANGED <<row, mid, job, host, todo, lapsed, started>>

\* Startup, first step: list the process records.
Boot ==
  /\ pc[Server] = "down"
  /\ todo' = {r \in Runs : marker[r] # NoWorker}
  /\ Goto(Server, "orphans")
  /\ UNCHANGED <<row, mid, job, host, boots, history>>

\* Mutant of Orphan: the record of a finished run is left on disk.
OrphanKeepsRecord(r) ==
  /\ pc[Server] = "orphans" /\ r \in todo
  /\ todo' = todo \ {r}
  /\ IF marker[r] = NoWorker \/ status[r] \in Terminal
     THEN UNCHANGED <<live, pc, job>>
     ELSE /\ live' = live \ {<<marker[r], r>>}
          /\ job' = [job EXCEPT ![Server] = r]
          /\ Goto(Server, "to_lost")
  /\ UNCHANGED <<row, mid, pods, marker, boots, history>>

\* reconcile_orphaned_processes, one record: SIGTERM to the pid, then get_run.
Orphan(r) ==
  /\ pc[Server] = "orphans" /\ r \in todo
  /\ todo' = todo \ {r}
  /\ IF marker[r] = NoWorker
     THEN UNCHANGED <<live, marker, pc, job>>
     ELSE /\ live' = live \ {<<marker[r], r>>}
          /\ IF status[r] \in Terminal
             THEN marker' = [marker EXCEPT ![r] = NoWorker] /\ UNCHANGED <<pc, job>>
             ELSE /\ job' = [job EXCEPT ![Server] = r]
                  /\ Goto(Server, "to_lost")
                  /\ UNCHANGED marker
  /\ UNCHANGED <<row, mid, pods, boots, history>>

Unmark ==
  /\ pc[Server] = "unmark"
  /\ marker' = [marker EXCEPT ![job[Server]] = NoWorker]
  /\ Goto(Server, "orphans")
  /\ UNCHANGED <<row, mid, job, live, pods, boot, history>>

\* reconcile_non_terminal_runs reads every status, in autocommit or at READ
\* COMMITTED ...
Sweep ==
  /\ pc[Server] = "orphans" /\ todo = {}
  /\ todo' = {r \in Runs : status[r] \notin Terminal \cup {"absent"}}
  /\ Goto(Server, "sweep_write")
  /\ UNCHANGED <<row, mid, job, host, boots, history>>

\* ... and writes 'lost' to the rows it selected.
SweepWrite ==
  /\ pc[Server] = "sweep_write"
  /\ status' = [r \in Runs |-> IF r \in todo THEN "lost" ELSE status[r]]
  /\ todo' = {}
  /\ Goto(Server, "starting")
  /\ UNCHANGED <<born, owner, expired, mid, job, host, boots, history>>

\* The drain task is created and requests are served.
ServerUp ==
  /\ pc[Server] = "starting"
  /\ pc' = [a \in Actors |-> IF a = Server THEN "up"
                             ELSE IF a \in Resident THEN "idle" ELSE pc[a]]
  /\ UNCHANGED <<row, mid, job, host, boot, history>>

-----------------------------------------------------------------------------
Step(a) ==
  /\ MayRun(a)
  /\ \/ Read(a) \/ Write(a) \/ Fail(a)
     \/ Spawn(a) \/ Mark(a) \/ Exited(a) \/ Artifacts(a) \/ Wrapup(a) \/ Cleanup(a)
     \/ ResolveSecrets(a) \/ Validate(a) \/ Remote(a)

WorkerStep(w) ==
  /\ MayRun(w)
  /\ \/ \E r \in Runs : Claim(w, r)
     \/ Preflight(w) \/ OnError(w) \/ Release(w)

Startup ==
  Boot \/ Unmark \/ Sweep \/ SweepWrite \/ ServerUp \/ ServerExit \/ \E r \in Runs : Orphan(r)

Next ==
  \/ \E a \in Actors : Step(a) \/ Crash(a)
  \/ \E r \in Runs : Submit(r) \/ Checks(r) \/ Lapse(r) \/ Watch(r)
  \/ \E w \in Workers : WorkerStep(w) \/ Restart(w)
  \/ \E p \in Actors \X Runs : ProcessEnds(p)
  \/ ServerCrash \/ Shutdown \/ Startup

Spec == Init /\ [][Next]_vars

\* Threads and event loops make progress, subprocesses end, and a stopped
\* server is started again.
Fairness ==
  /\ \A a \in Actors : WF_vars(Step(a))
  /\ \A w \in Workers : WF_vars(WorkerStep(w))
  /\ \A r \in Runs : WF_vars(Checks(r))
  /\ \A p \in Actors \X Runs : WF_vars(ProcessEnds(p))
  /\ WF_vars(Startup)

FairSpec == Spec /\ Fairness

-----------------------------------------------------------------------------
(* Properties.                                                             *)

Contract == INSTANCE RunContract

Queue == INSTANCE RunQueue WITH
  phase <- [r \in Runs |-> IF status[r] \in {"absent", "created", "queued"}
                           THEN status[r] ELSE "left"],
  job <- [w \in Workers |-> job[w]],
  down <- {w \in Workers : pc[w] = "dead"}

\* The status column only ever moves along RUN_TRANSITIONS, whoever writes it.
KeepsContract == Contract!Spec

\* The workers, submissions and restarts use the queue as RunQueue has it.
KeepsQueue == Queue!Spec

\* A finished run keeps its outcome
\* (test_run_transition_guard_rejects_terminal_state_reversal).
TerminalIsFinal == Contract!TerminalIsFinal

Unfinished == Status \ Terminal

Executing(a, r) == job[a] = r /\ pc[a] \notin {"new", "idle", "dead", "ended", "watching"}

\* Once the server is up, an unfinished run that is not waiting in the queue
\* is in somebody's hands: no failure, shutdown or restart leaves it to nobody.
NoStuckRun ==
  pc[Server] = "up" =>
    \A r \in Runs : status[r] \in Unfinished \ {"queued"} =>
      \E a \in Actors \ {Server} : Executing(a, r)

\* A run is started once, unless its lease expires under a worker
\* (test_durable_worker_claims_and_executes_once).
SingleExecution ==
  \A r \in Runs : \A a, b \in started[r] : a = b

\* Startup leaves no process record of an earlier instance: while the server
\* is up a record names the execution that is writing it.
RecordsCurrent ==
  pc[Server] = "up" =>
    \A r \in Runs : marker[r] # NoWorker => Executing(marker[r], r)

\* Every run that was submitted reaches a terminal state.
EveryRunEnds == \A r \in Runs : status[r] = "created" ~> status[r] \in Terminal
=============================================================================
