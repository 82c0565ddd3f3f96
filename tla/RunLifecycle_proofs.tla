------------------------- MODULE RunLifecycle_proofs -------------------------
(***************************************************************************)
(* Proofs about RunLifecycle for any number of runs, workers and restarts. *)
(* What only some deployments keep is proved for those: each theorem names *)
(* the ones it is about.                                                   *)
(***************************************************************************)
EXTENDS RunLifecycle, FiniteSetTheorems, TLAPS

-----------------------------------------------------------------------------
(* Where an actor can be, and what it then has in hand.                    *)

ServerPoints ==
  {"up", "stopping", "down", "orphans", "to_lost", "unmark", "sweep_write", "starting"}

WatcherPoints == {"watching", "to_pod_collecting", "to_pod_succeeded", "to_pod_failed"}

\* A submission that leaves its run to the queue.
DeferredPoints == {"new", "to_queued", "checks", "to_failed_submit", "ended"}

ExecutionPoints ==
  {"to_preparing", "to_validating", "to_submitting", "to_running", "to_collecting",
   "to_succeeded", "to_exit_failed", "to_failed", "to_validation_failed", "spawn", "mark",
   "await", "artifacts", "wrapup", "validate", "remote", "cleanup", "cleanup_raise"}

WorkerPoints == ExecutionPoints \cup
  {"idle", "preflight", "on_error", "release", "abort", "dead", "secrets",
   "to_failed_outer", "to_cancelled", "cleanup_cancel"}

\* Nothing is in hand there.
Free == {"idle", "dead", "watching", "up", "stopping", "down", "orphans", "sweep_write",
         "starting"}

\* Only the execution of a local run gets there.
LocalPoints == {"secrets", "spawn", "mark", "await", "artifacts"}

PointOK(a, r, point) ==
  /\ a = Server => point \in ServerPoints
  /\ a = Watcher => point \in WatcherPoints
  /\ a \in Runs \ Direct => point \in DeferredPoints
  /\ a \in Direct => point \in ExecutionPoints \cup DeferredPoints
  /\ a \in Workers => point \in WorkerPoints
  /\ point \in {"idle", "dead"} => r = NoRun
  /\ point \notin Free => r \in Runs
  /\ point \in LocalPoints => r \notin Managed

ControlInv ==
  /\ \A a \in Actors : PointOK(a, job[a], pc[a])
  /\ \A a \in Actors : mid[a] => pc[a] \in Transitions
  /\ \A r \in Runs : job[r] = r

\* While the server is not up, none of its tasks and threads is at work.
BootInv ==
  /\ pc[Server] \notin {"up", "stopping"} =>
       /\ \A w \in Resident : pc[w] = "dead"
       /\ \A r \in Runs \ Direct : pc[r] \in {"new", "ended"}
  /\ pc[Server] # "up" => pc[Watcher] = "watching"

-----------------------------------------------------------------------------
(* The hands an unfinished run is in.                                      *)

\* What a has in hand ends with a write to the status of r, whatever the
\* others do: its next transition is allowed, or the failure is caught.
Responsible(a, r) ==
  /\ job[a] = r
  /\ \/ /\ pc[a] \in Transitions
        /\ \/ mid[a]
           \/ IsValidTransition(status[r], Target[pc[a]])
           \/ AfterInvalid(a) \in {"to_failed", "on_error"}
     \/ pc[a] \in {"secrets", "spawn", "mark", "await", "artifacts", "validate", "remote",
                   "on_error"}
     \/ pc[a] = "checks" /\ a \in Direct /\ status[r] \in {"validating", "submitting"}

Held(r) == \E a \in Actors \ {Server} : Responsible(a, r)

HeldInv ==
  /\ pc[Server] \in {"sweep_write", "starting", "up"} =>
       \A r \in Runs \ todo : status[r] \in Unfinished \ {"queued"} => Held(r)
  /\ pc[Server] \in {"starting", "up"} => todo = {}
  /\ \A a \in Direct : pc[a] \in {"validate", "remote"} => a \in Managed

-----------------------------------------------------------------------------
(* The process records.                                                    *)

\* a has written the record of r, or will take it away.
Keeping(a, r) ==
  /\ r \notin Managed
  /\ job[a] = r
  /\ pc[a] \in {"await", "to_collecting", "artifacts", "to_succeeded", "to_exit_failed",
                "to_failed", "wrapup", "cleanup", "cleanup_raise", "to_cancelled",
                "cleanup_cancel"}

\* The records startup has still to look at.
Unseen ==
  CASE pc[Server] = "orphans" -> todo
    [] pc[Server] \in {"to_lost", "unmark"} -> todo \cup {job[Server]}
    [] OTHER -> {}

RecordsInv ==
  pc[Server] \notin {"stopping", "down"} =>
    \A r \in Runs \ Unseen : marker[r] # NoWorker => Keeping(marker[r], r)

-----------------------------------------------------------------------------
(* The queue.                                                              *)

Left(r) == status[r] \notin {"absent", "created", "queued"}

\* A run that is not in the queue yet is nobody's but its submission's.
FreshInv ==
  /\ \A r \in Runs :
       /\ pc[r] = "new" <=> status[r] = "absent"
       /\ pc[r] = "to_queued" /\ r \notin Direct => status[r] = "created"
       /\ pc[r] \notin {"new", "to_queued", "ended"} => status[r] # "created"
       /\ status[r] \in {"absent", "created"} =>
            /\ owner[r] = NoWorker
            /\ \A a \in Actors \ {r} : job[a] # r
            /\ r \notin pods /\ marker[r] = NoWorker /\ started[r] = {}
  /\ pc[Server] = "sweep_write" => \A r \in todo : status[r] # "absent"

\* A run that somebody has moved on has left the queue for good.
LeftInv ==
  \A r \in Runs \ Direct :
    /\ r \in pods \/ marker[r] # NoWorker \/ started[r] # {} => Left(r)
    /\ \A a \in {Server, Watcher} : job[a] = r => Left(r)
    /\ \A w \in Workers : job[w] = r =>
         /\ pc[w] \in {"preflight", "to_preparing"} \/ Left(r) \/ (pc[w] = "abort" /\ r \in Poison)
         /\ pc[w] = "to_preparing" => r \notin Poison

\* A worker that has died is known to have, and keeps no lease.  Only the
\* server's own tasks are cancelled.
DeadInv ==
  /\ \A w \in Resident : pc[w] = "dead" => w \in crashed
  /\ \A w \in Workers : job[w] = NoRun => w \notin lapsed
  /\ \A w \in Workers \ Resident : pc[w] \notin {"to_cancelled", "cleanup_cancel"}

OnceInv ==
  \A r \in Runs \ Direct :
    /\ started[r] \subseteq Workers
    /\ \A w \in Workers : job[w] = r /\ w \notin lapsed => started[r] \subseteq {w}
    /\ \A a, b \in started[r] : a = b

-----------------------------------------------------------------------------
(* The contract, for the server on its own.                                *)

Alone(a) == \A b \in Actors \ {a} : mid[b] => job[b] # job[a]

ValidInv ==
  /\ \A a \in Actors : mid[a] => IsValidTransition(status[job[a]], Target[pc[a]]) /\ Alone(a)
  /\ pc[Server] = "sweep_write" =>
       \A r \in todo : status[r] \in Unfinished
  /\ \A w \in Resident : pc[Watcher] # "watching" =>
        pc[w] \in {"idle", "spawn", "await", "validate", "remote", "dead"}
  /\ \A r \in Runs : pc[r] # "to_failed_submit"

-----------------------------------------------------------------------------
(* Control: every actor stays within its own program.                      *)

\* The transitions by name, and what they write.
LEMMA TransitionPoints ==
  /\ Transitions = {"to_queued", "to_preparing", "to_validating", "to_submitting",
       "to_running", "to_collecting", "to_succeeded", "to_exit_failed", "to_failed",
       "to_failed_outer", "to_failed_submit", "to_cancelled", "to_validation_failed",
       "to_lost", "to_pod_collecting", "to_pod_succeeded", "to_pod_failed"}
  /\ \A point \in Transitions : Target[point] \in Status \ {"created"}
BY DEF Transitions, Target, Status, RunTransitions

\* The kinds of actors are distinct.
LEMMA ActorKinds ==
  /\ Server \in Actors \ (Workers \cup Runs \cup {Watcher})
  /\ Watcher \in Actors \ (Workers \cup Runs)
  /\ Workers \subseteq Actors \ Runs /\ Runs \subseteq Actors
  /\ Direct \subseteq Runs /\ Resident \subseteq Workers
BY LifecycleAssumption DEF Actors

\* Each of these points is in some program.
LEMMA PointsTyped ==
  ASSUME NEW a \in Actors, NEW r, NEW point, PointOK(a, r, point)
  PROVE  point \in PC
<1>1. a = Server \/ a = Watcher \/ a \in Runs \ Direct \/ a \in Direct \/ a \in Workers
  BY DEF Actors
<1> QED
  BY <1>1, TransitionPoints
  DEF PointOK, PC, ServerPoints, WatcherPoints, DeferredPoints, ExecutionPoints, WorkerPoints

\* After a transition an actor is where its program goes on.
LEMMA AfterWriteOK ==
  ASSUME TypeOK, ControlInv, NEW a \in Actors, pc[a] \in Transitions
  PROVE  PointOK(a, job[a], AfterWrite(a))
<1> USE TransitionPoints, ActorKinds
<1>1. PointOK(a, job[a], pc[a])
  BY DEF ControlInv
<1>2. CASE a = Server
  BY <1>1, <1>2 DEF PointOK, AfterWrite, ServerPoints, Free, LocalPoints
<1>3. CASE a = Watcher
  BY <1>1, <1>3 DEF PointOK, AfterWrite, WatcherPoints, Free, LocalPoints
<1>4. CASE a \in Runs \ Direct
  BY <1>1, <1>4 DEF PointOK, AfterWrite, IsManaged, DeferredPoints, Free, LocalPoints
<1>5. CASE a \in Direct
  <2>1. pc[a] \in ExecutionPoints \cup {"to_queued", "to_failed_submit"} /\ job[a] \in Runs
    BY <1>1, <1>5 DEF PointOK, DeferredPoints, ExecutionPoints, Free
  <2>2. AfterWrite(a) \in ExecutionPoints \cup DeferredPoints
    BY <1>5, <2>1 DEF AfterWrite, IsWorker, DeferredPoints, ExecutionPoints
  <2>3. AfterWrite(a) \in LocalPoints => ~IsManaged(a)
    BY <1>5, <2>1 DEF AfterWrite, IsWorker, LocalPoints, ExecutionPoints
  <2>4. AfterWrite(a) \notin {"idle", "dead"}
    BY <2>2 DEF DeferredPoints, ExecutionPoints
  <2> QED BY <1>5, <2>1, <2>2, <2>3, <2>4 DEF PointOK, IsManaged
<1>6. CASE a \in Workers
  <2>1. pc[a] \in ExecutionPoints \cup {"to_failed_outer", "to_cancelled"} /\ job[a] \in Runs
    BY <1>1, <1>6 DEF PointOK, WorkerPoints, ExecutionPoints, Free
  <2>2. AfterWrite(a) \in WorkerPoints
    BY <1>6, <2>1 DEF AfterWrite, IsWorker, WorkerPoints, ExecutionPoints
  <2>3. AfterWrite(a) \in LocalPoints => ~IsManaged(a)
    BY <1>6, <2>1 DEF AfterWrite, IsWorker, LocalPoints, ExecutionPoints
  <2>4. AfterWrite(a) \notin {"idle", "dead"}
    BY <1>6, <2>1 DEF AfterWrite, IsWorker, ExecutionPoints
  <2> QED BY <1>6, <2>1, <2>2, <2>3, <2>4 DEF PointOK, IsManaged
<1> QED BY <1>2, <1>3, <1>4, <1>5, <1>6 DEF Actors

\* So it is after a transition that was refused.
LEMMA AfterInvalidOK ==
  ASSUME TypeOK, ControlInv, NEW a \in Actors, pc[a] \in Transitions
  PROVE  PointOK(a, job[a], AfterInvalid(a))
<1> USE TransitionPoints, ActorKinds
<1>1. PointOK(a, job[a], pc[a])
  BY DEF ControlInv
<1>2. CASE a = Server
  BY <1>1, <1>2 DEF PointOK, AfterInvalid, ServerPoints, Free, LocalPoints
<1>3. CASE a = Watcher
  BY <1>1, <1>3 DEF PointOK, AfterInvalid, WatcherPoints, Free, LocalPoints
<1>4. CASE a \in Runs \ Direct
  BY <1>1, <1>4 DEF PointOK, AfterInvalid, IsManaged, DeferredPoints, Free, LocalPoints
<1>5. CASE a \in Direct
  BY <1>1, <1>5
  DEF PointOK, AfterInvalid, Escape, IsManaged, IsWorker, DeferredPoints, ExecutionPoints, Free,
      LocalPoints
<1>6. CASE a \in Workers
  BY <1>1, <1>6
  DEF PointOK, AfterInvalid, Escape, IsManaged, IsWorker, WorkerPoints, ExecutionPoints, Free,
      LocalPoints
<1> QED BY <1>2, <1>3, <1>4, <1>5, <1>6 DEF Actors

\* Control stays when one actor goes to a point of its program.
LEMMA GotoKeepsControl ==
  ASSUME TypeOK, ControlInv, NEW a \in Actors, NEW point, Goto(a, point),
         PointOK(a, job'[a], point), a \in Runs => job'[a] = a,
         \A b \in Actors \ {a} : job'[b] = job[b] /\ (mid'[b] => mid[b]),
         mid'[a] => point \in Transitions
  PROVE  ControlInv' /\ pc' \in [Actors -> PC]
<1>1. pc' = [pc EXCEPT ![a] = point] /\ DOMAIN pc = Actors
  BY DEF Goto, TypeOK
<1>2. ASSUME NEW b \in Actors PROVE PointOK(b, job'[b], pc'[b])
  BY <1>1 DEF ControlInv
<1>3. \A b \in Actors : pc'[b] \in PC
  BY <1>2, PointsTyped
<1>4. \A b \in Actors : mid'[b] => pc'[b] \in Transitions
  BY <1>1 DEF ControlInv
<1>5. \A r \in Runs : job'[r] = r
  BY ActorKinds DEF ControlInv
<1>6. ControlInv'
  BY <1>2, <1>4, <1>5 DEF ControlInv, PointOK
<1> QED BY <1>1, <1>3, <1>6

\* A move that touches nothing else keeps types and control.
LEMMA MoveTyped ==
  ASSUME TypeOK, ControlInv, NEW a \in Actors, NEW point, Goto(a, point),
         PointOK(a, job[a], point), pc[a] \notin Transitions,
         UNCHANGED <<row, mid, job, host, boot, history>>
  PROVE  TypeOK' /\ ControlInv'
<1>1. ~mid[a] /\ mid' = mid /\ job' = job
  BY DEF ControlInv
<1>2. ControlInv' /\ pc' \in [Actors -> PC]
  BY <1>1, GotoKeepsControl DEF ControlInv
<1> QED BY <1>2 DEF TypeOK, row, host, boot, history

\* A step of an execution keeps types and control.
LEMMA ActorTyped ==
  ASSUME TypeOK, ControlInv, NEW a \in Actors,
         Read(a) \/ Write(a) \/ Fail(a) \/ Spawn(a) \/ Mark(a) \/ Exited(a) \/ Artifacts(a)
         \/ Wrapup(a) \/ Cleanup(a) \/ ResolveSecrets(a) \/ Validate(a) \/ Remote(a)
  PROVE  TypeOK' /\ ControlInv'
<1> USE TransitionPoints, ActorKinds
<1>1. PointOK(a, job[a], pc[a]) /\ (a \in Runs => job[a] = a) /\ (mid[a] => pc[a] \in Transitions)
  BY DEF ControlInv
<1>2. CASE Read(a)
  <2>1. CASE IsValidTransition(status[job[a]], Target[pc[a]])
    <3>1. mid' = [mid EXCEPT ![a] = TRUE] /\ UNCHANGED <<row, pc, job, host, boot, history>>
      BY <1>2, <2>1 DEF Read
    <3> QED BY <1>2, <3>1 DEF Read, TypeOK, ControlInv, PointOK, row, host, boot, history
  <2>2. CASE ~IsValidTransition(status[job[a]], Target[pc[a]])
    <3>1. Goto(a, AfterInvalid(a)) /\ UNCHANGED <<row, mid, job, host, boot, history>> /\ ~mid[a]
      BY <1>2, <2>2 DEF Read
    <3>2. ControlInv' /\ pc' \in [Actors -> PC]
      BY <1>1, <1>2, <3>1, AfterInvalidOK, GotoKeepsControl DEF Read
    <3> QED BY <3>1, <3>2 DEF TypeOK, row, host, boot, history
  <2> QED BY <2>1, <2>2
<1>3. CASE Write(a)
  <2>1. /\ pc[a] \in Transitions /\ mid' = [mid EXCEPT ![a] = FALSE] /\ Goto(a, AfterWrite(a))
        /\ status' = [status EXCEPT ![job[a]] = Target[pc[a]]]
        /\ UNCHANGED <<born, owner, expired, job, host, boot, history>>
    BY <1>3 DEF Write, SetStatus
  <2>2. ~mid'[a] /\ (\A b \in Actors \ {a} : mid'[b] = mid[b]) /\ mid' \in [Actors -> BOOLEAN]
    BY <2>1 DEF TypeOK
  <2>3. ControlInv' /\ pc' \in [Actors -> PC]
    BY <1>1, <2>1, <2>2, AfterWriteOK, GotoKeepsControl
  <2>4. status' \in [Runs -> Status \cup {"absent"}]
    BY <2>1 DEF TypeOK
  <2> QED BY <2>1, <2>2, <2>3, <2>4 DEF TypeOK, host, boot, history
<1>4. CASE Fail(a)
  <2>1. PICK point \in Handler(a) : Goto(a, point)
    BY <1>4 DEF Fail
  <2>2. /\ pc[a] \in {"secrets", "spawn", "await", "artifacts", "wrapup", "validate", "remote"}
        /\ point \in {Escape(a), "to_failed"}
    BY <2>1 DEF Handler
  <2>3. a \in Direct \cup Workers
    BY <1>1, <2>2 DEF PointOK, ServerPoints, WatcherPoints, DeferredPoints, Actors
  <2>4. /\ a \in Workers => point \in {"abort", "on_error", "to_failed"}
        /\ a \notin Workers => point \in {"ended", "to_failed"}
    BY <2>2 DEF Escape, IsWorker
  <2>5. point \notin Free \cup LocalPoints /\ job[a] \in Runs
    BY <1>1, <2>2, <2>4 DEF PointOK, Free, LocalPoints
  <2>6. PointOK(a, job[a], point)
    BY <2>3, <2>4, <2>5 DEF PointOK, DeferredPoints, ExecutionPoints, WorkerPoints, Free
  <2> QED BY <1>4, <2>1, <2>2, <2>6, MoveTyped DEF Fail
<1>5. CASE Exited(a) \/ Wrapup(a) \/ ResolveSecrets(a)
  <2>1. \E point \in {"to_collecting", "cleanup", "to_running"} : Goto(a, point)
    BY <1>5 DEF Exited, Wrapup, ResolveSecrets
  <2>2. pc[a] \in {"await", "wrapup", "secrets"}
    BY <1>5 DEF Exited, Wrapup, ResolveSecrets
  <2>3. a \in Direct \cup Workers
    BY <1>1, <2>2 DEF PointOK, ServerPoints, WatcherPoints, DeferredPoints, Actors
  <2>4. \A point \in {"to_collecting", "cleanup", "to_running"} : PointOK(a, job[a], point)
    BY <1>1, <2>2, <2>3
    DEF PointOK, DeferredPoints, ExecutionPoints, WorkerPoints, Free, LocalPoints
  <2> QED BY <1>5, <2>1, <2>2, <2>4, MoveTyped DEF Exited, Wrapup, ResolveSecrets
<1>6. CASE Artifacts(a) \/ Validate(a) \/ Remote(a)
  <2>1. \E point \in {"to_succeeded", "to_exit_failed", "remote", "to_validation_failed", "to_running"} :
          Goto(a, point)
    BY <1>6 DEF Artifacts, Validate, Remote
  <2>2. pc[a] \in {"artifacts", "validate", "remote"}
    BY <1>6 DEF Artifacts, Validate, Remote
  <2>3. a \in Direct \cup Workers
    BY <1>1, <2>2 DEF PointOK, ServerPoints, WatcherPoints, DeferredPoints, Actors
  <2>4. \A point \in {"to_succeeded", "to_exit_failed", "remote", "to_validation_failed", "to_running"} :
          PointOK(a, job[a], point)
    BY <1>1, <2>2, <2>3
    DEF PointOK, DeferredPoints, ExecutionPoints, WorkerPoints, Free, LocalPoints
  <2> QED BY <1>6, <2>1, <2>2, <2>4, MoveTyped DEF Artifacts, Validate, Remote
<1>7. CASE Spawn(a) \/ Mark(a)
  <2>1. /\ pc[a] \in {"spawn", "mark"} /\ mid' = mid /\ job' = job
        /\ \E point \in {"mark", "await"} : Goto(a, point)
    BY <1>7 DEF Spawn, Mark
  <2>2. a \in Direct \cup Workers /\ job[a] \in Runs /\ job[a] \notin Managed /\ ~mid[a]
    BY <1>1, <2>1 DEF PointOK, ServerPoints, WatcherPoints, DeferredPoints, Actors, Free, LocalPoints
  <2>3. \A point \in {"mark", "await"} : PointOK(a, job[a], point)
    BY <2>2 DEF PointOK, DeferredPoints, ExecutionPoints, WorkerPoints, Free
  <2>4. ControlInv' /\ pc' \in [Actors -> PC]
    BY <1>1, <2>1, <2>2, <2>3, GotoKeepsControl
  <2>5. /\ live' \subseteq Actors \X Runs /\ pods' \subseteq Kubernetes
        /\ marker' \in [Runs -> Actors \cup {NoWorker}] /\ started' \in [Runs -> SUBSET Actors]
        /\ UNCHANGED <<row, mid, job, boot, lapsed, crashed>>
    BY <1>7, <2>2 DEF Spawn, Mark, TypeOK, host, history
  <2> QED BY <2>4, <2>5 DEF TypeOK, row, boot
<1>8. CASE Cleanup(a)
  <2>1. /\ pc[a] \in {"cleanup", "cleanup_raise", "cleanup_cancel"} /\ mid' = mid
        /\ marker' = IF IsManaged(a) THEN marker ELSE [marker EXCEPT ![job[a]] = NoWorker]
        /\ UNCHANGED <<row, live, pods, boot, started>>
    BY <1>8 DEF Cleanup
  <2>2. a \in Direct \cup Workers /\ job[a] \in Runs /\ ~mid[a]
    BY <1>1, <2>1 DEF PointOK, ServerPoints, WatcherPoints, DeferredPoints, Actors, Free
  <2>3. marker' \in [Runs -> Actors \cup {NoWorker}]
    BY <2>1, <2>2 DEF TypeOK
  <2>4. CASE pc[a] \in {"cleanup", "cleanup_raise"}
    <3>1. \E point \in {Over(a), Escape(a)} : Goto(a, point)
      BY <1>8, <2>4 DEF Cleanup
    <3>2. UNCHANGED <<job, lapsed, crashed>>
      BY <1>8, <2>4 DEF Cleanup
    <3>3. \A point \in {Over(a), Escape(a)} : PointOK(a, job[a], point)
      BY <2>2 DEF PointOK, Over, Escape, IsWorker, DeferredPoints, WorkerPoints, Free, LocalPoints
    <3>4. ControlInv' /\ pc' \in [Actors -> PC]
      BY <1>1, <2>1, <2>2, <3>1, <3>2, <3>3, GotoKeepsControl
    <3> QED BY <2>1, <2>3, <3>2, <3>4 DEF TypeOK, row, boot
  <2>5. CASE pc[a] = "cleanup_cancel"
    <3>1. /\ Goto(a, "dead") /\ job' = [job EXCEPT ![a] = NoRun]
          /\ lapsed' = lapsed \ {a} /\ crashed' = crashed \cup {a}
      BY <1>8, <2>5 DEF Cleanup
    <3>2. a \in Workers
      BY <1>1, <2>2, <2>5 DEF PointOK, DeferredPoints, ExecutionPoints
    <3>3. /\ job' \in [Actors -> Runs \cup {NoRun}] /\ job'[a] = NoRun
          /\ \A b \in Actors \ {a} : job'[b] = job[b]
      BY <3>1 DEF TypeOK
    <3>4. PointOK(a, job'[a], "dead")
      BY <3>2, <3>3 DEF PointOK, WorkerPoints, Free, LocalPoints
    <3>5. ControlInv' /\ pc' \in [Actors -> PC]
      BY <2>1, <2>2, <3>1, <3>2, <3>3, <3>4, GotoKeepsControl
    <3> QED BY <2>1, <2>3, <3>1, <3>2, <3>3, <3>5 DEF TypeOK, row, boot
  <2> QED BY <2>1, <2>4, <2>5
<1> QED BY <1>2, <1>3, <1>4, <1>5, <1>6, <1>7, <1>8

\* A submission or a request keeps types and control.
LEMMA RequestTyped ==
  ASSUME TypeOK, ControlInv, NEW r \in Runs, Submit(r) \/ Checks(r) \/ Lapse(r) \/ Watch(r)
  PROVE  TypeOK' /\ ControlInv'
<1> USE TransitionPoints, ActorKinds
<1>1. PointOK(r, job[r], pc[r]) /\ job[r] = r /\ (mid[r] => pc[r] \in Transitions)
  BY DEF ControlInv
<1>2. CASE Submit(r)
  <2>1. IsFiniteSet({q \in Runs : born[q] # 0})
    BY LifecycleAssumption, FS_Subset
  <2>2. Cardinality({q \in Runs : born[q] # 0}) \in Nat
    BY <2>1, FS_CardinalityType
  <2>3. born' \in [Runs -> Nat]
    BY <1>2, <2>2 DEF Submit, TypeOK
  <2>4. status' \in [Runs -> Status \cup {"absent"}]
    BY <1>2 DEF Submit, SetStatus, TypeOK, Status, RunTransitions
  <2>5. PointOK(r, job[r], "to_queued")
    BY <1>1 DEF PointOK, DeferredPoints, Free, LocalPoints
  <2>6. ControlInv' /\ pc' \in [Actors -> PC]
    BY <1>1, <1>2, <2>5, GotoKeepsControl DEF Submit
  <2> QED BY <1>2, <2>3, <2>4, <2>6 DEF Submit, TypeOK, host, boot, history
<1>3. CASE Checks(r)
  <2>1. /\ pc[r] = "checks"
        /\ \E point \in {"to_failed_submit", "to_submitting", "ended"} :
             Goto(r, point) /\ (r \notin Direct => point # "to_submitting")
    BY <1>3 DEF Checks
  <2>2. \A point \in {"to_failed_submit", "to_submitting", "ended"} :
          r \in Direct \/ point # "to_submitting" => PointOK(r, job[r], point)
    BY <1>1 DEF PointOK, DeferredPoints, ExecutionPoints, Free, LocalPoints
  <2> QED BY <1>3, <2>1, <2>2, MoveTyped DEF Checks
<1>4. CASE Lapse(r)
  <2>1. expired' \in [Runs -> BOOLEAN] /\ lapsed' \subseteq Workers
    BY <1>4 DEF Lapse, TypeOK
  <2> QED BY <1>4, <2>1 DEF Lapse, TypeOK, ControlInv, host, boot
<1>5. CASE Watch(r)
  <2>1. PICK point \in {"to_pod_failed", "to_pod_collecting", "to_pod_succeeded"} :
          Goto(Watcher, point)
    BY <1>5 DEF Watch
  <2>2. /\ job' = [job EXCEPT ![Watcher] = r] /\ pc[Watcher] = "watching"
        /\ UNCHANGED <<row, mid, host, boot, history>>
    BY <1>5 DEF Watch, EventLoopFree
  <2>3. PointOK(Watcher, r, point)
    BY <2>1 DEF PointOK, WatcherPoints, Free, LocalPoints
  <2>4. ~mid[Watcher]
    BY <2>2 DEF ControlInv
  <2>5. /\ job' \in [Actors -> Runs \cup {NoRun}] /\ job'[Watcher] = r
        /\ \A b \in Actors \ {Watcher} : job'[b] = job[b]
    BY <2>2 DEF TypeOK
  <2>6. ControlInv' /\ pc' \in [Actors -> PC]
    BY <2>1, <2>2, <2>3, <2>4, <2>5, GotoKeepsControl
  <2> QED BY <2>2, <2>5, <2>6 DEF TypeOK, row, host, boot, history
<1> QED BY <1>2, <1>3, <1>4, <1>5

\* The worker loop keeps types and control.
LEMMA LoopTyped ==
  ASSUME TypeOK, ControlInv, NEW w \in Workers, WorkerStep(w) \/ Restart(w)
  PROVE  TypeOK' /\ ControlInv'
<1> USE TransitionPoints, ActorKinds
<1>1. PointOK(w, job[w], pc[w]) /\ (mid[w] => pc[w] \in Transitions) /\ w \in Actors
  BY DEF ControlInv
<1>2. ASSUME NEW r \in Runs, Claim(w, r) PROVE TypeOK' /\ ControlInv'
  <2>1. /\ Goto(w, "preflight") /\ job' = [job EXCEPT ![w] = r] /\ pc[w] = "idle"
        /\ owner' = [owner EXCEPT ![r] = w] /\ expired' = [expired EXCEPT ![r] = FALSE]
        /\ lapsed' = lapsed \ {w}
        /\ UNCHANGED <<status, born, mid, host, boot, crashed, started>>
    BY <1>2 DEF Claim
  <2>2. /\ job' \in [Actors -> Runs \cup {NoRun}] /\ job'[w] = r
        /\ \A b \in Actors \ {w} : job'[b] = job[b]
    BY <2>1 DEF TypeOK
  <2>3. PointOK(w, r, "preflight") /\ ~mid[w]
    BY <1>1, <2>1 DEF PointOK, WorkerPoints, Free, LocalPoints
  <2>4. ControlInv' /\ pc' \in [Actors -> PC]
    BY <1>1, <2>1, <2>2, <2>3, GotoKeepsControl
  <2> QED BY <2>1, <2>2, <2>4 DEF TypeOK, host, boot
<1>3. CASE Preflight(w) \/ OnError(w)
  <2>1. /\ pc[w] \in {"preflight", "on_error"}
        /\ \E point \in {"abort", "to_preparing", "to_failed_outer"} : Goto(w, point)
        /\ UNCHANGED <<row, mid, job, host, boot, history>>
    BY <1>3 DEF Preflight, OnError
  <2>2. \A point \in {"abort", "to_preparing", "to_failed_outer"} : PointOK(w, job[w], point)
    BY <1>1, <2>1 DEF PointOK, WorkerPoints, ExecutionPoints, Free, LocalPoints
  <2> QED BY <1>1, <2>1, <2>2, MoveTyped
<1>4. CASE Release(w)
  <2>1. /\ job' = [job EXCEPT ![w] = NoRun] /\ lapsed' = lapsed \ {w}
        /\ pc[w] \in {"release", "abort"}
        /\ UNCHANGED <<status, born, mid, host, boot, crashed, started>>
        /\ \E point \in {"dead", "idle"} : Goto(w, point)
    BY <1>4 DEF Release
  <2>2. /\ owner' \in [Runs -> Workers \cup {NoWorker}] /\ expired' \in [Runs -> BOOLEAN]
    <3>1. \/ /\ owner' = [owner EXCEPT ![job[w]] = NoWorker]
             /\ expired' = [expired EXCEPT ![job[w]] = FALSE]
          \/ UNCHANGED <<owner, expired>>
      BY <1>4 DEF Release
    <3>2. job[w] \in Runs
      BY <1>1, <2>1 DEF PointOK, Free
    <3> QED BY <3>1, <3>2 DEF TypeOK
  <2>3. /\ job' \in [Actors -> Runs \cup {NoRun}] /\ job'[w] = NoRun
        /\ \A b \in Actors \ {w} : job'[b] = job[b]
    BY <1>1, <2>1 DEF TypeOK
  <2>4. ~mid[w] /\ \A point \in {"dead", "idle"} : PointOK(w, NoRun, point)
    BY <1>1, <2>1 DEF PointOK, WorkerPoints, Free, LocalPoints
  <2>5. ControlInv' /\ pc' \in [Actors -> PC]
    BY <1>1, <2>1, <2>3, <2>4, GotoKeepsControl
  <2> QED BY <2>1, <2>2, <2>3, <2>5 DEF TypeOK, host, boot
<1>5. CASE Restart(w)
  <2>1. pc[w] = "dead" /\ Goto(w, "idle") /\ UNCHANGED <<row, mid, job, host, boot, history>>
    BY <1>5 DEF Restart
  <2>2. PointOK(w, job[w], "idle")
    BY <1>1, <2>1 DEF PointOK, WorkerPoints, Free, LocalPoints
  <2> QED BY <1>1, <2>1, <2>2, MoveTyped
<1> QED BY <1>2, <1>3, <1>4, <1>5 DEF WorkerStep

\* Deaths keep types and control.
LEMMA DieTyped ==
  ASSUME TypeOK, ControlInv, NEW A \in SUBSET (Actors \ {Server}), Die(A)
  PROVE  /\ ControlInv' /\ pc' \in [Actors -> PC] /\ mid' \in [Actors -> BOOLEAN]
         /\ job' \in [Actors -> Runs \cup {NoRun}]
         /\ lapsed' \subseteq lapsed /\ crashed' \subseteq Workers
<1> USE TransitionPoints, ActorKinds
<1>1. /\ \A a \in Actors : pc'[a] = IF a = Server /\ A \cap InServer # {} THEN "down"
                                    ELSE IF a \in A THEN Killed(a) ELSE pc[a]
      /\ \A a \in Actors : mid'[a] = IF a \in A \/ (a = Server /\ A \cap InServer # {})
                                     THEN FALSE ELSE mid[a]
      /\ \A a \in Actors : job'[a] = IF a \in A \cap Workers THEN NoRun ELSE job[a]
      /\ DOMAIN pc' = Actors /\ DOMAIN mid' = Actors /\ DOMAIN job' = Actors
      /\ lapsed' = lapsed \ A /\ crashed' = crashed \cup (A \cap Workers)
      /\ pc' = [a \in Actors |-> pc'[a]] /\ mid' = [a \in Actors |-> mid'[a]]
      /\ job' = [a \in Actors |-> job'[a]]
  BY DEF Die
<1>2. ASSUME NEW a \in Actors
      PROVE  PointOK(a, job'[a], pc'[a]) /\ (mid'[a] => pc'[a] \in Transitions)
  <2>1. PointOK(a, job[a], pc[a]) /\ (mid[a] => pc[a] \in Transitions)
    BY DEF ControlInv
  <2>2. CASE a = Server /\ A \cap InServer # {}
    BY <1>1, <2>1, <2>2 DEF PointOK, ServerPoints, Free, LocalPoints
  <2>3. CASE a \in A
    <3>1. pc'[a] = Killed(a) /\ ~mid'[a] /\ a # Server
      BY <1>1, <2>3
    <3>2. CASE a \in Workers
      BY <1>1, <2>3, <3>1, <3>2 DEF Killed, PointOK, WorkerPoints, Free, LocalPoints
    <3>3. CASE a = Watcher
      BY <1>1, <3>1, <3>3 DEF Killed, PointOK, WatcherPoints, Free, LocalPoints
    <3>4. CASE a \in Runs
      <4>1. job'[a] = a
        BY <1>1, <3>4 DEF ControlInv
      <4>2. pc'[a] \in {"new", "ended"}
        BY <3>1, <3>4 DEF Killed
      <4> QED BY <3>1, <3>4, <4>1, <4>2 DEF PointOK, DeferredPoints, Free, LocalPoints
    <3> QED BY <3>1, <3>2, <3>3, <3>4 DEF Actors
  <2>4. CASE a \notin A /\ ~(a = Server /\ A \cap InServer # {})
    BY <1>1, <2>1, <2>4
  <2> QED BY <2>2, <2>3, <2>4
<1>3. \A r \in Runs : job'[r] = r
  BY <1>1 DEF ControlInv
<1>4. \A a \in Actors : pc'[a] \in PC /\ mid'[a] \in BOOLEAN /\ job'[a] \in Runs \cup {NoRun}
  BY <1>1, <1>2, PointsTyped DEF TypeOK
<1>5. ControlInv'
  BY <1>2, <1>3 DEF ControlInv, PointOK
<1> QED BY <1>1, <1>4, <1>5 DEF TypeOK

\* The server, its end and its startup keep types and control.
LEMMA ServerTyped ==
  ASSUME TypeOK, ControlInv, BootInv, ServerCrash \/ Shutdown \/ Startup
  PROVE  TypeOK' /\ ControlInv'
<1> USE TransitionPoints, ActorKinds
<1>1. PointOK(Server, job[Server], pc[Server]) /\ (mid[Server] => pc[Server] \in Transitions)
  BY DEF ControlInv
<1>2. CASE ServerCrash
  <2>1. InServer \in SUBSET (Actors \ {Server})
    BY DEF InServer, Actors
  <2>2. boots' \in 0..MaxBoots
    BY <1>2, LifecycleAssumption DEF ServerCrash, TypeOK
  <2> QED BY <1>2, <2>1, <2>2, DieTyped DEF ServerCrash, TypeOK, row, host
<1>3. CASE Shutdown
  <2>1. /\ pc' = [a \in Actors |->
              IF a = Server THEN "stopping"
              ELSE IF a \in Resident
                   THEN IF pc[a] \in {"spawn", "await"} THEN "to_cancelled" ELSE "dead"
                   ELSE pc[a]]
        /\ job' = [a \in Actors |-> IF a \in Resident /\ pc[a] \notin {"spawn", "await"}
                                    THEN NoRun ELSE job[a]]
        /\ \A w \in Resident : pc[w] \in {"idle", "spawn", "await", "validate", "remote", "dead"}
        /\ pc[Server] = "up"
        /\ lapsed' \subseteq lapsed /\ crashed' \subseteq crashed \cup Resident
        /\ UNCHANGED <<row, mid, host, boot, started>>
    BY <1>3 DEF Shutdown, EventLoopFree
  <2>2. ASSUME NEW a \in Actors
        PROVE  PointOK(a, job'[a], pc'[a]) /\ (mid'[a] => pc'[a] \in Transitions)
    <3>1. PointOK(a, job[a], pc[a]) /\ (mid[a] => pc[a] \in Transitions)
      BY DEF ControlInv
    <3>2. CASE a = Server
      BY <2>1, <3>1, <3>2 DEF PointOK, ServerPoints, Free, LocalPoints
    <3>3. CASE a \in Resident /\ pc[a] \in {"spawn", "await"}
      BY <2>1, <3>1, <3>3 DEF PointOK, WorkerPoints, Free, LocalPoints
    <3>4. CASE a \in Resident /\ pc[a] \notin {"spawn", "await"}
      BY <2>1, <3>1, <3>4 DEF PointOK, WorkerPoints, Free, LocalPoints
    <3>5. CASE a # Server /\ a \notin Resident
      BY <2>1, <3>1, <3>5
    <3> QED BY <3>2, <3>3, <3>4, <3>5
  <2>3. \A r \in Runs : job'[r] = r
    BY <2>1 DEF ControlInv
  <2>4. \A a \in Actors : pc'[a] \in PC /\ job'[a] \in Runs \cup {NoRun}
    BY <2>1, <2>2, PointsTyped DEF TypeOK
  <2>5. ControlInv'
    BY <2>2, <2>3 DEF ControlInv, PointOK
  <2>6. pc' \in [Actors -> PC] /\ job' \in [Actors -> Runs \cup {NoRun}]
    BY <2>1, <2>4
  <2> QED BY <2>1, <2>5, <2>6 DEF TypeOK, row, host, boot
<1>4. CASE ServerExit \/ ServerUp
  <2>1. /\ \E point \in {"down", "up"} : \E rest \in {"dead", "idle"} :
             pc' = [a \in Actors |-> IF a = Server THEN point
                                     ELSE IF a \in Resident THEN rest ELSE pc[a]]
        /\ UNCHANGED <<row, mid, job, host, todo, lapsed, started>>
        /\ crashed' \subseteq crashed \cup Resident
    BY <1>4 DEF ServerExit, ServerUp, boot, history
  <2>2. boots' \in 0..MaxBoots
    BY <1>4, LifecycleAssumption DEF ServerExit, ServerUp, boot, TypeOK
  <2>3. PICK point \in {"down", "up"}, rest \in {"dead", "idle"} :
          pc' = [a \in Actors |-> IF a = Server THEN point
                                  ELSE IF a \in Resident THEN rest ELSE pc[a]]
    BY <2>1
  <2>4. \A w \in Resident : pc[w] \in {"dead", "idle"}
    BY <1>4 DEF ServerExit, ServerUp, BootInv
  <2>5. pc[Server] \in {"stopping", "starting"}
    BY <1>4 DEF ServerExit, ServerUp
  <2>6. ASSUME NEW a \in Actors
        PROVE  PointOK(a, job[a], pc'[a]) /\ (mid[a] => pc'[a] \in Transitions)
    <3>1. PointOK(a, job[a], pc[a]) /\ (mid[a] => pc[a] \in Transitions)
      BY DEF ControlInv
    <3>2. CASE a = Server
      BY <2>3, <2>5, <3>1, <3>2 DEF PointOK, ServerPoints, Free, LocalPoints
    <3>3. CASE a \in Resident
      BY <2>3, <2>4, <3>1, <3>3 DEF PointOK, WorkerPoints, Free, LocalPoints
    <3>4. CASE a # Server /\ a \notin Resident
      BY <2>3, <3>1, <3>4
    <3> QED BY <3>2, <3>3, <3>4
  <2>7. \A a \in Actors : pc'[a] \in PC
    BY <2>6, PointsTyped
  <2>8. ControlInv'
    BY <2>1, <2>6 DEF ControlInv, PointOK
  <2>9. pc' \in [Actors -> PC]
    BY <2>3, <2>7
  <2> QED BY <2>1, <2>2, <2>8, <2>9 DEF TypeOK, row, host
<1>5. ASSUME NEW point \in ServerPoints \ {"to_lost", "unmark"}, Goto(Server, point),
             UNCHANGED <<mid, job>>, pc[Server] \notin Transitions
      PROVE  ControlInv' /\ pc' \in [Actors -> PC]
  <2>1. PointOK(Server, job[Server], point) /\ ~mid[Server]
    BY <1>1, <1>5 DEF PointOK, ServerPoints, Free, LocalPoints
  <2> QED BY <1>5, <2>1, GotoKeepsControl
<1>6. CASE Boot \/ Sweep
  <2>1. /\ \E point \in {"orphans", "sweep_write"} : Goto(Server, point)
        /\ todo' \subseteq Runs /\ pc[Server] \in {"down", "orphans"}
        /\ UNCHANGED <<row, mid, job, host, boots, history>>
    BY <1>6 DEF Boot, Sweep
  <2>2. ControlInv' /\ pc' \in [Actors -> PC]
    BY <1>5, <2>1 DEF ServerPoints
  <2> QED BY <2>1, <2>2 DEF TypeOK, row, host, history
<1>7. CASE SweepWrite
  <2>1. ControlInv' /\ pc' \in [Actors -> PC]
    BY <1>5, <1>7 DEF SweepWrite, ServerPoints
  <2>2. status' \in [Runs -> Status \cup {"absent"}]
    BY <1>7 DEF SweepWrite, TypeOK, Status, RunTransitions
  <2> QED BY <1>7, <2>1, <2>2 DEF SweepWrite, TypeOK, host, history
<1>8. CASE Unmark
  <2>1. ControlInv' /\ pc' \in [Actors -> PC]
    BY <1>5, <1>8 DEF Unmark, ServerPoints
  <2>2. marker' \in [Runs -> Actors \cup {NoWorker}]
    BY <1>8 DEF Unmark, TypeOK
  <2> QED BY <1>8, <2>1, <2>2 DEF Unmark, TypeOK, row, boot, history
<1>9. ASSUME NEW r \in Runs, Orphan(r) PROVE TypeOK' /\ ControlInv'
  <2>1. /\ pc[Server] = "orphans" /\ ~mid[Server] /\ todo' \subseteq Runs /\ live' \subseteq live
        /\ UNCHANGED <<row, mid, pods, boots, history>>
    BY <1>1, <1>9 DEF Orphan, TypeOK
  <2>2. marker' \in [Runs -> Actors \cup {NoWorker}]
    BY <1>9 DEF Orphan, TypeOK
  <2>3. CASE UNCHANGED <<pc, job>>
    BY <2>1, <2>2, <2>3 DEF TypeOK, ControlInv, PointOK, row, history
  <2>4. CASE job' = [job EXCEPT ![Server] = r] /\ Goto(Server, "to_lost")
    <3>1. /\ job' \in [Actors -> Runs \cup {NoRun}] /\ job'[Server] = r
          /\ \A b \in Actors \ {Server} : job'[b] = job[b]
      BY <2>4 DEF TypeOK
    <3>2. PointOK(Server, r, "to_lost")
      BY DEF PointOK, ServerPoints, Free, LocalPoints
    <3>3. ControlInv' /\ pc' \in [Actors -> PC]
      BY <2>1, <2>4, <3>1, <3>2, GotoKeepsControl
    <3> QED BY <2>1, <2>2, <3>1, <3>3 DEF TypeOK, row, history
  <2> QED BY <1>9, <2>3, <2>4 DEF Orphan
<1> QED BY <1>2, <1>3, <1>4, <1>6, <1>7, <1>8, <1>9 DEF Startup

\* The submissions of a fresh database, idle workers and a server that is up.
LEMMA ControlInit == Init => TypeOK /\ ControlInv /\ BootInv
<1> SUFFICES ASSUME Init PROVE TypeOK /\ ControlInv /\ BootInv
  OBVIOUS
<1> USE ActorKinds
<1>1. ASSUME NEW a \in Actors PROVE PointOK(a, job[a], pc[a]) /\ ~mid[a]
  <2>1. CASE a \in Runs
    BY <2>1 DEF Init, PointOK, DeferredPoints, Free, LocalPoints
  <2>2. CASE a \in Workers
    BY <2>2 DEF Init, PointOK, WorkerPoints, Free, LocalPoints
  <2>3. CASE a = Server
    BY <2>3 DEF Init, PointOK, ServerPoints, Free, LocalPoints
  <2>4. CASE a = Watcher
    BY <2>4 DEF Init, PointOK, WatcherPoints, Free, LocalPoints
  <2> QED BY <2>1, <2>2, <2>3, <2>4 DEF Actors
<1>2. \A r \in Runs : job[r] = r
  BY DEF Init
<1>3. \A a \in Actors : pc[a] \in PC
  BY <1>1, PointsTyped
<1>4. pc \in [Actors -> PC] /\ job \in [Actors -> Runs \cup {NoRun}]
  BY <1>3 DEF Init
<1>5. BootInv
  BY DEF Init, BootInv
<1> QED BY <1>1, <1>2, <1>4, <1>5, LifecycleAssumption DEF Init, TypeOK, ControlInv

\* Every step keeps types and control.
LEMMA ControlStep ==
  TypeOK /\ ControlInv /\ BootInv /\ [Next]_vars => TypeOK' /\ ControlInv'
<1> SUFFICES ASSUME TypeOK, ControlInv, BootInv, [Next]_vars PROVE TypeOK' /\ ControlInv'
  OBVIOUS
<1>1. ASSUME NEW a \in Actors, Step(a) PROVE TypeOK' /\ ControlInv'
  BY <1>1, ActorTyped DEF Step
<1>2. ASSUME NEW a \in Actors, Crash(a) PROVE TypeOK' /\ ControlInv'
  <2>1. {a} \in SUBSET (Actors \ {Server}) /\ Die({a}) /\ UNCHANGED <<row, host, boot, started>>
    BY <1>2, ActorKinds, LifecycleAssumption DEF Crash
  <2> QED BY <2>1, DieTyped DEF TypeOK, row, host, boot
<1>3. ASSUME NEW r \in Runs, Submit(r) \/ Checks(r) \/ Lapse(r) \/ Watch(r)
      PROVE  TypeOK' /\ ControlInv'
  BY <1>3, RequestTyped
<1>4. ASSUME NEW w \in Workers, WorkerStep(w) \/ Restart(w) PROVE TypeOK' /\ ControlInv'
  BY <1>4, LoopTyped
<1>5. ASSUME NEW p \in Actors \X Runs, ProcessEnds(p) PROVE TypeOK' /\ ControlInv'
  BY <1>5 DEF ProcessEnds, TypeOK, ControlInv, PointOK, row, boot, history
<1>6. CASE ServerCrash \/ Shutdown \/ Startup
  BY <1>6, ServerTyped
<1>7. CASE UNCHANGED vars
  BY <1>7 DEF vars, row, host, boot, history, TypeOK, ControlInv, PointOK
<1> QED BY <1>1, <1>2, <1>3, <1>4, <1>5, <1>6, <1>7 DEF Next

-----------------------------------------------------------------------------
(* The server is quiet while it starts.                                    *)

\* A move of one actor keeps the server quiet if the actor is no task of it,
\* or was at work while the server was up.
LEMMA BootKept ==
  ASSUME TypeOK, BootInv, NEW a \in Actors, NEW point, Goto(a, point),
         \/ pc[Server] = "up" /\ a # Server
         \/ a \in (Workers \ Resident) \cup Direct
         \/ a # Server /\ pc[a] \notin {"new", "ended", "dead", "watching"}
         \/ a = Server /\ pc[Server] \notin {"up", "stopping"}
  PROVE  BootInv'
<1>1. pc' = [pc EXCEPT ![a] = point] /\ DOMAIN pc = Actors
  BY DEF Goto, TypeOK
<1> QED BY <1>1, ActorKinds DEF BootInv

\* Every step keeps the server quiet while it starts.
LEMMA BootStep ==
  TypeOK /\ ControlInv /\ BootInv /\ [Next]_vars => BootInv'
<1> SUFFICES ASSUME TypeOK, ControlInv, BootInv, [Next]_vars PROVE BootInv'
  OBVIOUS
<1> USE ActorKinds
<1>0. ASSUME pc' = pc PROVE BootInv'
  BY <1>0 DEF BootInv
<1>1. ASSUME NEW a \in Actors, Step(a) PROVE BootInv'
  <2>1. pc[a] \notin {"new", "ended", "dead", "watching", "up", "stopping"}
    BY <1>1, TransitionPoints
    DEF Step, Read, Write, Fail, Handler, Spawn, Mark, Exited, Artifacts, Wrapup, Cleanup,
        ResolveSecrets, Validate, Remote
  <2>2. pc' = pc \/ \E point : Goto(a, point)
    BY <1>1
    DEF Step, Read, Write, Fail, Spawn, Mark, Exited, Artifacts, Wrapup, Cleanup,
        ResolveSecrets, Validate, Remote
  <2> QED BY <1>0, <2>1, <2>2, BootKept
<1>2. ASSUME NEW a \in Actors, Crash(a) PROVE BootInv'
  <2>1. a \in (Workers \ Resident) \cup Direct /\ {a} \cap InServer = {}
    BY <1>2, LifecycleAssumption DEF Crash, InServer
  <2>2. \A b \in Actors \ {a} : pc'[b] = pc[b]
    BY <1>2, <2>1 DEF Crash, Die
  <2> QED BY <2>1, <2>2 DEF BootInv
<1>3. ASSUME NEW r \in Runs, Submit(r) \/ Checks(r) \/ Lapse(r) \/ Watch(r) PROVE BootInv'
  <2>1. CASE Submit(r)
    BY <1>0, <2>1, BootKept DEF Submit
  <2>2. CASE Checks(r)
    <3>1. pc[r] = "checks" /\ \E point : Goto(r, point)
      BY <2>2 DEF Checks
    <3> QED BY <3>1, BootKept
  <2>3. CASE Lapse(r)
    BY <1>0, <2>3 DEF Lapse
  <2>4. CASE Watch(r)
    <3>1. pc[Server] = "up" /\ \E point : Goto(Watcher, point)
      BY <2>4 DEF Watch
    <3> QED BY <3>1, BootKept
  <2> QED BY <1>3, <2>1, <2>2, <2>3, <2>4
<1>4. ASSUME NEW w \in Workers, WorkerStep(w) \/ Restart(w) PROVE BootInv'
  <2>1. \E point : Goto(w, point)
    BY <1>4 DEF WorkerStep, Claim, Preflight, OnError, Release, Restart
  <2>2. pc[w] \in {"idle", "preflight", "on_error", "release", "abort"} \/ w \in Workers \ Resident
    BY <1>4 DEF WorkerStep, Claim, Preflight, OnError, Release, Restart
  <2> QED BY <2>1, <2>2, BootKept
<1>5. ASSUME NEW p \in Actors \X Runs, ProcessEnds(p) PROVE BootInv'
  BY <1>0, <1>5 DEF ProcessEnds
<1>6. CASE ServerCrash
  <2>1. /\ pc' = [a \in Actors |-> IF a = Server /\ InServer \cap InServer # {} THEN "down"
                                   ELSE IF a \in InServer THEN Killed(a) ELSE pc[a]]
    BY <1>6 DEF ServerCrash, Die
  <2>2. pc'[Watcher] = "watching"
    BY <2>1 DEF InServer, Killed
  <2>3. \A w \in Resident : pc'[w] = "dead"
    BY <2>1 DEF InServer, Killed
  <2>4. \A r \in Runs \ Direct : pc'[r] \in {"new", "ended"}
    BY <2>1 DEF InServer, Killed
  <2> QED BY <2>2, <2>3, <2>4 DEF BootInv
<1>7. CASE Shutdown
  BY <1>7 DEF Shutdown, EventLoopFree, BootInv
<1>8. CASE ServerExit
  BY <1>8 DEF ServerExit, BootInv
<1>9. CASE ServerUp
  BY <1>9 DEF ServerUp, BootInv
<1>10. CASE Boot \/ Unmark \/ Sweep \/ SweepWrite
  <2>1. pc[Server] \notin {"up", "stopping"} /\ \E point : Goto(Server, point)
    BY <1>10 DEF Boot, Unmark, Sweep, SweepWrite
  <2> QED BY <2>1, BootKept
<1>11. ASSUME NEW r \in Runs, Orphan(r) PROVE BootInv'
  <2>1. pc[Server] = "orphans" /\ (pc' = pc \/ \E point : Goto(Server, point))
    BY <1>11 DEF Orphan
  <2> QED BY <1>0, <2>1, BootKept
<1>12. CASE UNCHANGED vars
  BY <1>0, <1>12 DEF vars
<1> QED
  BY <1>1, <1>2, <1>3, <1>4, <1>5, <1>6, <1>7, <1>8, <1>9, <1>10, <1>11, <1>12 DEF Next, Startup

\* The rows, the actors and the processes keep their types.
THEOREM TypeCorrect == Spec => []TypeOK
BY ControlInit, ControlStep, BootStep, PTL DEF Spec

-----------------------------------------------------------------------------
(* A run that is not in the queue yet.                                     *)

\* Whoever is at work on a run finds it submitted.
LEMMA BusyIsSubmitted ==
  ASSUME TypeOK, ControlInv, FreshInv, NEW a \in Actors, job[a] \in Runs,
         pc[a] \notin {"new", "to_queued", "ended"}
  PROVE  status[job[a]] \notin {"absent", "created"}
<1>1. CASE a = job[a]
  BY <1>1 DEF FreshInv
<1>2. CASE a # job[a]
  BY <1>2 DEF FreshInv
<1> QED BY <1>1, <1>2

\* Nothing is known of a run at first.
LEMMA FreshInit == Init => FreshInv
<1> SUFFICES ASSUME Init PROVE FreshInv
  OBVIOUS
<1>1. \A r \in Runs : \A a \in Actors \ {r} : job[a] # r
  BY LifecycleAssumption DEF Init
<1> QED BY <1>1, ActorKinds DEF Init, FreshInv

\* While no status changes and nobody takes a run that is not in the queue,
\* such a run stays as it is.
LEMMA FreshKept ==
  ASSUME FreshInv, status' = status,
         \A r \in Runs :
           /\ pc[r] = "new" <=> pc'[r] = "new"
           /\ pc'[r] = "to_queued" => pc[r] = "to_queued"
           /\ pc'[r] \notin {"new", "to_queued", "ended"} =>
                pc[r] \notin {"new", "to_queued", "ended"},
         \A r \in Runs : status[r] \in {"absent", "created"} =>
           /\ owner'[r] \in {owner[r], NoWorker}
           /\ \A a \in Actors \ {r} : job'[a] = job[a] \/ job'[a] # r
           /\ r \in pods' => r \in pods
           /\ marker'[r] \in {marker[r], NoWorker}
           /\ started'[r] = started[r],
         pc'[Server] = "sweep_write" => pc[Server] = "sweep_write" /\ todo' = todo
  PROVE  FreshInv'
BY DEF FreshInv

\* A step of an execution leaves the others' submissions alone.
LEMMA FreshActor ==
  ASSUME TypeOK, ControlInv, BootInv, FreshInv, NEW a \in Actors,
         Read(a) \/ Write(a) \/ Fail(a) \/ Spawn(a) \/ Mark(a) \/ Exited(a) \/ Artifacts(a)
         \/ Wrapup(a) \/ Cleanup(a) \/ ResolveSecrets(a) \/ Validate(a) \/ Remote(a)
  PROVE  FreshInv'
<1> USE ActorKinds, TransitionPoints, LifecycleAssumption
<1>0. PointOK(a, job[a], pc[a])
  BY DEF ControlInv
<1>1. CASE Write(a)
  <2> DEFINE q == job[a]
  <2>1. /\ pc[a] \in Transitions /\ pc' = [pc EXCEPT ![a] = AfterWrite(a)]
        /\ status' = [status EXCEPT ![q] = Target[pc[a]]]
        /\ UNCHANGED <<born, owner, expired, job, host, boot, history>>
    BY <1>1 DEF Write, SetStatus, Goto
  <2>2. q \in Runs
    BY <1>0, <2>1 DEF PointOK, Free
  <2>3. Target[pc[a]] \in Status \ {"created", "absent"}
    BY <2>1 DEF Status, RunTransitions
  <2>4. AfterWrite(a) \notin {"new", "to_queued", "sweep_write"}
    BY <2>1 DEF AfterWrite
  <2>5. ASSUME NEW r \in Runs
        PROVE  /\ pc'[r] = "new" <=> status'[r] = "absent"
               /\ pc'[r] = "to_queued" /\ r \notin Direct => status'[r] = "created"
               /\ pc'[r] \notin {"new", "to_queued", "ended"} => status'[r] # "created"
    <3>1. CASE r = q /\ r = a
      <4>1. pc'[r] = AfterWrite(a) /\ status'[r] = Target[pc[a]]
        BY <2>1, <3>1 DEF TypeOK
      <4> QED BY <2>3, <2>4, <4>1
    <3>2. CASE r = q /\ r # a
      <4>1. pc'[r] = pc[r] /\ status'[r] = Target[pc[a]] /\ status[r] \notin {"absent", "created"}
        BY <2>1, <3>2 DEF TypeOK, FreshInv
      <4> QED BY <2>3, <4>1 DEF FreshInv
    <3>3. CASE r # q
      <4>1. pc'[r] = pc[r] /\ status'[r] = status[r]
        BY <2>1, <3>3 DEF TypeOK, ControlInv
      <4> QED BY <4>1 DEF FreshInv
    <3> QED BY <3>1, <3>2, <3>3
  <2>6. ASSUME NEW r \in Runs, status'[r] \in {"absent", "created"}
        PROVE  status[r] = status'[r]
    BY <2>1, <2>2, <2>3, <2>6 DEF TypeOK
  <2>7. pc'[Server] = "sweep_write" => pc[Server] = "sweep_write" /\ \A r \in todo : status'[r] # "absent"
    BY <2>1, <2>3, <2>4 DEF TypeOK, FreshInv
  <2> HIDE DEF q
  <2> QED BY <2>1, <2>5, <2>6, <2>7 DEF FreshInv, host, boot, history
<1>2. CASE ~Write(a)
  <2>1. /\ status' = status /\ owner' = owner /\ todo' = todo
        /\ pc[a] \notin {"new", "ended"}
        /\ pc' = pc \/ \E point : Goto(a, point)
    BY <1>2
    DEF Read, Fail, Handler, Spawn, Mark, Exited, Artifacts, Wrapup, Cleanup, ResolveSecrets,
        Validate, Remote, row, boot
  <2>2. pc'[a] \notin {"new", "to_queued", "sweep_write"} \/ pc'[a] = pc[a]
    <3>1. CASE Read(a)
      <4>1. pc[a] \in Transitions /\ (pc' = pc \/ Goto(a, AfterInvalid(a)))
        BY <3>1 DEF Read
      <4>2. AfterInvalid(a) \notin {"new", "to_queued", "sweep_write"}
        BY <4>1 DEF AfterInvalid, Escape
      <4> QED BY <4>1, <4>2 DEF Goto, TypeOK
    <3>2. CASE Fail(a)
      BY <3>2 DEF Fail, Handler, Escape, Goto, TypeOK
    <3>3. CASE Cleanup(a)
      <4>1. \E point \in {Over(a), Escape(a), "dead"} : Goto(a, point)
        BY <3>3 DEF Cleanup
      <4>2. \A point \in {Over(a), Escape(a), "dead"} : point \notin {"new", "to_queued", "sweep_write"}
        BY DEF Over, Escape
      <4> QED BY <4>1, <4>2 DEF Goto, TypeOK
    <3>4. CASE ~Read(a) /\ ~Fail(a) /\ ~Cleanup(a)
      BY <1>2, <3>4
      DEF Spawn, Mark, Exited, Artifacts, Wrapup, ResolveSecrets, Validate, Remote, Goto, TypeOK
    <3> QED BY <3>1, <3>2, <3>3, <3>4
  <2>3. pc[a] = "to_queued" => pc'[a] \in {"to_queued", "ended"}
    <3> SUFFICES ASSUME pc[a] = "to_queued" PROVE pc'[a] \in {"to_queued", "ended"}
      OBVIOUS
    <3>1. Read(a)
      BY <1>2
      DEF Fail, Handler, Spawn, Mark, Exited, Artifacts, Wrapup, Cleanup, ResolveSecrets,
          Validate, Remote
    <3>2. pc' = pc \/ Goto(a, AfterInvalid(a))
      BY <3>1 DEF Read
    <3>3. AfterInvalid(a) = "ended"
      BY DEF AfterInvalid
    <3> QED BY <3>2, <3>3 DEF Goto, TypeOK
  <2>4. \A b \in Actors \ {a} : pc'[b] = pc[b]
    BY <2>1 DEF Goto, TypeOK
  <2>5. ASSUME NEW r \in Runs, status[r] \in {"absent", "created"}
        PROVE  /\ \A b \in Actors \ {r} : job'[b] = job[b] \/ job'[b] # r
               /\ r \in pods' => r \in pods
               /\ marker'[r] \in {marker[r], NoWorker} /\ started'[r] = started[r]
    <3>1. CASE Spawn(a) \/ Mark(a)
      <4>1. job[a] \in Runs /\ pc[a] \in {"spawn", "mark"}
        BY <1>0, <3>1 DEF PointOK, Free, Spawn, Mark
      <4>2. job[a] # r
        BY <2>5, <4>1, BusyIsSubmitted
      <4> QED BY <3>1, <4>1, <4>2 DEF Spawn, Mark, TypeOK, host, history
    <3>2. CASE Cleanup(a)
      <4>1. /\ marker' = IF IsManaged(a) THEN marker ELSE [marker EXCEPT ![job[a]] = NoWorker]
            /\ pods' = pods /\ started' = started
        BY <3>2 DEF Cleanup
      <4>2. job' = job \/ job' = [job EXCEPT ![a] = NoRun]
        BY <3>2 DEF Cleanup
      <4>3. marker'[r] \in {marker[r], NoWorker}
        BY <4>1 DEF TypeOK
      <4>4. \A b \in Actors : job'[b] = job[b] \/ job'[b] # r
        BY <4>2 DEF TypeOK
      <4> QED BY <4>1, <4>3, <4>4
    <3>3. CASE ~Spawn(a) /\ ~Mark(a) /\ ~Cleanup(a)
      BY <1>2, <3>3
      DEF Read, Fail, Exited, Artifacts, Wrapup, ResolveSecrets, Validate, Remote, host, history
    <3> QED BY <3>1, <3>2, <3>3
  <2>6. \A r \in Runs :
           /\ pc[r] = "new" <=> pc'[r] = "new"
           /\ pc'[r] = "to_queued" => pc[r] = "to_queued"
           /\ pc'[r] \notin {"new", "to_queued", "ended"} =>
                pc[r] \notin {"new", "to_queued", "ended"}
    BY <2>1, <2>2, <2>3, <2>4
  <2>7. pc'[Server] = "sweep_write" => pc[Server] = "sweep_write" /\ todo' = todo
    BY <2>1, <2>2, <2>4
  <2> QED BY <2>1, <2>5, <2>6, <2>7, FreshKept
<1> QED BY <1>1, <1>2

\* Every step leaves a run that is not in the queue to its submission.
LEMMA FreshStep ==
  TypeOK /\ ControlInv /\ BootInv /\ FreshInv /\ [Next]_vars => FreshInv'
<1> SUFFICES ASSUME TypeOK, ControlInv, BootInv, FreshInv, [Next]_vars PROVE FreshInv'
  OBVIOUS
<1> USE ActorKinds, LifecycleAssumption
<1>1. ASSUME NEW a \in Actors, Step(a) PROVE FreshInv'
  BY <1>1, FreshActor DEF Step
<1>2. ASSUME NEW A \in SUBSET (Actors \ {Server}), Die(A), UNCHANGED <<row, host, started>>,
             todo' = todo \/ pc'[Server] = "down"
      PROVE  FreshInv'
  <2>1. \A a \in Actors : job'[a] = job[a] \/ job'[a] = NoRun
    BY <1>2 DEF Die
  <2>2. \A r \in Runs : pc'[r] = pc[r] \/ (pc[r] # "new" /\ pc'[r] = "ended")
    BY <1>2 DEF Die, Killed
  <2>3. pc'[Server] = pc[Server] \/ pc'[Server] = "down"
    BY <1>2 DEF Die
  <2>4. status' = status /\ owner' = owner /\ pods' = pods /\ marker' = marker /\ started' = started
    BY <1>2 DEF row, host
  <2> QED BY <1>2, <2>1, <2>2, <2>3, <2>4, FreshKept
<1>3. ASSUME NEW a \in Actors, Crash(a) PROVE FreshInv'
  <2>1. {a} \in SUBSET (Actors \ {Server})
    BY <1>3 DEF Crash
  <2> QED BY <1>2, <1>3, <2>1 DEF Crash, boot
<1>4. CASE ServerCrash
  <2>1. InServer \in SUBSET (Actors \ {Server}) /\ Watcher \in InServer
    BY DEF InServer, Actors
  <2>2. Die(InServer) /\ UNCHANGED <<row, host, started>>
    BY <1>4 DEF ServerCrash
  <2>3. pc'[Server] = "down"
    BY <2>1, <2>2 DEF Die
  <2> QED BY <1>2, <2>1, <2>2, <2>3
<1>5. ASSUME NEW r \in Runs, Submit(r) PROVE FreshInv'
  <2>1. /\ pc[r] = "new" /\ pc' = [pc EXCEPT ![r] = "to_queued"]
        /\ status' = [status EXCEPT ![r] = "created"]
        /\ UNCHANGED <<owner, job, pods, marker, started, todo>>
    BY <1>5 DEF Submit, SetStatus, Goto, host, boot, history
  <2>2. status[r] = "absent"
    BY <2>1 DEF FreshInv
  <2>3. \A q \in Runs : status'[q] = IF q = r THEN "created" ELSE status[q]
    BY <2>1 DEF TypeOK
  <2>4. \A a \in Actors : pc'[a] = IF a = r THEN "to_queued" ELSE pc[a]
    BY <2>1 DEF TypeOK
  <2>5. \A q \in todo : q \in Runs
    BY DEF TypeOK
  <2> QED BY <2>1, <2>2, <2>3, <2>4, <2>5 DEF FreshInv
<1>6. ASSUME NEW r \in Runs, Checks(r) PROVE FreshInv'
  <2>1. /\ pc[r] = "checks" /\ UNCHANGED <<row, mid, job, host, boot, history>>
        /\ \E point \in {"to_failed_submit", "to_submitting", "ended"} : Goto(r, point)
    BY <1>6 DEF Checks
  <2>2. \A a \in Actors : pc'[a] = pc[a] \/ (a = r /\ pc'[r] \in {"to_failed_submit", "to_submitting", "ended"})
    BY <2>1 DEF Goto, TypeOK
  <2> QED BY <2>1, <2>2, FreshKept DEF row, host, boot, history
<1>7. ASSUME NEW r \in Runs, Lapse(r) PROVE FreshInv'
  BY <1>7, FreshKept DEF Lapse, host, boot
<1>8. ASSUME NEW r \in Runs, Watch(r) PROVE FreshInv'
  <2>1. /\ r \in pods /\ job' = [job EXCEPT ![Watcher] = r]
        /\ \E point \in {"to_pod_failed", "to_pod_collecting", "to_pod_succeeded"} : Goto(Watcher, point)
        /\ UNCHANGED <<row, mid, host, boot, history>>
    BY <1>8 DEF Watch
  <2>2. status[r] \notin {"absent", "created"}
    BY <2>1 DEF FreshInv
  <2>3. \A a \in Actors \ {Watcher} : pc'[a] = pc[a] /\ job'[a] = job[a]
    BY <2>1 DEF Goto, TypeOK
  <2>4. job'[Watcher] = r
    BY <2>1 DEF TypeOK
  <2> QED BY <2>1, <2>2, <2>3, <2>4, FreshKept DEF row, host, boot, history
<1>9. ASSUME NEW w \in Workers, WorkerStep(w) \/ Restart(w) PROVE FreshInv'
  <2>1. /\ status' = status /\ UNCHANGED <<host, boot, started>>
        /\ \A a \in Actors \ {w} : pc'[a] = pc[a] /\ job'[a] = job[a]
    BY <1>9 DEF WorkerStep, Claim, Preflight, OnError, Release, Restart, Goto, TypeOK, row, history
  <2>2. ASSUME NEW r \in Runs, status[r] \in {"absent", "created"}
        PROVE  owner'[r] \in {owner[r], NoWorker} /\ job'[w] # r
    <3>1. job[w] # r /\ NoRun # r
      BY <2>2 DEF FreshInv
    <3>2. ASSUME NEW q \in Runs, Claim(w, q) PROVE owner'[r] = owner[r] /\ job'[w] = q /\ q # r
      BY <2>2, <3>2 DEF Claim, FirstClaimable, Claimable, TypeOK
    <3>3. CASE Preflight(w) \/ OnError(w) \/ Restart(w)
      BY <3>1, <3>3 DEF Preflight, OnError, Restart, row
    <3>4. CASE Release(w)
      BY <3>1, <3>4 DEF Release, TypeOK
    <3> QED BY <1>9, <3>1, <3>2, <3>3, <3>4 DEF WorkerStep
  <2> QED BY <2>1, <2>2, FreshKept DEF host, boot
<1>10. ASSUME NEW p \in Actors \X Runs, ProcessEnds(p) PROVE FreshInv'
  BY <1>10, FreshKept DEF ProcessEnds, row, boot, history
<1>11. CASE Shutdown
  <2>1. /\ status' = status /\ UNCHANGED <<owner, pods, marker, started>> /\ pc'[Server] = "stopping"
        /\ \A r \in Runs : pc'[r] = pc[r]
        /\ \A a \in Actors : job'[a] = job[a] \/ job'[a] = NoRun
    BY <1>11 DEF Shutdown, row, host
  <2> QED BY <2>1, FreshKept
<1>12. CASE ServerExit \/ ServerUp
  <2>1. /\ status' = status /\ UNCHANGED <<owner, pods, marker, started, job>>
        /\ pc'[Server] \in {"down", "up"} /\ \A r \in Runs : pc'[r] = pc[r]
    BY <1>12 DEF ServerExit, ServerUp, row, host, history
  <2> QED BY <2>1, FreshKept
<1>13. ASSUME UNCHANGED <<row, pods, started>>, \A a \in Actors \ {Server} : pc'[a] = pc[a] /\ job'[a] = job[a],
              \A r \in Runs : status[r] \in {"absent", "created"} =>
                 job'[Server] # r /\ marker'[r] \in {marker[r], NoWorker},
              pc'[Server] # "sweep_write"
       PROVE  FreshInv'
  BY <1>13, FreshKept DEF row
<1>14. CASE Boot \/ Unmark
  BY <1>13, <1>14 DEF Boot, Unmark, FreshInv, Goto, TypeOK, host, history
<1>15. ASSUME NEW r \in Runs, Orphan(r) PROVE FreshInv'
  BY <1>13, <1>15 DEF Orphan, FreshInv, Goto, TypeOK, history
<1>16. CASE Sweep
  <2>1. /\ UNCHANGED <<row, job, host, history>> /\ \A r \in todo' : status[r] # "absent"
        /\ \A a \in Actors \ {Server} : pc'[a] = pc[a]
    BY <1>16 DEF Sweep, Goto, TypeOK
  <2> QED BY <2>1 DEF FreshInv, row, host, history
<1>17. CASE SweepWrite
  <2>1. /\ \A r \in Runs : status'[r] = IF r \in todo THEN "lost" ELSE status[r]
        /\ UNCHANGED <<owner, job, host, history>> /\ pc'[Server] = "starting"
        /\ \A a \in Actors \ {Server} : pc'[a] = pc[a]
    BY <1>17 DEF SweepWrite, Goto, TypeOK
  <2>2. pc[Server] = "sweep_write"
    BY <1>17 DEF SweepWrite
  <2>3. \A r \in Runs \ Direct : pc[r] \in {"new", "ended"}
    BY <2>2 DEF BootInv
  <2> QED BY <2>1, <2>2, <2>3 DEF FreshInv, host, history
<1>18. CASE UNCHANGED vars
  BY <1>18, FreshKept DEF vars, row, host, boot, history
<1> QED
  BY <1>1, <1>3, <1>4, <1>5, <1>6, <1>7, <1>8, <1>9, <1>10, <1>11, <1>12, <1>14, <1>15, <1>16,
     <1>17, <1>18
  DEF Next, Startup

-----------------------------------------------------------------------------
(* A run that somebody has moved on has left the queue.                    *)

\* What a step of an execution leaves alone.
LEMMA ActorFrame ==
  ASSUME TypeOK, ControlInv, NEW a \in Actors,
         Read(a) \/ Write(a) \/ Fail(a) \/ Spawn(a) \/ Mark(a) \/ Exited(a) \/ Artifacts(a)
         \/ Wrapup(a) \/ Cleanup(a) \/ ResolveSecrets(a) \/ Validate(a) \/ Remote(a)
  PROVE  /\ \A b \in Actors \ {a} : pc'[b] = pc[b] /\ job'[b] = job[b] /\ mid'[b] = mid[b]
         /\ job' = job \/ (pc[a] = "cleanup_cancel" /\ Cleanup(a))
         /\ job'[a] \in {job[a], NoRun}
         /\ UNCHANGED <<born, owner, expired, boot>>
         /\ status' = status \/ Write(a)
         /\ pc[a] \notin Free \cup {"new", "ended", "checks", "preflight", "on_error", "abort",
                                    "release", "unmark"}
         /\ \A r \in Runs :
              /\ r \in pods' => r \in pods \/ (Spawn(a) /\ r = job[a])
              /\ started'[r] = started[r] \/ (Spawn(a) /\ r = job[a])
              /\ marker'[r] \in {marker[r], NoWorker} \/ (Mark(a) /\ r = job[a])
<1> USE TransitionPoints
<1>1. job' = job \/ (Cleanup(a) /\ pc[a] = "cleanup_cancel" /\ job' = [job EXCEPT ![a] = NoRun])
  BY DEF Read, Write, Fail, Spawn, Mark, Exited, Artifacts, Wrapup, Cleanup, ResolveSecrets,
         Validate, Remote
<1>2. pc' = pc \/ \E point : Goto(a, point)
  BY DEF Read, Write, Fail, Spawn, Mark, Exited, Artifacts, Wrapup, Cleanup, ResolveSecrets,
         Validate, Remote
<1>3. \E v \in BOOLEAN : mid' = [mid EXCEPT ![a] = v] \/ mid' = mid
  BY DEF Read, Write, Fail, Spawn, Mark, Exited, Artifacts, Wrapup, Cleanup, ResolveSecrets,
         Validate, Remote
<1>4. UNCHANGED <<born, owner, expired, boot>> /\ (status' = status \/ Write(a))
  BY DEF Read, Write, Fail, Spawn, Mark, Exited, Artifacts, Wrapup, Cleanup, ResolveSecrets,
         Validate, Remote, row
<1>5. pc[a] \notin Free \cup {"new", "ended", "checks", "preflight", "on_error", "abort",
                              "release", "unmark"}
  BY DEF Read, Write, Fail, Handler, Spawn, Mark, Exited, Artifacts, Wrapup, Cleanup,
         ResolveSecrets, Validate, Remote, Free
<1>6. ASSUME NEW r \in Runs
      PROVE  /\ r \in pods' => r \in pods \/ (Spawn(a) /\ r = job[a])
             /\ started'[r] = started[r] \/ (Spawn(a) /\ r = job[a])
             /\ marker'[r] \in {marker[r], NoWorker} \/ (Mark(a) /\ r = job[a])
  <2>1. CASE Spawn(a)
    BY <2>1 DEF Spawn, TypeOK
  <2>2. CASE Mark(a)
    BY <2>2 DEF Mark, TypeOK, history
  <2>3. CASE Cleanup(a)
    BY <2>3 DEF Cleanup, TypeOK
  <2>4. CASE ~Spawn(a) /\ ~Mark(a) /\ ~Cleanup(a)
    BY <2>4
    DEF Read, Write, Fail, Exited, Artifacts, Wrapup, ResolveSecrets, Validate, Remote, host, history
  <2> QED BY <2>1, <2>2, <2>3, <2>4
<1>7. \A b \in Actors \ {a} : pc'[b] = pc[b]
  BY <1>2 DEF Goto, TypeOK
<1>8. \A b \in Actors \ {a} : job'[b] = job[b]
  BY <1>1 DEF TypeOK
<1>9. \A b \in Actors \ {a} : mid'[b] = mid[b]
  BY <1>3 DEF TypeOK
<1>10. job'[a] \in {job[a], NoRun}
  BY <1>1 DEF TypeOK
<1> QED BY <1>1, <1>4, <1>5, <1>6, <1>7, <1>8, <1>9, <1>10

\* The steps that write a status.
LEMMA StatusSteps ==
  ASSUME TypeOK, ControlInv, FreshInv, [Next]_vars
  PROVE  \/ status' = status
         \/ \E r \in Runs : Submit(r)
         \/ \E a \in Actors : Write(a) /\ MayRun(a)
         \/ SweepWrite
BY DEF Next, Step, Read, Fail, Spawn, Mark, Exited, Artifacts, Wrapup, Cleanup, ResolveSecrets,
       Validate, Remote, Crash, Checks, Lapse, Watch, WorkerStep, Claim, Preflight, OnError, Release,
       Restart, ProcessEnds, ServerCrash, Shutdown, Startup, Boot, Unmark, Sweep, ServerUp,
       ServerExit, Orphan, vars, row

\* Only a direct submission can put a run back into the queue.
LEMMA LeftStable ==
  ASSUME TypeOK, ControlInv, FreshInv, [Next]_vars, NEW r \in Runs \ Direct, Left(r)
  PROVE  Left(r)'
<1>1. CASE status' = status
  BY <1>1 DEF Left
<1>2. ASSUME NEW q \in Runs, Submit(q) PROVE Left(r)'
  <2>1. status[q] = "absent" /\ status' = [status EXCEPT ![q] = "created"]
    BY <1>2 DEF Submit, SetStatus, FreshInv
  <2> QED BY <2>1 DEF Left, TypeOK
<1>3. ASSUME NEW a \in Actors, Write(a) PROVE Left(r)'
  <2>1. /\ pc[a] \in Transitions /\ status' = [status EXCEPT ![job[a]] = Target[pc[a]]]
        /\ PointOK(a, job[a], pc[a])
    BY <1>3 DEF Write, SetStatus, ControlInv
  <2>2. CASE pc[a] = "to_queued"
    <3>1. a \in Runs /\ job[a] = a
      BY <2>1, <2>2
      DEF PointOK, ServerPoints, WatcherPoints, ExecutionPoints, WorkerPoints, Actors, ControlInv
    <3>2. a # r
      BY <2>2 DEF FreshInv, Left
    <3> QED BY <2>1, <3>1, <3>2 DEF Left, TypeOK
  <2>3. CASE pc[a] # "to_queued"
    <3>1. Target[pc[a]] \notin {"absent", "created", "queued"}
      BY <2>1, <2>3 DEF Transitions, Target
    <3> QED BY <2>1, <3>1 DEF Left, TypeOK
  <2> QED BY <2>2, <2>3
<1>4. CASE SweepWrite
  BY <1>4 DEF SweepWrite, Left
<1> QED BY <1>1, <1>2, <1>3, <1>4, StatusSteps

\* Nothing has been moved on at first.
LEMMA LeftInit == Init => LeftInv
BY LifecycleAssumption, ActorKinds DEF Init, LeftInv

\* What is known of runs that have left the queue stays so, if who takes one
\* up finds it there or beyond.
LEMMA LeftKept ==
  ASSUME TypeOK, LeftInv, \A r \in Runs \ Direct : Left(r) => Left(r)',
         \A r \in Runs \ Direct :
           /\ r \in pods' => r \in pods \/ Left(r)'
           /\ marker'[r] \in {marker[r], NoWorker} \/ Left(r)'
           /\ started'[r] = started[r] \/ Left(r)'
           /\ \A a \in {Server, Watcher} : job'[a] = r => job[a] = r \/ Left(r)'
           /\ \A w \in Workers : job'[w] = r =>
                \/ job[w] = r /\ pc'[w] = pc[w]
                \/ job[w] = r /\ Left(r)' /\ pc'[w] # "to_preparing"
                \/ pc'[w] = "preflight"
                \/ pc'[w] = "abort" /\ r \in Poison
                \/ pc'[w] = "to_preparing" /\ r \notin Poison
  PROVE  LeftInv'
BY DEF LeftInv

\* Whoever works on a run beyond its first transition finds it out of the queue.
LEMMA WorkedOnIsLeft ==
  ASSUME TypeOK, ControlInv, LeftInv, NEW a \in Actors, job[a] \in Runs \ Direct,
         pc[a] \notin DeferredPoints \cup {"preflight", "to_preparing", "abort"}
  PROVE  Left(job[a])
<1>1. CASE a \in Workers
  BY <1>1 DEF LeftInv
<1>2. CASE a \in {Server, Watcher}
  BY <1>2 DEF LeftInv
<1>3. CASE a \in Runs
  BY <1>3 DEF ControlInv, PointOK
<1> QED BY <1>1, <1>2, <1>3 DEF Actors

\* Every step keeps what is known of the runs that have left the queue.
LEMMA LeftStep ==
  TypeOK /\ ControlInv /\ BootInv /\ FreshInv /\ LeftInv /\ [Next]_vars => LeftInv'
<1> SUFFICES ASSUME TypeOK, ControlInv, BootInv, FreshInv, LeftInv, [Next]_vars
             PROVE  LeftInv'
  OBVIOUS
<1> USE ActorKinds, LifecycleAssumption
<1>0. \A r \in Runs \ Direct : Left(r) => Left(r)'
  BY LeftStable
<1>1. ASSUME NEW a \in Actors, Step(a) PROVE LeftInv'
  <2>1. PointOK(a, job[a], pc[a])
    BY DEF ControlInv
  <2>2. Read(a) \/ Write(a) \/ Fail(a) \/ Spawn(a) \/ Mark(a) \/ Exited(a) \/ Artifacts(a)
         \/ Wrapup(a) \/ Cleanup(a) \/ ResolveSecrets(a) \/ Validate(a) \/ Remote(a)
    BY <1>1 DEF Step
  <2>3. ASSUME NEW r \in Runs \ Direct, Spawn(a) \/ Mark(a), r = job[a] PROVE Left(r)
    BY <2>3, WorkedOnIsLeft DEF Spawn, Mark, DeferredPoints
  <2>4. ASSUME NEW r \in Runs \ Direct, a \in Workers, job'[a] = r
        PROVE  \/ job[a] = r /\ pc'[a] = pc[a]
               \/ job[a] = r /\ Left(r)' /\ pc'[a] # "to_preparing"
    <3>1. job[a] = r /\ pc[a] \in WorkerPoints
      BY <2>1, <2>2, <2>4, ActorFrame DEF PointOK
    <3>2. CASE pc[a] = "to_preparing"
      <4>1. Read(a) \/ Write(a)
        BY <2>2, <3>2
        DEF Fail, Handler, Spawn, Mark, Exited, Artifacts, Wrapup, Cleanup, ResolveSecrets,
            Validate, Remote
      <4>2. status[r] \notin {"absent", "created"}
        BY <3>1, <3>2, BusyIsSubmitted
      <4>3. CASE Write(a)
        <5>1. status'[r] = "preparing" /\ pc'[a] = "to_validating"
          BY <3>1, <3>2, <4>3 DEF Write, SetStatus, Goto, TypeOK, Target, AfterWrite
        <5> QED BY <3>1, <5>1 DEF Left
      <4>4. CASE Read(a) /\ pc' # pc
        <5>1. /\ ~IsValidTransition(status[r], "preparing") /\ status' = status
              /\ pc' = [pc EXCEPT ![a] = AfterInvalid(a)]
          BY <3>1, <3>2, <4>4 DEF Read, Goto, Target, row
        <5>2. AfterInvalid(a) # "to_preparing"
          BY <3>2 DEF AfterInvalid, Escape
        <5>3. status[r] # "queued"
          BY <5>1 DEF IsValidTransition, Status, RunTransitions
        <5> QED BY <3>1, <4>2, <5>1, <5>2, <5>3 DEF Left, TypeOK
      <4> QED BY <3>1, <4>1, <4>3, <4>4
    <3>3. CASE pc[a] # "to_preparing"
      <4>1. pc[a] \notin DeferredPoints \cup {"preflight", "to_preparing", "abort"}
        BY <2>2, <3>1, <3>3, ActorFrame DEF WorkerPoints, ExecutionPoints, DeferredPoints
      <4>2. Left(r)
        BY <3>1, <4>1, WorkedOnIsLeft
      <4>3. pc'[a] # "to_preparing"
        <5>1. CASE Read(a)
          <6>1. pc[a] \in Transitions /\ (pc' = pc \/ Goto(a, AfterInvalid(a)))
            BY <5>1 DEF Read
          <6>2. AfterInvalid(a) # "to_preparing"
            BY <6>1, TransitionPoints DEF AfterInvalid, Escape
          <6> QED BY <3>3, <6>1, <6>2 DEF Goto, TypeOK
        <5>2. CASE Write(a)
          <6>1. pc[a] \in Transitions /\ Goto(a, AfterWrite(a))
            BY <5>2 DEF Write
          <6>2. AfterWrite(a) # "to_preparing"
            BY <4>1, <6>1, TransitionPoints DEF AfterWrite, DeferredPoints
          <6> QED BY <6>1, <6>2 DEF Goto, TypeOK
        <5>3. CASE Fail(a)
          BY <5>3 DEF Fail, Handler, Escape, Goto, TypeOK
        <5>4. CASE Cleanup(a)
          <6>1. \E point \in {Over(a), Escape(a), "dead"} : Goto(a, point)
            BY <5>4 DEF Cleanup
          <6>2. \A point \in {Over(a), Escape(a), "dead"} : point # "to_preparing"
            BY DEF Over, Escape
          <6> QED BY <6>1, <6>2 DEF Goto, TypeOK
        <5>5. CASE Spawn(a) \/ Mark(a) \/ Exited(a) \/ Artifacts(a) \/ Wrapup(a)
                   \/ ResolveSecrets(a) \/ Validate(a) \/ Remote(a)
          BY <5>5
          DEF Spawn, Mark, Exited, Artifacts, Wrapup, ResolveSecrets, Validate, Remote, Goto, TypeOK
        <5> QED BY <2>2, <5>1, <5>2, <5>3, <5>4, <5>5
      <4> QED BY <1>0, <3>1, <4>2, <4>3
    <3> QED BY <3>2, <3>3
  <2>5. /\ \A b \in Actors \ {a} : pc'[b] = pc[b] /\ job'[b] = job[b]
        /\ job'[a] \in {job[a], NoRun}
        /\ \A r \in Runs :
              /\ r \in pods' => r \in pods \/ (Spawn(a) /\ r = job[a])
              /\ started'[r] = started[r] \/ (Spawn(a) /\ r = job[a])
              /\ marker'[r] \in {marker[r], NoWorker} \/ (Mark(a) /\ r = job[a])
    BY <2>2, ActorFrame
  <2> QED BY <1>0, <2>3, <2>4, <2>5, LeftKept
<1>2. ASSUME UNCHANGED <<pods, started>>,
             \A r \in Runs : marker'[r] \in {marker[r], NoWorker},
             \A a \in {Server, Watcher} : job'[a] = job[a],
             \A w \in Workers : job'[w] = NoRun \/ (job'[w] = job[w] /\ pc'[w] = pc[w])
                                \/ (job'[w] = job[w] /\ pc[w] \in {"spawn", "await"} /\ pc'[w] = "to_cancelled")
      PROVE  LeftInv'
  <2>1. ASSUME NEW r \in Runs \ Direct, NEW w \in Workers, job[w] = r, pc[w] \in {"spawn", "await"}
        PROVE  Left(r)'
    BY <1>0, <2>1, WorkedOnIsLeft DEF DeferredPoints
  <2> QED BY <1>0, <1>2, <2>1, LeftKept
<1>3. ASSUME NEW A \in SUBSET (Actors \ {Server}), Die(A), UNCHANGED <<host, started>>
      PROVE  LeftInv'
  <2>1. /\ \A w \in Workers : job'[w] = NoRun \/ (job'[w] = job[w] /\ pc'[w] = pc[w])
        /\ \A a \in {Server, Watcher} : job'[a] = job[a]
    BY <1>3 DEF Die
  <2> QED BY <1>2, <1>3, <2>1 DEF host
<1>4. ASSUME NEW a \in Actors, Crash(a) PROVE LeftInv'
  <2>1. {a} \in SUBSET (Actors \ {Server})
    BY <1>4 DEF Crash
  <2> QED BY <1>3, <1>4, <2>1 DEF Crash
<1>5. CASE ServerCrash
  <2>1. InServer \in SUBSET (Actors \ {Server})
    BY DEF InServer, Actors
  <2> QED BY <1>3, <1>5, <2>1 DEF ServerCrash
<1>6. ASSUME NEW r \in Runs, Submit(r) \/ Checks(r) \/ Lapse(r) PROVE LeftInv'
  <2>1. /\ UNCHANGED <<host, started, job>> /\ \A w \in Workers : pc'[w] = pc[w]
    BY <1>6 DEF Submit, Checks, Lapse, Goto, TypeOK, history
  <2> QED BY <1>2, <2>1 DEF host
<1>7. ASSUME NEW r \in Runs, Watch(r) PROVE LeftInv'
  <2>1. /\ r \in pods /\ job' = [job EXCEPT ![Watcher] = r] /\ UNCHANGED <<host, history>>
        /\ \A w \in Workers : pc'[w] = pc[w]
    BY <1>7 DEF Watch, Goto, TypeOK
  <2>2. r \notin Direct => Left(r)'
    BY <1>0, <2>1 DEF LeftInv
  <2>3. job'[Watcher] = r /\ \A a \in Actors \ {Watcher} : job'[a] = job[a]
    BY <2>1 DEF TypeOK
  <2> QED BY <1>0, <2>1, <2>2, <2>3, LeftKept DEF host, history
<1>8. ASSUME NEW w \in Workers, WorkerStep(w) \/ Restart(w) PROVE LeftInv'
  <2>1. /\ UNCHANGED <<host, started>>
        /\ \A a \in Actors \ {w} : pc'[a] = pc[a] /\ job'[a] = job[a]
    BY <1>8 DEF WorkerStep, Claim, Preflight, OnError, Release, Restart, Goto, TypeOK, history
  <2>2. ASSUME NEW r \in Runs \ Direct, job'[w] = r
        PROVE  \/ job[w] = r /\ pc'[w] = pc[w]
               \/ job[w] = r /\ Left(r)' /\ pc'[w] # "to_preparing"
               \/ pc'[w] = "preflight"
               \/ pc'[w] = "abort" /\ r \in Poison
               \/ pc'[w] = "to_preparing" /\ r \notin Poison
    <3>1. ASSUME NEW q \in Runs, Claim(w, q) PROVE pc'[w] = "preflight"
      BY <3>1 DEF Claim, Goto, TypeOK
    <3>2. CASE Preflight(w)
      BY <2>2, <3>2 DEF Preflight, Goto, TypeOK
    <3>3. CASE OnError(w)
      <4>1. job[w] = r /\ pc[w] = "on_error" /\ pc'[w] \in {"abort", "to_failed_outer"}
        BY <2>2, <3>3 DEF OnError, Goto, TypeOK
      <4>2. Left(r)
        BY <4>1, WorkedOnIsLeft DEF DeferredPoints
      <4> QED BY <1>0, <4>1, <4>2
    <3>4. CASE Release(w)
      BY <2>2, <3>4 DEF Release, TypeOK
    <3>5. CASE Restart(w)
      <4>1. pc[w] = "dead" /\ job' = job
        BY <3>5 DEF Restart
      <4> QED BY <2>2, <4>1 DEF ControlInv, PointOK
    <3> QED BY <1>8, <3>1, <3>2, <3>3, <3>4, <3>5 DEF WorkerStep
  <2> QED BY <1>0, <2>1, <2>2, LeftKept DEF host
<1>9. ASSUME NEW p \in Actors \X Runs, ProcessEnds(p) PROVE LeftInv'
  BY <1>2, <1>9 DEF ProcessEnds, history
<1>10. CASE Shutdown
  <2>1. /\ UNCHANGED <<host, started>> /\ \A a \in {Server, Watcher} : job'[a] = job[a]
        /\ \A w \in Workers : job'[w] = NoRun \/ (job'[w] = job[w] /\ pc'[w] = pc[w])
                              \/ (job'[w] = job[w] /\ pc[w] \in {"spawn", "await"} /\ pc'[w] = "to_cancelled")
    BY <1>10 DEF Shutdown
  <2> QED BY <1>2, <2>1 DEF host
<1>11. CASE ServerExit \/ ServerUp
  <2>1. /\ UNCHANGED <<pods, marker, started, job>>
        /\ \A w \in Workers \ Resident : pc'[w] = pc[w]
    BY <1>11 DEF ServerExit, ServerUp, host, history
  <2>2. \A w \in Resident : pc[w] \in {"dead", "idle"}
    BY <1>11 DEF ServerExit, ServerUp, BootInv
  <2>3. \A w \in Resident : job[w] = NoRun
    BY <2>2 DEF ControlInv, PointOK
  <2> QED BY <1>2, <2>1, <2>3
<1>12. ASSUME UNCHANGED <<pods, started>>, \A w \in Workers : pc'[w] = pc[w] /\ job'[w] = job[w],
              job'[Watcher] = job[Watcher],
              \A r \in Runs : job'[Server] = r => job[Server] = r \/ marker[r] # NoWorker,
              \A r \in Runs : marker'[r] \in {marker[r], NoWorker}
       PROVE  LeftInv'
  <2>1. \A r \in Runs \ Direct : marker[r] # NoWorker => Left(r)'
    BY <1>0 DEF LeftInv
  <2> QED BY <1>0, <1>12, <2>1, LeftKept
<1>13. CASE Boot \/ Unmark \/ Sweep \/ SweepWrite
  BY <1>12, <1>13 DEF Boot, Unmark, Sweep, SweepWrite, Goto, TypeOK, host, history
<1>14. ASSUME NEW r \in Runs, Orphan(r) PROVE LeftInv'
  BY <1>12, <1>14 DEF Orphan, Goto, TypeOK, history
<1>15. CASE UNCHANGED vars
  BY <1>2, <1>15 DEF vars, host, history
<1> QED
  BY <1>1, <1>4, <1>5, <1>6, <1>7, <1>8, <1>9, <1>10, <1>11, <1>13, <1>14, <1>15
  DEF Next, Startup

-----------------------------------------------------------------------------
(* Workers that have died.                                                 *)

\* Nobody has died at first.
LEMMA DeadInit == Init => DeadInv
BY LifecycleAssumption, ActorKinds DEF Init, DeadInv

\* Who stops is recorded, and who gives up a run gives up its lease.
LEMMA DeadStep ==
  TypeOK /\ ControlInv /\ BootInv /\ DeadInv /\ [Next]_vars => DeadInv'
<1> SUFFICES ASSUME TypeOK, ControlInv, BootInv, DeadInv, [Next]_vars
             PROVE  DeadInv'
  OBVIOUS
<1> USE ActorKinds, LifecycleAssumption
<1>1. ASSUME crashed \subseteq crashed', lapsed' \subseteq lapsed,
             \A w \in Resident : pc'[w] = "dead" => pc[w] = "dead" \/ w \in crashed',
             \A w \in Workers : job'[w] = NoRun => job[w] = NoRun \/ w \notin lapsed',
             \A w \in Workers \ Resident : pc'[w] \in {"to_cancelled", "cleanup_cancel"} =>
                                           pc[w] \in {"to_cancelled", "cleanup_cancel"}
      PROVE  DeadInv'
  BY <1>1 DEF DeadInv
<1>2. ASSUME NEW a \in Actors, Step(a) PROVE DeadInv'
  <2>1. Read(a) \/ Write(a) \/ Fail(a) \/ Spawn(a) \/ Mark(a) \/ Exited(a) \/ Artifacts(a)
         \/ Wrapup(a) \/ Cleanup(a) \/ ResolveSecrets(a) \/ Validate(a) \/ Remote(a)
    BY <1>2 DEF Step
  <2>2. \A b \in Actors \ {a} : pc'[b] = pc[b] /\ job'[b] = job[b]
    BY <2>1, ActorFrame
  <2>3. CASE Cleanup(a) /\ pc[a] = "cleanup_cancel"
    <3>1. /\ job' = [job EXCEPT ![a] = NoRun] /\ lapsed' = lapsed \ {a}
          /\ crashed' = crashed \cup {a} /\ Goto(a, "dead")
      BY <2>3 DEF Cleanup
    <3> QED BY <1>1, <2>2, <3>1 DEF Goto, TypeOK
  <2>4. CASE ~(Cleanup(a) /\ pc[a] = "cleanup_cancel")
    <3>1. UNCHANGED <<job, lapsed, crashed>>
      BY <2>1, <2>4
      DEF Read, Write, Fail, Spawn, Mark, Exited, Artifacts, Wrapup, Cleanup, ResolveSecrets,
          Validate, Remote, history
    <3>2. \/ pc'[a] \notin {"dead", "to_cancelled", "cleanup_cancel"}
          \/ pc'[a] = pc[a] \/ (pc[a] = "to_cancelled" /\ pc'[a] = "cleanup_cancel")
      <4>1. CASE Read(a)
        <5>1. pc[a] \in Transitions /\ (pc' = pc \/ Goto(a, AfterInvalid(a)))
          BY <4>1 DEF Read
        <5>2. AfterInvalid(a) \notin {"dead", "to_cancelled", "cleanup_cancel"}
          BY <5>1, TransitionPoints DEF AfterInvalid, Escape
        <5> QED BY <5>1, <5>2 DEF Goto, TypeOK
      <4>2. CASE Write(a)
        <5>1. pc[a] \in Transitions /\ Goto(a, AfterWrite(a))
          BY <4>2 DEF Write
        <5>2. \/ AfterWrite(a) \notin {"dead", "to_cancelled", "cleanup_cancel"}
              \/ pc[a] = "to_cancelled" /\ AfterWrite(a) = "cleanup_cancel"
          BY <5>1, TransitionPoints DEF AfterWrite
        <5> QED BY <5>1, <5>2 DEF Goto, TypeOK
      <4>3. CASE Fail(a)
        BY <4>3 DEF Fail, Handler, Escape, Goto, TypeOK
      <4>4. CASE Cleanup(a)
        <5>1. \E point \in {Over(a), Escape(a)} : Goto(a, point)
          BY <2>4, <4>4 DEF Cleanup
        <5>2. \A point \in {Over(a), Escape(a)} : point \notin {"dead", "to_cancelled", "cleanup_cancel"}
          BY DEF Over, Escape
        <5> QED BY <5>1, <5>2 DEF Goto, TypeOK
      <4>5. CASE Spawn(a) \/ Mark(a) \/ Exited(a) \/ Artifacts(a) \/ Wrapup(a)
                 \/ ResolveSecrets(a) \/ Validate(a) \/ Remote(a)
        BY <4>5
        DEF Spawn, Mark, Exited, Artifacts, Wrapup, ResolveSecrets, Validate, Remote, Goto, TypeOK
      <4> QED BY <2>1, <4>1, <4>2, <4>3, <4>4, <4>5
    <3> QED BY <1>1, <2>2, <3>1, <3>2
  <2> QED BY <2>3, <2>4
<1>3. ASSUME NEW A \in SUBSET (Actors \ {Server}), Die(A) PROVE DeadInv'
  <2>1. /\ lapsed' = lapsed \ A /\ crashed' = crashed \cup (A \cap Workers)
        /\ \A w \in Workers : /\ pc'[w] = pc[w] \/ pc'[w] = "dead"
                              /\ pc'[w] = "dead" => pc[w] = "dead" \/ w \in A
                              /\ job'[w] = NoRun => job[w] = NoRun \/ w \in A
    BY <1>3 DEF Die, Killed
  <2> QED BY <1>1, <2>1
<1>4. ASSUME NEW a \in Actors, Crash(a) PROVE DeadInv'
  <2>1. {a} \in SUBSET (Actors \ {Server}) /\ Die({a})
    BY <1>4 DEF Crash
  <2> QED BY <1>3, <2>1
<1>5. CASE ServerCrash
  <2>1. InServer \in SUBSET (Actors \ {Server})
    BY DEF InServer, Actors
  <2> QED BY <1>3, <1>5, <2>1 DEF ServerCrash
<1>6. ASSUME NEW r \in Runs, Submit(r) \/ Checks(r) \/ Watch(r) PROVE DeadInv'
  <2>1. UNCHANGED <<lapsed, crashed>> /\ \A w \in Workers : pc'[w] = pc[w] /\ job'[w] = job[w]
    BY <1>6 DEF Submit, Checks, Watch, Goto, TypeOK, history
  <2> QED BY <1>1, <2>1
<1>7. ASSUME NEW r \in Runs, Lapse(r) PROVE DeadInv'
  BY <1>7 DEF Lapse, DeadInv, TypeOK
<1>8. ASSUME NEW w \in Workers, WorkerStep(w) \/ Restart(w) PROVE DeadInv'
  <2>1. \A b \in Actors \ {w} : pc'[b] = pc[b] /\ job'[b] = job[b]
    BY <1>8 DEF WorkerStep, Claim, Preflight, OnError, Release, Restart, Goto, TypeOK
  <2>2. crashed' = crashed /\ lapsed' \in {lapsed, lapsed \ {w}}
    BY <1>8 DEF WorkerStep, Claim, Preflight, OnError, Release, Restart, history
  <2>3. job'[w] = job[w] \/ w \notin lapsed'
    BY <1>8 DEF WorkerStep, Claim, Preflight, OnError, Release, Restart
  <2>4. pc'[w] \notin {"to_cancelled", "cleanup_cancel"} /\ (w \in Resident => pc'[w] # "dead")
    BY <1>8 DEF WorkerStep, Claim, Preflight, OnError, Release, Restart, Goto, TypeOK
  <2> QED BY <1>1, <2>1, <2>2, <2>3, <2>4
<1>9. ASSUME NEW p \in Actors \X Runs, ProcessEnds(p) PROVE DeadInv'
  BY <1>1, <1>9 DEF ProcessEnds, history
<1>10. CASE Shutdown
  <2>1. /\ lapsed' = lapsed \ {w \in Resident : job[w] # NoRun /\ job'[w] = NoRun}
        /\ crashed' = crashed \cup {w \in Resident : job'[w] = NoRun}
        /\ \A w \in Workers : pc'[w] = IF w \in Resident
                    THEN IF pc[w] \in {"spawn", "await"} THEN "to_cancelled" ELSE "dead"
                    ELSE pc[w]
        /\ \A w \in Workers : job'[w] = IF w \in Resident /\ pc[w] \notin {"spawn", "await"}
                              THEN NoRun ELSE job[w]
    BY <1>10 DEF Shutdown
  <2> QED BY <1>1, <2>1
<1>11. CASE ServerExit \/ ServerUp
  <2>1. /\ UNCHANGED <<job, lapsed>> /\ crashed \subseteq crashed'
        /\ \A w \in Resident : pc'[w] = "dead" => w \in crashed'
        /\ \A w \in Workers \ Resident : pc'[w] = pc[w]
    BY <1>11 DEF ServerExit, ServerUp, history
  <2> QED BY <1>1, <2>1
<1>12. CASE Boot \/ Unmark \/ Sweep \/ SweepWrite \/ \E r \in Runs : Orphan(r)
  <2>1. UNCHANGED <<lapsed, crashed>> /\ \A w \in Workers : pc'[w] = pc[w] /\ job'[w] = job[w]
    BY <1>12 DEF Boot, Unmark, Sweep, SweepWrite, Orphan, Goto, TypeOK, history
  <2> QED BY <1>1, <2>1
<1>13. CASE UNCHANGED vars
  BY <1>1, <1>13 DEF vars, history
<1> QED
  BY <1>2, <1>4, <1>5, <1>6, <1>7, <1>8, <1>9, <1>10, <1>11, <1>12, <1>13 DEF Next, Startup

-----------------------------------------------------------------------------
(* The queue: where every run is left to it, one server and any number of  *)
(* other workers use it as RunQueue has it.                                *)

QueuePhase(r) ==
  IF status[r] \in {"absent", "created", "queued"} THEN status[r] ELSE "left"

\* The server is one process with one drain loop, which may stop at any time,
\* and runs are submitted through it.
OneServer ==
  /\ Direct = {}
  /\ Resident \subseteq Mortal
  /\ \A v, w \in Resident : v = w

QueueInv == TypeOK /\ ControlInv /\ BootInv /\ FreshInv /\ LeftInv /\ DeadInv

\* What an instance keeps in all its behaviours.
LEMMA QueueInvInit == Init => QueueInv
BY ControlInit, FreshInit, LeftInit, DeadInit DEF QueueInv

LEMMA QueueInvStep == QueueInv /\ [Next]_vars => QueueInv'
BY ControlStep, BootStep, FreshStep, LeftStep, DeadStep DEF QueueInv

\* The queue does not see a step that leaves its columns and its workers.
LEMMA QueueStutters ==
  ASSUME \A r \in Runs : QueuePhase(r)' = QueuePhase(r),
         UNCHANGED <<born, owner, expired, lapsed, crashed>>,
         \A w \in Workers : job'[w] = job[w] /\ (pc'[w] = "dead" <=> pc[w] = "dead")
  PROVE  UNCHANGED Queue!vars
BY DEF Queue!vars, QueuePhase

\* The initial states are those of the queue.
LEMMA QueueInit == Init => Queue!Init
<1> SUFFICES ASSUME Init PROVE Queue!Init
  OBVIOUS
<1>1. \A w \in Workers : job[w] = NoRun /\ pc[w] # "dead"
  BY LifecycleAssumption, ActorKinds DEF Init
<1> QED BY <1>1 DEF Init, Queue!Init

\* A worker that dies, or is stopped, crashes in the queue too, unless it was
\* dead before.
LEMMA QueueDies ==
  ASSUME QueueInv, NEW w \in Workers, w \in Mortal, UNCHANGED row,
         \A v \in Workers \ {w} : job'[v] = job[v] /\ pc'[v] = pc[v],
         pc'[w] = "dead", job'[w] = NoRun,
         lapsed' = lapsed \ {w}, crashed' = crashed \cup {w},
         pc[w] = "dead" => w \in crashed
  PROVE  [Queue!Next]_Queue!vars
<1>1. CASE pc[w] = "dead"
  <2>1. job[w] = NoRun /\ w \notin lapsed
    BY <1>1, ActorKinds DEF QueueInv, ControlInv, PointOK, DeadInv
  <2>2. lapsed' = lapsed /\ crashed' = crashed
    BY <1>1, <2>1
  <2> QED BY <1>1, <2>1, <2>2, QueueStutters DEF row, QueuePhase
<1>2. CASE pc[w] # "dead"
  <2>1. [v \in Workers |-> job'[v]] = [[v \in Workers |-> job[v]] EXCEPT ![w] = NoRun]
    OBVIOUS
  <2>2. {v \in Workers : pc'[v] = "dead"} = {v \in Workers : pc[v] = "dead"} \cup {w}
    OBVIOUS
  <2>3. Queue!Crash(w)
    BY <1>2, <2>1, <2>2 DEF Queue!Crash, row
  <2> QED BY <2>3 DEF Queue!Next
<1> QED BY <1>1, <1>2

\* A worker that is dead and starts again recovers in the queue.
LEMMA QueueRecovers ==
  ASSUME NEW w \in Workers, pc[w] = "dead", pc'[w] # "dead",
         UNCHANGED <<row, lapsed, crashed>>, \A v \in Workers : job'[v] = job[v],
         \A v \in Workers \ {w} : pc'[v] = pc[v]
  PROVE  [Queue!Next]_Queue!vars
<1>1. {v \in Workers : pc'[v] = "dead"} = {v \in Workers : pc[v] = "dead"} \ {w}
  OBVIOUS
<1>2. Queue!Recover(w)
  BY <1>1 DEF Queue!Recover, row
<1> QED BY <1>2 DEF Queue!Next

\* A write of a status takes a run into the queue, starts it or takes it out,
\* or concerns a run that has left the queue.
LEMMA QueueWrites ==
  ASSUME QueueInv, OneServer, NEW a \in Actors, Write(a)
  PROVE  [Queue!Next]_Queue!vars
<1> USE ActorKinds
<1>0. pc[a] \in Transitions /\ job[a] \in Runs
  BY TransitionPoints DEF Write, QueueInv, ControlInv, PointOK, Free
<1> SUFFICES ASSUME NEW r \in Runs, r = job[a] PROVE [Queue!Next]_Queue!vars
  BY <1>0
<1>1. /\ pc[a] \in Transitions /\ PointOK(a, r, pc[a])
      /\ status' = [status EXCEPT ![r] = Target[pc[a]]]
      /\ pc' = [pc EXCEPT ![a] = AfterWrite(a)]
      /\ UNCHANGED <<born, owner, expired, job, lapsed, crashed>>
  BY DEF Write, SetStatus, Goto, history, QueueInv, ControlInv
<1>3. AfterWrite(a) # "dead" /\ pc[a] # "dead"
  BY <1>1, TransitionPoints DEF AfterWrite
<1>4. \A w \in Workers : pc'[w] = "dead" <=> pc[w] = "dead"
  BY <1>1, <1>3 DEF QueueInv, TypeOK
<1>5. \A q \in Runs : status'[q] = IF q = r THEN Target[pc[a]] ELSE status[q]
  BY <1>1 DEF QueueInv, TypeOK
<1>6. {w \in Workers : pc'[w] = "dead"} = {w \in Workers : pc[w] = "dead"}
  BY <1>4
<1>7. CASE Left(r)
  <2>1. Left(r)'
    <3>1. CASE pc[a] = "to_queued"
      <4>1. a \in Runs /\ r = a
        BY <1>1, <3>1
        DEF PointOK, ServerPoints, WatcherPoints, ExecutionPoints, WorkerPoints, Actors, QueueInv,
            ControlInv
      <4> QED BY <1>7, <3>1, <4>1 DEF FreshInv, QueueInv, Left, OneServer
    <3>2. CASE pc[a] # "to_queued"
      <4>1. Target[pc[a]] \notin {"absent", "created", "queued"}
        BY <1>1, <3>2 DEF Transitions, Target
      <4> QED BY <1>5, <4>1 DEF Left
    <3> QED BY <3>1, <3>2
  <2>2. \A q \in Runs : QueuePhase(q)' = QueuePhase(q)
    BY <1>5, <1>7, <2>1 DEF QueuePhase, Left
  <2> QED BY <1>1, <1>4, <2>2, QueueStutters
<1>8. CASE ~Left(r)
  <2>1. a \in Runs \/ (a \in Workers /\ pc[a] = "to_preparing" /\ r \notin Poison)
    BY <1>1, <1>8, TransitionPoints DEF QueueInv, LeftInv, OneServer, Actors
  <2>2. CASE a \in Runs
    <3>1. r = a /\ pc[a] \in {"to_queued", "to_failed_submit"}
      BY <1>1, <2>2, TransitionPoints DEF QueueInv, ControlInv, OneServer, PointOK, DeferredPoints
    <3>2. CASE pc[a] = "to_queued"
      <4>1. status[r] = "created" /\ Target[pc[a]] = "queued"
        BY <3>1, <3>2 DEF QueueInv, FreshInv, OneServer, Target
      <4>2. Queue!Enqueue(r)
        BY <1>1, <1>5, <1>6, <4>1 DEF Queue!Enqueue
      <4> QED BY <4>2 DEF Queue!Next
    <3>3. CASE pc[a] = "to_failed_submit"
      <4>1. status[r] \notin {"absent", "created"}
        BY <3>1, <3>3 DEF QueueInv, FreshInv
      <4>2. status[r] = "queued" /\ Target[pc[a]] = "failed"
        BY <1>8, <3>3, <4>1 DEF Left, Target
      <4>3. Queue!Withdraw({r})
        BY <1>1, <1>5, <1>6, <4>2 DEF Queue!Withdraw
      <4> QED BY <4>3 DEF Queue!Next
    <3> QED BY <3>1, <3>2, <3>3
  <2>3. CASE a \in Workers /\ pc[a] = "to_preparing" /\ r \notin Poison
    <3>1. status[r] \notin {"absent", "created"}
      BY <2>3, BusyIsSubmitted DEF QueueInv
    <3>2. status[r] = "queued" /\ Target[pc[a]] = "preparing" /\ r # NoRun
      BY <1>8, <2>3, <3>1, LifecycleAssumption DEF Left, Target
    <3>3. Queue!Start(a)
      BY <1>1, <1>5, <1>6, <2>3, <3>2 DEF Queue!Start
    <3> QED BY <2>3, <3>3 DEF Queue!Next, Queue!Execute
  <2> QED BY <2>1, <2>2, <2>3
<1> QED BY <1>7, <1>8

\* Startup reconciliation takes out of the queue what is still in it.
LEMMA QueueSwept ==
  ASSUME QueueInv, SweepWrite
  PROVE  [Queue!Next]_Queue!vars
<1> USE ActorKinds
<1>0. {r \in todo : status[r] \in {"created", "queued"}} \in SUBSET Runs
  BY DEF QueueInv, TypeOK
<1> SUFFICES ASSUME NEW S \in SUBSET Runs, S = {r \in todo : status[r] \in {"created", "queued"}}
             PROVE  [Queue!Next]_Queue!vars
  BY <1>0
<1>1. /\ \A r \in Runs : status'[r] = IF r \in todo THEN "lost" ELSE status[r]
      /\ \A r \in todo : r \in Runs /\ status[r] # "absent"
      /\ UNCHANGED <<born, owner, expired, job, lapsed, crashed>>
      /\ \A w \in Workers : pc'[w] = pc[w]
  BY DEF SweepWrite, Goto, history, QueueInv, FreshInv, TypeOK
<1>2. \A r \in Runs : QueuePhase(r)' = IF r \in S THEN "left" ELSE QueuePhase(r)
  BY <1>1 DEF QueuePhase
<1>3. CASE S = {}
  BY <1>1, <1>2, <1>3, QueueStutters
<1>4. CASE S # {}
  <2>1. S \in SUBSET Runs /\ \A r \in S : status[r] \in {"created", "queued"}
    BY <1>1
  <2>2. Queue!Withdraw(S)
    BY <1>1, <1>2, <1>4, <2>1 DEF Queue!Withdraw, QueuePhase
  <2> QED BY <2>1, <2>2 DEF Queue!Next
<1> QED BY <1>3, <1>4

\* Claims and releases are those of the queue; what comes between the two is
\* hidden from it.
LEMMA QueueLoop ==
  ASSUME QueueInv, OneServer, NEW w \in Workers, WorkerStep(w)
  PROVE  [Queue!Next]_Queue!vars
<1> USE ActorKinds
<1>0. /\ PointOK(w, job[w], pc[w]) /\ pc \in [Actors -> PC]
      /\ job \in [Actors -> Runs \cup {NoRun}] /\ NoRun \notin Runs
  BY LifecycleAssumption DEF QueueInv, ControlInv, TypeOK
<1>1. ASSUME NEW r \in Runs, Claim(w, r) PROVE [Queue!Next]_Queue!vars
  <2>1. /\ pc[w] = "idle" /\ job[w] = NoRun /\ FirstClaimable(r)
        /\ owner' = [owner EXCEPT ![r] = w] /\ expired' = [expired EXCEPT ![r] = FALSE]
        /\ job' = [job EXCEPT ![w] = r] /\ lapsed' = lapsed \ {w}
        /\ pc' = [pc EXCEPT ![w] = "preflight"] /\ UNCHANGED <<status, born, crashed>>
    BY <1>0, <1>1 DEF Claim, PointOK, Goto
  <2>2. [v \in Workers |-> job'[v]] = [[v \in Workers |-> job[v]] EXCEPT ![w] = r]
    BY <1>0, <2>1
  <2>3. {v \in Workers : pc'[v] = "dead"} = {v \in Workers : pc[v] = "dead"}
    BY <1>0, <2>1
  <2>4. Queue!FirstClaimable(r)
    BY <2>1 DEF FirstClaimable, Claimable, Queue!FirstClaimable, Queue!Claimable
  <2>5. Queue!Claim(w, r)
    BY <2>1, <2>2, <2>3, <2>4 DEF Queue!Claim
  <2> QED BY <2>5 DEF Queue!Next, Queue!Poll
<1>2. CASE Preflight(w) \/ OnError(w)
  <2>1. /\ UNCHANGED <<row, job, lapsed, crashed>> /\ pc[w] # "dead"
        /\ \E point \in {"abort", "to_preparing", "to_failed_outer"} : Goto(w, point)
    BY <1>2 DEF Preflight, OnError, history
  <2>2. \A v \in Workers : pc'[v] = "dead" <=> pc[v] = "dead"
    BY <1>0, <2>1 DEF Goto
  <2> QED BY <2>1, <2>2, QueueStutters DEF row, QueuePhase
<1>3. CASE Release(w)
  <2> DEFINE r == job[w]
  <2> DEFINE point == IF pc[w] = "abort" /\ w \notin Resident THEN "dead" ELSE "idle"
  <2>1. /\ pc[w] \in {"release", "abort"}
        /\ job' = [job EXCEPT ![w] = NoRun] /\ lapsed' = lapsed \ {w}
        /\ pc' = [pc EXCEPT ![w] = point] /\ UNCHANGED <<status, born, crashed>>
    BY <1>3 DEF Release, Goto
  <2>2. r \in Runs
    BY <1>0, <2>1 DEF PointOK, Free
  <2>3. Queue!ReleasedBy(w)
    BY <1>3 DEF Release, Queue!ReleasedBy
  <2>4. [v \in Workers |-> job'[v]] = [[v \in Workers |-> job[v]] EXCEPT ![w] = NoRun]
    BY <1>0, <2>1
  <2>5. (r \in Poison /\ pc[w] = "abort") \/ QueuePhase(r) = "left"
    BY <2>1, <2>2 DEF QueueInv, LeftInv, OneServer, Left, QueuePhase
  <2>6. pc[w] # "dead" /\ r # NoRun
    BY <1>0, <2>1, <2>2
  <2> HIDE DEF r
  <2>7. CASE pc[w] = "release"
    <3>1. {v \in Workers : pc'[v] = "dead"} = {v \in Workers : pc[v] = "dead"}
      BY <1>0, <2>1, <2>7
    <3>2. Queue!Finish(w)
      BY <2>1, <2>2, <2>3, <2>4, <2>5, <2>6, <2>7, <3>1 DEF Queue!Finish, QueuePhase, r
    <3> QED BY <3>2 DEF Queue!Next, Queue!Execute
  <2>8. CASE pc[w] = "abort"
    <3>1. {v \in Workers : pc'[v] = "dead"}
            = IF w \in Resident THEN {v \in Workers : pc[v] = "dead"}
              ELSE {v \in Workers : pc[v] = "dead"} \cup {w}
      BY <1>0, <2>1, <2>8
    <3>2. Queue!Raise(w)
      BY <2>1, <2>2, <2>3, <2>4, <2>5, <2>6, <2>8, <3>1 DEF Queue!Raise, QueuePhase, r
    <3> QED BY <3>2 DEF Queue!Next, Queue!Execute
  <2> QED BY <2>1, <2>7, <2>8
<1> QED BY <1>1, <1>2, <1>3 DEF WorkerStep

\* Every step is one of the queue's or hidden from it.
LEMMA QueueStep == OneServer /\ QueueInv /\ [Next]_vars => [Queue!Next]_Queue!vars
<1> SUFFICES ASSUME OneServer, QueueInv, [Next]_vars PROVE [Queue!Next]_Queue!vars
  OBVIOUS
<1> USE ActorKinds, LifecycleAssumption
<1>0. /\ \A a \in Actors : PointOK(a, job[a], pc[a]) /\ (a \in Runs => job[a] = a)
      /\ pc \in [Actors -> PC] /\ job \in [Actors -> Runs \cup {NoRun}]
      /\ status \in [Runs -> Status \cup {"absent"}]
      /\ \A w \in Resident : w \in Mortal /\ w \in Workers
      /\ \A w \in Resident : pc[w] = "dead" => w \in crashed
      /\ \A w \in Workers : job[w] = NoRun => w \notin lapsed
  BY DEF QueueInv, OneServer, ControlInv, TypeOK, DeadInv
<1>1. ASSUME NEW a \in Actors, Step(a) PROVE [Queue!Next]_Queue!vars
  <2>0. Read(a) \/ Write(a) \/ Fail(a) \/ Spawn(a) \/ Mark(a) \/ Exited(a) \/ Artifacts(a)
         \/ Wrapup(a) \/ Cleanup(a) \/ ResolveSecrets(a) \/ Validate(a) \/ Remote(a)
    BY <1>1 DEF Step
  <2>1. CASE Write(a)
    BY <2>1, QueueWrites
  <2>2. CASE Cleanup(a) /\ pc[a] = "cleanup_cancel"
    <3>1. a \in Resident
      BY <1>0, <2>2
      DEF QueueInv, DeadInv, PointOK, ServerPoints, WatcherPoints, DeferredPoints, ExecutionPoints, Actors
    <3>2. /\ job' = [job EXCEPT ![a] = NoRun] /\ lapsed' = lapsed \ {a}
          /\ crashed' = crashed \cup {a} /\ Goto(a, "dead") /\ UNCHANGED row
      BY <2>2 DEF Cleanup
    <3> QED BY <1>0, <2>2, <3>1, <3>2, QueueDies DEF Goto
  <2>3. CASE ~Write(a) /\ ~(Cleanup(a) /\ pc[a] = "cleanup_cancel")
    <3>1. UNCHANGED <<row, job, lapsed, crashed>>
      BY <2>0, <2>3
      DEF Read, Fail, Spawn, Mark, Exited, Artifacts, Wrapup, Cleanup, ResolveSecrets,
          Validate, Remote, history
    <3>2. \A b \in Actors \ {a} : pc'[b] = pc[b]
      BY <2>0, ActorFrame DEF QueueInv
    <3>3. pc[a] # "dead"
      BY <2>0, TransitionPoints
      DEF Read, Write, Fail, Handler, Spawn, Mark, Exited, Artifacts, Wrapup, Cleanup,
          ResolveSecrets, Validate, Remote
    <3>4. pc'[a] # "dead"
      <4>1. CASE Read(a)
        <5>1. pc[a] \in Transitions /\ (pc' = pc \/ Goto(a, AfterInvalid(a)))
          BY <4>1 DEF Read
        <5>2. AfterInvalid(a) # "dead"
          BY <5>1, TransitionPoints DEF AfterInvalid, Escape
        <5> QED BY <1>0, <3>3, <5>1, <5>2 DEF Goto
      <4>2. CASE Fail(a)
        BY <1>0, <4>2 DEF Fail, Handler, Escape, Goto
      <4>3. CASE Cleanup(a)
        <5>1. \E point \in {Over(a), Escape(a)} : Goto(a, point)
          BY <2>3, <4>3 DEF Cleanup
        <5>2. \A point \in {Over(a), Escape(a)} : point # "dead"
          BY DEF Over, Escape
        <5> QED BY <1>0, <5>1, <5>2 DEF Goto
      <4>4. CASE Spawn(a) \/ Mark(a) \/ Exited(a) \/ Artifacts(a) \/ Wrapup(a)
                 \/ ResolveSecrets(a) \/ Validate(a) \/ Remote(a)
        BY <1>0, <4>4
        DEF Spawn, Mark, Exited, Artifacts, Wrapup, ResolveSecrets, Validate, Remote, Goto
      <4> QED BY <2>0, <2>3, <4>1, <4>2, <4>3, <4>4
    <3> QED BY <3>1, <3>2, <3>3, <3>4, QueueStutters DEF row, QueuePhase
  <2> QED BY <2>1, <2>2, <2>3
<1>2. ASSUME NEW a \in Actors, Crash(a) PROVE [Queue!Next]_Queue!vars
  <2>1. a \in Mortal \ Resident /\ a \in Workers /\ pc[a] # "dead" /\ Die({a}) /\ UNCHANGED row
    BY <1>2 DEF Crash, OneServer
  <2>2. {a} \cap InServer = {}
    BY <2>1 DEF InServer
  <2>3. /\ pc'[a] = "dead" /\ job'[a] = NoRun
        /\ \A v \in Workers \ {a} : job'[v] = job[v] /\ pc'[v] = pc[v]
        /\ lapsed' = lapsed \ {a} /\ crashed' = crashed \cup {a}
    BY <2>1, <2>2 DEF Die, Killed
  <2> QED BY <2>1, <2>3, QueueDies
\* With no server loop nothing happens to the queue's workers; with one it is that one.
<1>3. ASSUME UNCHANGED row,
             \A v \in Workers \ Resident : job'[v] = job[v] /\ pc'[v] = pc[v],
             \A w \in Resident :
               /\ pc'[w] = "dead" /\ job'[w] = NoRun
               /\ lapsed' = lapsed \ {w} /\ crashed' = crashed \cup {w},
             Resident = {} => lapsed' = lapsed /\ crashed' = crashed
      PROVE  [Queue!Next]_Queue!vars
  <2>1. CASE Resident = {}
    BY <1>3, <2>1, QueueStutters DEF row, QueuePhase
  <2>2. CASE Resident # {}
    <3>1. PICK w \in Resident : TRUE
      BY <2>2
    <3>2. \A v \in Workers \ {w} : v \notin Resident
      BY <3>1 DEF OneServer
    <3> QED BY <1>0, <1>3, <3>1, <3>2, QueueDies
  <2> QED BY <2>1, <2>2
<1>4. lapsed \subseteq Workers /\ crashed \subseteq Workers /\ \A v, w \in Resident : v = w
  BY DEF QueueInv, TypeOK, OneServer
<1>5. CASE ServerCrash
  <2>1. UNCHANGED row /\ Die(InServer)
    BY <1>5 DEF ServerCrash
  <2>2. \A w \in Workers : w \in InServer <=> w \in Resident
    BY DEF InServer
  <2>3. /\ \A w \in Resident : pc'[w] = "dead" /\ job'[w] = NoRun
        /\ \A v \in Workers \ Resident : job'[v] = job[v] /\ pc'[v] = pc[v]
        /\ lapsed' = lapsed \ InServer /\ crashed' = crashed \cup (InServer \cap Workers)
    BY <2>1, <2>2 DEF Die, Killed
  <2>4. lapsed' = lapsed \ Resident /\ crashed' = crashed \cup Resident
    BY <1>4, <2>2, <2>3
  <2> QED BY <1>3, <1>4, <2>1, <2>3, <2>4
<1>6. CASE Shutdown
  <2>1. /\ UNCHANGED row
        /\ \A v \in Workers \ Resident : job'[v] = job[v] /\ pc'[v] = pc[v]
        /\ \A w \in Resident :
              /\ pc'[w] = IF pc[w] \in {"spawn", "await"} THEN "to_cancelled" ELSE "dead"
              /\ job'[w] = IF pc[w] \in {"spawn", "await"} THEN job[w] ELSE NoRun
        /\ lapsed' = lapsed \ {w \in Resident : job[w] # NoRun /\ job'[w] = NoRun}
        /\ crashed' = crashed \cup {w \in Resident : job'[w] = NoRun}
    BY <1>6 DEF Shutdown
  <2>2. CASE \E w \in Resident : pc[w] \in {"spawn", "await"}
    <3>1. \A w \in Resident : pc[w] \in {"spawn", "await"} /\ job[w] # NoRun
      BY <1>0, <1>4, <2>2 DEF PointOK, Free
    <3> QED BY <2>1, <3>1, QueueStutters DEF row, QueuePhase
  <2>3. CASE \A w \in Resident : pc[w] \notin {"spawn", "await"}
    <3>1. crashed' = crashed \cup Resident
      BY <2>1, <2>3
    <3>2. lapsed' = lapsed \ Resident
      BY <1>0, <2>1, <2>3
    <3> QED BY <1>3, <1>4, <2>1, <2>3, <3>1, <3>2
  <2> QED BY <2>2, <2>3
<1>7. CASE ServerExit
  <2>1. /\ UNCHANGED row /\ lapsed' = lapsed /\ job' = job /\ crashed' = crashed \cup Resident
        /\ \A w \in Resident : pc'[w] = "dead" /\ pc[w] \in {"dead", "idle"}
        /\ \A v \in Workers \ Resident : pc'[v] = pc[v]
    BY <1>7 DEF ServerExit
  <2>2. \A w \in Resident : job[w] = NoRun
    BY <1>0, <2>1 DEF PointOK
  <2> QED BY <1>0, <1>3, <1>4, <2>1, <2>2
<1>8. CASE ServerUp
  <2>1. /\ UNCHANGED <<row, job, lapsed, crashed>>
        /\ \A w \in Resident : pc'[w] = "idle" /\ pc[w] = "dead"
        /\ \A v \in Workers \ Resident : pc'[v] = pc[v]
    BY <1>8 DEF ServerUp, history, QueueInv, BootInv
  <2>2. CASE Resident = {}
    BY <2>1, <2>2, QueueStutters DEF row, QueuePhase
  <2>3. CASE Resident # {}
    <3>1. PICK w \in Resident : TRUE
      BY <2>3
    <3>2. \A v \in Workers \ {w} : v \notin Resident
      BY <1>4, <3>1
    <3> QED BY <2>1, <3>1, <3>2, QueueRecovers
  <2> QED BY <2>2, <2>3
<1>9. ASSUME NEW r \in Runs, Submit(r) PROVE [Queue!Next]_Queue!vars
  <2>1. /\ status[r] = "absent" /\ status' = [status EXCEPT ![r] = "created"]
        /\ born' = [born EXCEPT ![r] = 1 + Cardinality({q \in Runs : born[q] # 0})]
        /\ UNCHANGED <<owner, expired, job, lapsed, crashed>>
        /\ \A w \in Workers : pc'[w] = pc[w]
    BY <1>0, <1>9 DEF Submit, SetStatus, Goto, history, QueueInv, FreshInv
  <2>2. {w \in Workers : pc'[w] = "dead"} = {w \in Workers : pc[w] = "dead"}
    BY <2>1
  <2>3. \A S : Queue!Cardinality(S) = Cardinality(S)
    BY DEF Cardinality, Queue!Cardinality
  <2>4. Queue!Create(r)
    BY <1>0, <2>1, <2>2, <2>3 DEF Queue!Create
  <2> QED BY <2>4 DEF Queue!Next
<1>10. ASSUME NEW r \in Runs, Lapse(r) PROVE [Queue!Next]_Queue!vars
  <2>1. owner[r] \in Workers
    BY <1>10 DEF Lapse, QueueInv, TypeOK
  <2>2. Queue!Lapse(r)
    BY <1>10, <2>1 DEF Lapse, Queue!Lapse
  <2> QED BY <2>2 DEF Queue!Next
<1>11. ASSUME NEW r \in Runs, Checks(r) \/ Watch(r) PROVE [Queue!Next]_Queue!vars
  <2>1. /\ UNCHANGED <<row, lapsed, crashed>>
        /\ \A w \in Workers : pc'[w] = pc[w] /\ job'[w] = job[w]
    BY <1>0, <1>11 DEF Checks, Watch, Goto, history
  <2> QED BY <2>1, QueueStutters DEF row, QueuePhase
<1>12. ASSUME NEW w \in Workers, WorkerStep(w) PROVE [Queue!Next]_Queue!vars
  BY <1>12, QueueLoop
<1>13. ASSUME NEW w \in Workers, Restart(w) PROVE [Queue!Next]_Queue!vars
  BY <1>0, <1>13, QueueRecovers DEF Restart, Goto, history
<1>14. ASSUME NEW p \in Actors \X Runs, ProcessEnds(p) PROVE [Queue!Next]_Queue!vars
  BY <1>14, QueueStutters DEF ProcessEnds, row, QueuePhase, history
<1>15. CASE SweepWrite
  BY <1>15, QueueSwept
<1>16. CASE Boot \/ Unmark \/ Sweep \/ \E r \in Runs : Orphan(r)
  <2>1. /\ UNCHANGED <<row, lapsed, crashed>>
        /\ \A w \in Workers : pc'[w] = pc[w] /\ job'[w] = job[w]
    BY <1>0, <1>16 DEF Boot, Unmark, Sweep, Orphan, Goto, history
  <2> QED BY <2>1, QueueStutters DEF row, QueuePhase
<1>17. CASE UNCHANGED vars
  BY <1>17, QueueStutters DEF vars, row, QueuePhase, history
<1> QED
  BY <1>1, <1>2, <1>5, <1>6, <1>7, <1>8, <1>9, <1>10, <1>11, <1>12, <1>13, <1>14, <1>15, <1>16,
     <1>17
  DEF Next, Startup

\* The claims, executions, failures and restarts of workers, the submissions
\* and startup reconciliation use the queue as RunQueue has it, so that what
\* is proved of RunQueue holds here.
THEOREM QueueIsImplemented == OneServer => (Spec => KeepsQueue)
<1> SUFFICES ASSUME OneServer PROVE Spec => KeepsQueue
  OBVIOUS
<1>1. QueueInv /\ [Next]_vars => [Queue!Next]_Queue!vars
  BY QueueStep
<1> QED BY <1>1, QueueInvInit, QueueInvStep, QueueInit, PTL DEF Spec, KeepsQueue, Queue!Spec

-----------------------------------------------------------------------------
(* A run is started once: what RunQueue_proofs shows of leases holds here,  *)
(* since the queue is implemented.                                         *)

Leases == INSTANCE RunQueue_proofs WITH
  phase <- [r \in Runs |-> QueuePhase(r)],
  job <- [w \in Workers |-> job[w]],
  down <- {w \in Workers : pc[w] = "dead"}

\* What the queue assumes of its constants is assumed here.
LEMMA LeasesAssumption == Leases!QueueAssumption
BY LifecycleAssumption DEF Leases!QueueAssumption, IsFiniteSet, Leases!IsFiniteSet

\* The two instances of RunQueue are the same specification.
LEMMA SameQueue ==
  /\ Queue!Init => Leases!Init
  /\ [Queue!Next]_Queue!vars => [Leases!Next]_Leases!vars
<1>1. Queue!Init => Leases!Init
  BY DEF Queue!Init, Leases!Init, QueuePhase
<1>2. [Queue!Next]_Queue!vars => [Leases!Next]_Leases!vars
  BY DEF Queue!vars, Queue!Next, Queue!Create, Queue!Enqueue, Queue!Lapse, Queue!Withdraw,
         Queue!Poll, Queue!Heartbeat, Queue!Execute, Queue!Crash, Queue!Recover, Queue!Claim,
         Queue!FirstClaimable, Queue!Claimable, Queue!Start, Queue!Finish, Queue!Raise,
         Queue!ReleasedBy, Queue!Cardinality,
         Leases!vars, Leases!Next, Leases!Create, Leases!Enqueue, Leases!Lapse, Leases!Withdraw,
         Leases!Poll, Leases!Heartbeat, Leases!Execute, Leases!Crash, Leases!Recover, Leases!Claim,
         Leases!FirstClaimable, Leases!Claimable, Leases!Start, Leases!Finish, Leases!Raise,
         Leases!ReleasedBy, Leases!Cardinality, QueuePhase
<1> QED BY <1>1, <1>2

\* A worker whose lease has not expired owns the row of the run it executes.
Owned == \A w \in Workers : job[w] # NoRun /\ w \notin lapsed => owner[job[w]] = w

\* So it is in every behaviour, because it is in those of the queue.
LEMMA LeasesOwned == OneServer => (Spec => []Owned)
<1> SUFFICES ASSUME OneServer PROVE Spec => []Owned
  OBVIOUS
<1>1. KeepsQueue => []Leases!KeptLeaseOwns
  BY SameQueue, LeasesAssumption, Leases!LeaseSafety, PTL
  DEF KeepsQueue, Queue!Spec, Leases!Spec
<1>2. Leases!KeptLeaseOwns => Owned
  BY DEF Leases!KeptLeaseOwns, Owned
<1> QED BY <1>1, <1>2, QueueIsImplemented, PTL

\* Nothing is started at first.
LEMMA OnceInit == Init => OnceInv
BY LifecycleAssumption, ActorKinds DEF Init, OnceInv

\* Only the owner of a run starts it, and who claims it later finds it started
\* only if the lease of the one before has expired.
LEMMA OnceStep == OneServer /\ QueueInv /\ Owned /\ OnceInv /\ [Next]_vars => OnceInv'
<1> SUFFICES ASSUME OneServer, QueueInv, Owned, OnceInv, [Next]_vars PROVE OnceInv'
  OBVIOUS
<1> USE ActorKinds, LifecycleAssumption
<1>0. /\ \A a \in Actors : PointOK(a, job[a], pc[a])
      /\ pc \in [Actors -> PC] /\ job \in [Actors -> Runs \cup {NoRun}]
      /\ lapsed \subseteq Workers /\ started \in [Runs -> SUBSET Actors]
  BY DEF QueueInv, ControlInv, TypeOK
<1>1. ASSUME started' = started,
             \A w \in Workers : job'[w] # NoRun => job'[w] = job[w] /\ (w \in lapsed => w \in lapsed')
      PROVE  OnceInv'
  BY <1>1 DEF OnceInv
<1>2. ASSUME NEW a \in Actors, Step(a) PROVE OnceInv'
  <2>0. Read(a) \/ Write(a) \/ Fail(a) \/ Spawn(a) \/ Mark(a) \/ Exited(a) \/ Artifacts(a)
         \/ Wrapup(a) \/ Cleanup(a) \/ ResolveSecrets(a) \/ Validate(a) \/ Remote(a)
    BY <1>2 DEF Step
  <2>1. CASE Spawn(a)
    <3>1. /\ pc[a] = "spawn" /\ UNCHANGED <<job, lapsed>>
          /\ started' = IF a \in lapsed THEN started
                        ELSE [started EXCEPT ![job[a]] = @ \cup {a}]
      BY <2>1 DEF Spawn
    <3>2. a \in Workers /\ job[a] \in Runs /\ job[a] # NoRun
      BY <1>0, <3>1
      DEF PointOK, ServerPoints, WatcherPoints, DeferredPoints, Actors, OneServer, Free
    <3>3. CASE a \in lapsed
      BY <1>1, <3>1, <3>3
    <3>4. CASE a \notin lapsed
      <4>1. owner[job[a]] = a /\ started[job[a]] \subseteq {a}
        BY <3>2, <3>4 DEF Owned, OnceInv, OneServer
      <4>2. \A r \in Runs : started'[r] = IF r = job[a] THEN {a} ELSE started[r]
        BY <1>0, <3>1, <3>2, <3>4, <4>1
      <4>3. \A w \in Workers : job[w] = job[a] /\ w \notin lapsed => w = a
        BY <3>2, <4>1 DEF Owned
      <4> QED BY <3>1, <3>2, <4>2, <4>3 DEF OnceInv
    <3> QED BY <3>3, <3>4
  <2>2. CASE Cleanup(a) /\ pc[a] = "cleanup_cancel"
    <3>1. job' = [job EXCEPT ![a] = NoRun] /\ lapsed' = lapsed \ {a} /\ started' = started
      BY <2>2 DEF Cleanup
    <3> QED BY <1>0, <1>1, <3>1
  <2>3. CASE ~Spawn(a) /\ ~(Cleanup(a) /\ pc[a] = "cleanup_cancel")
    <3>1. UNCHANGED <<job, lapsed, started>>
      BY <2>0, <2>3
      DEF Read, Write, Fail, Mark, Exited, Artifacts, Wrapup, Cleanup, ResolveSecrets,
          Validate, Remote, history
    <3> QED BY <1>1, <3>1
  <2> QED BY <2>1, <2>2, <2>3
<1>3. ASSUME NEW A \in SUBSET (Actors \ {Server}), Die(A), started' = started PROVE OnceInv'
  <2>1. /\ lapsed' = lapsed \ A
        /\ \A w \in Workers : job'[w] = IF w \in A THEN NoRun ELSE job[w]
    BY <1>3 DEF Die
  <2> QED BY <1>1, <1>3, <2>1
<1>4. ASSUME NEW a \in Actors, Crash(a) PROVE OnceInv'
  <2>1. {a} \in SUBSET (Actors \ {Server}) /\ Die({a}) /\ started' = started
    BY <1>4 DEF Crash
  <2> QED BY <1>3, <2>1
<1>5. CASE ServerCrash
  <2>1. InServer \in SUBSET (Actors \ {Server})
    BY DEF InServer, Actors
  <2> QED BY <1>3, <1>5, <2>1 DEF ServerCrash
<1>6. ASSUME NEW r \in Runs, Submit(r) \/ Checks(r) \/ Watch(r) \/ Lapse(r) PROVE OnceInv'
  <2>1. /\ started' = started /\ lapsed \subseteq lapsed'
        /\ \A w \in Workers : job'[w] = job[w]
    BY <1>0, <1>6 DEF Submit, Checks, Watch, Lapse, history
  <2> QED BY <1>1, <2>1
<1>7. ASSUME NEW w \in Workers, WorkerStep(w) \/ Restart(w) PROVE OnceInv'
  <2>1. ASSUME NEW r \in Runs, Claim(w, r) PROVE OnceInv'
    <3>1. /\ job' = [job EXCEPT ![w] = r] /\ lapsed' = lapsed \ {w} /\ started' = started
          /\ status[r] = "queued"
      BY <2>1 DEF Claim, FirstClaimable, Claimable
    <3>2. started[r] = {}
      BY <1>0, <3>1 DEF QueueInv, LeftInv, Left, OneServer
    <3>3. \A v \in Workers : job'[v] = IF v = w THEN r ELSE job[v]
      BY <1>0, <3>1
    <3> QED BY <3>1, <3>2, <3>3 DEF OnceInv
  <2>2. CASE Preflight(w) \/ OnError(w) \/ Restart(w)
    BY <1>1, <2>2 DEF Preflight, OnError, Restart, history
  <2>3. CASE Release(w)
    BY <1>0, <1>1, <2>3 DEF Release
  <2> QED BY <1>7, <2>1, <2>2, <2>3 DEF WorkerStep
<1>8. ASSUME NEW p \in Actors \X Runs, ProcessEnds(p) PROVE OnceInv'
  BY <1>1, <1>8 DEF ProcessEnds, history
<1>9. CASE Shutdown
  <2>1. /\ started' = started
        /\ lapsed' = lapsed \ {w \in Resident : job[w] # NoRun /\ job'[w] = NoRun}
        /\ \A w \in Workers : job'[w] = job[w] \/ job'[w] = NoRun
    BY <1>9 DEF Shutdown
  <2> QED BY <1>1, <2>1
<1>10. CASE ServerExit \/ ServerUp
  BY <1>1, <1>10 DEF ServerExit, ServerUp, history
<1>11. CASE Boot \/ Unmark \/ Sweep \/ SweepWrite \/ \E r \in Runs : Orphan(r)
  <2>1. UNCHANGED <<lapsed, started>> /\ \A w \in Workers : job'[w] = job[w]
    BY <1>0, <1>11 DEF Boot, Unmark, Sweep, SweepWrite, Orphan, history
  <2> QED BY <1>1, <2>1
<1>12. CASE UNCHANGED vars
  BY <1>1, <1>12 DEF vars, history
<1> QED
  BY <1>2, <1>4, <1>5, <1>6, <1>7, <1>8, <1>9, <1>10, <1>11, <1>12 DEF Next, Startup

\* However workers, leases, failures and restarts interleave, no run is started
\* twice by workers that still hold their lease on it.
THEOREM RunsStartOnce == OneServer => (Spec => []SingleExecution)
<1> SUFFICES ASSUME OneServer PROVE Spec => []SingleExecution
  OBVIOUS
<1>1. QueueInv /\ Owned /\ OnceInv /\ [Next]_vars => OnceInv'
  BY OnceStep
<1>2. OnceInv => SingleExecution
  BY DEF OnceInv, SingleExecution, OneServer
<1> QED BY <1>1, <1>2, QueueInvInit, QueueInvStep, OnceInit, LeasesOwned, PTL DEF Spec

-----------------------------------------------------------------------------
(* Every unfinished run is in somebody's hands.                            *)

\* Processes other than the server are not killed, and where runs are executed
\* by who submits them, nothing raises: there an exception leaves the run.
Attended ==
  /\ "crash" \notin Faults
  /\ Direct = {} \/ "raise" \notin Faults

\* An unfinished run may always be failed.
LEMMA UnfinishedMayFail == \A s \in Unfinished : IsValidTransition(s, "failed")
BY DEF Unfinished, Terminal, IsValidTransition, Status, RunTransitions

\* Who is responsible stays so while it is left alone.
LEMMA HeldKept ==
  ASSUME NEW r \in Runs, Held(r), status'[r] = status[r],
         \A a \in Actors \ {Server} : Responsible(a, r) =>
           pc'[a] = pc[a] /\ mid'[a] = mid[a] /\ job'[a] = job[a]
  PROVE  Held(r)'
BY DEF Held, Responsible, AfterInvalid, Escape, IsManaged, IsWorker

\* Who moves a run on is responsible for it.
LEMMA WriterIsResponsible ==
  ASSUME TypeOK, ControlInv, NEW a \in Actors \ {Server}, Write(a), NEW r \in Runs, r = job[a],
         status'[r] \in Unfinished \ {"queued"}
  PROVE  Responsible(a, r)'
<1> USE ActorKinds
<1>1. /\ pc[a] \in Transitions /\ PointOK(a, r, pc[a])
      /\ pc'[a] = AfterWrite(a) /\ job'[a] = r /\ status'[r] = Target[pc[a]]
  BY DEF Write, SetStatus, Goto, ControlInv, TypeOK
<1>2. pc[a] \in {"to_preparing", "to_validating", "to_submitting", "to_running", "to_collecting",
                 "to_pod_collecting"}
  BY <1>1 DEF Transitions, Target, Unfinished, Terminal
<1>3. CASE pc[a] = "to_pod_collecting"
  <2>1. pc'[a] = "to_pod_succeeded" /\ status'[r] = "collecting_artifacts"
    BY <1>1, <1>3 DEF AfterWrite, Target
  <2>2. IsValidTransition("collecting_artifacts", "succeeded") /\ Target["to_pod_succeeded"] = "succeeded"
    BY DEF IsValidTransition, Status, RunTransitions, Target
  <2> QED BY <1>1, <2>1, <2>2, TransitionPoints DEF Responsible
<1>4. CASE pc[a] # "to_pod_collecting"
  <2>1. a \in Direct \cup Workers
    BY <1>1, <1>2, <1>4 DEF PointOK, WatcherPoints, DeferredPoints, Actors
  <2>2. CASE pc[a] = "to_preparing"
    <3>1. pc'[a] = "to_validating" /\ status'[r] = "preparing"
      BY <1>1, <2>2 DEF AfterWrite, Target
    <3>2. IsValidTransition("preparing", "validating") /\ Target["to_validating"] = "validating"
      BY DEF IsValidTransition, Status, RunTransitions, Target
    <3> QED BY <1>1, <3>1, <3>2, TransitionPoints DEF Responsible
  <2>3. CASE pc[a] = "to_validating"
    <3>1. pc'[a] \in {"to_submitting", "checks"} /\ status'[r] = "validating"
          /\ (a \in Workers => pc'[a] = "to_submitting")
      BY <1>1, <2>3 DEF AfterWrite, Target, IsWorker
    <3>2. IsValidTransition("validating", "submitting") /\ Target["to_submitting"] = "submitting"
      BY DEF IsValidTransition, Status, RunTransitions, Target
    <3> QED BY <1>1, <2>1, <3>1, <3>2, TransitionPoints DEF Responsible
  <2>4. CASE pc[a] = "to_submitting"
    <3>1. pc'[a] \in {"validate", "secrets", "to_running"} /\ status'[r] = "submitting"
      BY <1>1, <2>4 DEF AfterWrite, Target
    <3>2. IsValidTransition("submitting", "running") /\ Target["to_running"] = "running"
      BY DEF IsValidTransition, Status, RunTransitions, Target
    <3> QED BY <1>1, <3>1, <3>2, TransitionPoints DEF Responsible
  <2>5. CASE pc[a] = "to_running"
    <3>1. pc'[a] \in {"to_collecting", "spawn"} /\ status'[r] = "running"
      BY <1>1, <2>5 DEF AfterWrite, Target
    <3>2. IsValidTransition("running", "collecting_artifacts")
          /\ Target["to_collecting"] = "collecting_artifacts"
      BY DEF IsValidTransition, Status, RunTransitions, Target
    <3> QED BY <1>1, <3>1, <3>2, TransitionPoints DEF Responsible
  <2>6. CASE pc[a] = "to_collecting"
    <3>1. pc'[a] \in {"to_succeeded", "artifacts"} /\ status'[r] = "collecting_artifacts"
      BY <1>1, <2>6 DEF AfterWrite, Target
    <3>2. IsValidTransition("collecting_artifacts", "succeeded") /\ Target["to_succeeded"] = "succeeded"
      BY DEF IsValidTransition, Status, RunTransitions, Target
    <3> QED BY <1>1, <3>1, <3>2, TransitionPoints DEF Responsible
  <2> QED BY <1>2, <1>4, <2>2, <2>3, <2>4, <2>5, <2>6
<1> QED BY <1>3, <1>4

\* Who is responsible goes on to a point where it still is, until it writes.
LEMMA ResponsibleGoesOn ==
  ASSUME TypeOK, ControlInv, HeldInv, Attended, NEW a \in Actors,
         Read(a) \/ Fail(a) \/ Spawn(a) \/ Mark(a) \/ Exited(a) \/ Artifacts(a)
         \/ Wrapup(a) \/ Cleanup(a) \/ ResolveSecrets(a) \/ Validate(a) \/ Remote(a),
         NEW r \in Runs, Responsible(a, r), status'[r] = status[r],
         status[r] \in Unfinished
  PROVE  Responsible(a, r)'
<1> USE ActorKinds, TransitionPoints
<1>0. /\ PointOK(a, r, pc[a]) /\ job[a] = r /\ (a \in Runs => a = r)
      /\ pc \in [Actors -> PC] /\ mid \in [Actors -> BOOLEAN]
      /\ IsValidTransition(status[r], "failed")
  BY UnfinishedMayFail DEF ControlInv, TypeOK, Responsible
<1>1. CASE Read(a)
  <2>1. CASE IsValidTransition(status[r], Target[pc[a]])
    <3>1. mid' = [mid EXCEPT ![a] = TRUE] /\ pc' = pc /\ job' = job /\ pc[a] \in Transitions
      BY <1>0, <1>1, <2>1 DEF Read
    <3> QED BY <1>0, <3>1 DEF Responsible
  <2>2. CASE ~IsValidTransition(status[r], Target[pc[a]])
    <3>1. Goto(a, AfterInvalid(a)) /\ job' = job /\ ~mid[a] /\ pc[a] \in Transitions
      BY <1>0, <1>1, <2>2 DEF Read
    <3>2. AfterInvalid(a) \in {"to_failed", "on_error"}
      BY <2>2, <3>1 DEF Responsible
    <3>3. pc'[a] \in {"to_failed", "on_error"}
      BY <1>0, <3>1, <3>2 DEF Goto
    <3>4. Target["to_failed"] = "failed"
      BY DEF Target
    <3> QED BY <1>0, <3>1, <3>3, <3>4 DEF Responsible
  <2> QED BY <2>1, <2>2
<1>2. CASE ~Read(a)
  <2>1. /\ job' = job
        /\ \/ pc[a] \in {"secrets", "spawn", "mark", "await", "artifacts", "validate", "remote"}
           \/ pc[a] \in {"wrapup", "cleanup", "cleanup_raise", "cleanup_cancel"}
    BY <1>2
    DEF Fail, Handler, Spawn, Mark, Exited, Artifacts, Wrapup, Cleanup, ResolveSecrets, Validate,
        Remote, Responsible
  <2>2. pc[a] \in {"secrets", "spawn", "mark", "await", "artifacts", "validate", "remote"}
    BY <2>1 DEF Responsible
  <2>3. a \in Direct \cup Workers /\ (pc[a] = "secrets" => a \in Workers)
    BY <1>0, <2>2
    DEF PointOK, ServerPoints, WatcherPoints, DeferredPoints, ExecutionPoints, Actors
  <2>4. CASE Fail(a)
    <3>1. PICK point \in Handler(a) : Goto(a, point)
      BY <2>4 DEF Fail
    <3>2. a \in Workers
      BY <2>3, <2>4 DEF Fail, Attended
    <3>3. point \in {"on_error", "to_failed"}
      <4>1. point = "to_failed" \/ (point = Escape(a) /\ pc[a] \in {"secrets", "spawn"})
        BY <2>2, <3>1 DEF Handler
      <4>2. pc[a] \in {"secrets", "spawn"} => r \notin Managed
        BY <1>0 DEF PointOK, LocalPoints
      <4> QED BY <1>0, <3>2, <4>1, <4>2 DEF Escape, IsWorker, IsManaged
    <3>4. pc'[a] = point /\ Target["to_failed"] = "failed"
      BY <1>0, <3>1 DEF Goto, Target
    <3> QED BY <1>0, <2>1, <3>3, <3>4 DEF Responsible
  <2>5. CASE Spawn(a) \/ Mark(a) \/ Exited(a) \/ Artifacts(a) \/ Validate(a)
    <3>1. pc'[a] \in {"mark", "await", "to_collecting", "to_succeeded", "to_exit_failed", "remote",
                      "to_validation_failed"}
      BY <1>0, <2>5 DEF Spawn, Mark, Exited, Artifacts, Validate, Goto
    <3> QED BY <1>0, <2>1, <3>1 DEF Responsible, AfterInvalid
  <2>6. CASE ResolveSecrets(a)
    <3>1. pc'[a] = "to_running" /\ a \in Workers /\ r \notin Managed
      BY <1>0, <2>3, <2>6 DEF ResolveSecrets, Goto, PointOK, LocalPoints
    <3>2. AfterInvalid(a)' = "on_error"
      BY <1>0, <2>1, <3>1 DEF AfterInvalid, Escape, IsWorker, IsManaged
    <3> QED BY <1>0, <2>1, <3>1, <3>2 DEF Responsible
  <2>7. CASE Remote(a)
    <3>1. pc'[a] \in {"to_running", "to_exit_failed"} /\ (a \in Direct => r \in Managed)
      BY <1>0, <2>7 DEF Remote, Goto, HeldInv
    <3>2. AfterInvalid(a)' \in {"to_failed", "on_error"}
      BY <1>0, <2>1, <2>3, <3>1 DEF AfterInvalid, Escape, IsWorker, IsManaged
    <3> QED BY <1>0, <2>1, <3>1, <3>2 DEF Responsible
  <2> QED
    BY <1>2, <2>2, <2>4, <2>5, <2>6, <2>7 DEF Wrapup, Cleanup
<1> QED BY <1>1, <1>2

\* At first there is no run.
LEMMA HeldInit == Init => HeldInv
BY LifecycleAssumption, ActorKinds DEF Init, HeldInv, Unfinished, Status, RunTransitions

\* Every step leaves the unfinished runs in somebody's hands.
LEMMA HeldStep ==
  Attended /\ TypeOK /\ ControlInv /\ BootInv /\ FreshInv /\ HeldInv /\ [Next]_vars => HeldInv'
<1> SUFFICES ASSUME Attended, TypeOK, ControlInv, BootInv, FreshInv, HeldInv, [Next]_vars
             PROVE  HeldInv'
  OBVIOUS
<1> USE ActorKinds, LifecycleAssumption
<1> DEFINE Quiet == {"sweep_write", "starting", "up"}
<1>0. /\ \A a \in Actors : PointOK(a, job[a], pc[a]) /\ (a \in Runs => job[a] = a)
      /\ pc \in [Actors -> PC] /\ job \in [Actors -> Runs \cup {NoRun}]
      /\ mid \in [Actors -> BOOLEAN] /\ todo \subseteq Runs
  BY DEF ControlInv, TypeOK
\* A step that changes no status and takes no run out of anybody's hands.
<1>1. ASSUME status' = status,
             pc'[Server] \in Quiet => pc[Server] \in Quiet /\ todo' = todo,
             pc'[Server] \in {"starting", "up"} => pc[Server] \in {"starting", "up"},
             \A a \in Direct : pc'[a] \in {"validate", "remote"} => pc[a] \in {"validate", "remote"},
             pc'[Server] \in Quiet =>
               \A r \in Runs : \A a \in Actors \ {Server} : Responsible(a, r) =>
                 pc'[a] = pc[a] /\ mid'[a] = mid[a] /\ job'[a] = job[a]
      PROVE  HeldInv'
  BY <1>1, HeldKept DEF HeldInv
<1>2. ASSUME NEW a \in Actors, Step(a) PROVE HeldInv'
  <2>0. Read(a) \/ Write(a) \/ Fail(a) \/ Spawn(a) \/ Mark(a) \/ Exited(a) \/ Artifacts(a)
         \/ Wrapup(a) \/ Cleanup(a) \/ ResolveSecrets(a) \/ Validate(a) \/ Remote(a)
    BY <1>2 DEF Step
  <2>1. /\ \A b \in Actors \ {a} : pc'[b] = pc[b] /\ job'[b] = job[b] /\ mid'[b] = mid[b]
        /\ todo' = todo
    BY <2>0, ActorFrame DEF boot
  <2>2. a = Server => pc'[Server] \notin Quiet
    <3> SUFFICES ASSUME a = Server PROVE pc'[Server] \notin Quiet
      OBVIOUS
    <3>1. pc[Server] = "to_lost"
      BY <1>0, <2>0, TransitionPoints
      DEF Read, Write, Fail, Handler, Spawn, Mark, Exited, Artifacts, Wrapup, Cleanup, ResolveSecrets,
          Validate, Remote, PointOK, ServerPoints
    <3>2. pc' = pc \/ Goto(Server, AfterInvalid(Server)) \/ Goto(Server, AfterWrite(Server))
      BY <2>0, <3>1
      DEF Read, Write, Fail, Handler, Spawn, Mark, Exited, Artifacts, Wrapup, Cleanup, ResolveSecrets,
          Validate, Remote
    <3>3. AfterInvalid(Server) = "down" /\ AfterWrite(Server) = "unmark"
      BY <3>1 DEF AfterInvalid, AfterWrite
    <3> QED BY <1>0, <3>1, <3>2, <3>3 DEF Goto
  <2>3. ASSUME a \in Direct, pc'[a] \in {"validate", "remote"} PROVE a \in Managed
    <3>1. CASE pc[a] \in {"validate", "remote"}
      BY <2>3, <3>1 DEF HeldInv
    <3>2. CASE Write(a)
      <4>1. pc[a] \in Transitions /\ pc'[a] = AfterWrite(a)
        BY <1>0, <3>2 DEF Write, Goto
      <4>2. IsManaged(a)
        BY <2>3, <4>1, TransitionPoints DEF AfterWrite
      <4> QED BY <1>0, <2>3, <4>2 DEF IsManaged
    <3>3. CASE Read(a) /\ pc[a] \notin {"validate", "remote"}
      <4>1. pc[a] \in Transitions /\ pc'[a] \in {pc[a], AfterInvalid(a)}
        BY <1>0, <3>3 DEF Read, Goto
      <4>2. AfterInvalid(a) \notin {"validate", "remote"}
        BY <4>1, TransitionPoints DEF AfterInvalid, Escape
      <4> QED BY <2>3, <3>3, <4>1, <4>2
    <3>4. CASE ~Write(a) /\ ~Read(a) /\ pc[a] \notin {"validate", "remote"}
      <4>1. pc'[a] \in {Escape(a), "to_failed", "mark", "await", "to_collecting", "to_succeeded",
                        "to_exit_failed", "cleanup", Over(a), "dead", "to_running"}
        <5>1. CASE Fail(a)
          <6>1. PICK point \in Handler(a) : Goto(a, point)
            BY <5>1 DEF Fail
          <6>2. point \in {Escape(a), "to_failed"}
            BY <6>1 DEF Handler
          <6>3. pc'[a] = point
            BY <1>0, <6>1 DEF Goto
          <6> QED BY <6>2, <6>3
        <5>2. CASE Cleanup(a)
          <6>1. \E point \in {Over(a), Escape(a), "dead"} : Goto(a, point)
            BY <5>2 DEF Cleanup
          <6>2. \A point : Goto(a, point) => pc'[a] = point
            BY <1>0 DEF Goto
          <6> QED BY <6>1, <6>2
        <5>3. CASE Spawn(a) \/ Mark(a) \/ Exited(a) \/ Artifacts(a) \/ Wrapup(a) \/ ResolveSecrets(a)
          BY <1>0, <5>3 DEF Spawn, Mark, Exited, Artifacts, Wrapup, ResolveSecrets, Goto
        <5> QED BY <2>0, <3>4, <5>1, <5>2, <5>3 DEF Validate, Remote
      <4>2. Escape(a) \notin {"validate", "remote"} /\ Over(a) \notin {"validate", "remote"}
        BY DEF Escape, Over
      <4> QED BY <2>3, <4>1, <4>2
    <3> QED BY <3>1, <3>2, <3>3, <3>4
  <2>4. CASE pc'[Server] \notin Quiet
    BY <2>1, <2>3, <2>4 DEF HeldInv
  <2>5. CASE pc'[Server] \in Quiet
    <3>1. a # Server /\ pc'[Server] = pc[Server]
      BY <2>1, <2>2, <2>5
    <3>2. ASSUME NEW r \in Runs \ todo, status'[r] \in Unfinished \ {"queued"} PROVE Held(r)'
      <4>1. CASE Write(a) /\ r = job[a]
        <5>1. Responsible(a, r)'
          BY <3>1, <3>2, <4>1, WriterIsResponsible
        <5> QED BY <3>1, <5>1 DEF Held
      <4>2. CASE ~(Write(a) /\ r = job[a])
        <5>1. status'[r] = status[r]
          BY <2>0, <4>2, ActorFrame DEF Write, SetStatus, TypeOK
        <5>2. Held(r)
          BY <2>5, <3>1, <3>2, <5>1 DEF HeldInv
        <5>3. CASE Responsible(a, r)
          <6>1. ~Write(a)
            BY <4>2, <5>3 DEF Responsible
          <6>2. Responsible(a, r)'
            BY <2>0, <3>2, <5>1, <5>3, <6>1, ResponsibleGoesOn
          <6> QED BY <3>1, <6>2 DEF Held
        <5>4. CASE ~Responsible(a, r)
          BY <2>1, <5>1, <5>2, <5>4, HeldKept
        <5> QED BY <5>3, <5>4
      <4> QED BY <4>1, <4>2
    <3> QED BY <2>1, <2>3, <2>5, <3>1, <3>2 DEF HeldInv
  <2> QED BY <2>4, <2>5
<1>3. ASSUME NEW r \in Runs, Submit(r) PROVE HeldInv'
  <2>1. /\ status' = [status EXCEPT ![r] = "created"] /\ pc' = [pc EXCEPT ![r] = "to_queued"]
        /\ UNCHANGED <<job, mid, todo>> /\ pc[r] = "new" /\ job[r] = r
    BY <1>0, <1>3 DEF Submit, SetStatus, Goto, boot
  <2>2. Responsible(r, r)'
    <3>1. IsValidTransition("created", "queued") /\ Target["to_queued"] = "queued"
      BY DEF IsValidTransition, Status, RunTransitions, Target
    <3> QED BY <1>0, <2>1, <3>1, TransitionPoints DEF Responsible, TypeOK
  <2>3. ASSUME NEW q \in Runs, q # r, Held(q) PROVE Held(q)'
    <3>1. status'[q] = status[q] /\ \A a \in Actors : Responsible(a, q) => a # r
      BY <2>1, <2>3 DEF TypeOK, Responsible
    <3> QED BY <1>0, <2>1, <2>3, <3>1, HeldKept
  <2>4. \A q \in Runs : status'[q] = IF q = r THEN "created" ELSE status[q]
    BY <2>1 DEF TypeOK
  <2>5. \A a \in Actors : pc'[a] = IF a = r THEN "to_queued" ELSE pc[a]
    BY <1>0, <2>1
  <2> QED BY <2>1, <2>2, <2>3, <2>4, <2>5 DEF HeldInv, Held
<1>4. ASSUME NEW r \in Runs, Checks(r) PROVE HeldInv'
  <2>1. /\ pc[r] = "checks" /\ UNCHANGED <<status, mid, job, todo>> /\ job[r] = r
        /\ \/ Goto(r, "to_failed_submit")
           \/ Goto(r, IF r \in Direct THEN "to_submitting" ELSE "ended")
    BY <1>0, <1>4 DEF Checks, row, boot
  <2>2. /\ \A a \in Actors \ {r} : pc'[a] = pc[a]
        /\ pc'[r] \in {"to_failed_submit", "to_submitting", "ended"}
        /\ r \in Direct => pc'[r] \in {"to_failed_submit", "to_submitting"}
    BY <1>0, <2>1 DEF Goto
  <2>3. ASSUME NEW q \in Runs, Held(q), status[q] \in Unfinished PROVE Held(q)'
    <3>1. CASE Responsible(r, q)
      <4>1. q = r /\ r \in Direct /\ status[q] \in {"validating", "submitting"}
        BY <2>1, <3>1, TransitionPoints DEF Responsible
      <4>2. /\ Target["to_failed_submit"] = "failed" /\ Target["to_submitting"] = "submitting"
            /\ IsValidTransition("validating", "submitting")
            /\ IsValidTransition("submitting", "submitting")
            /\ IsValidTransition("validating", "failed") /\ IsValidTransition("submitting", "failed")
        BY DEF Target, IsValidTransition, Status, RunTransitions
      <4>3. Responsible(r, q)'
        BY <2>1, <2>2, <4>1, <4>2, TransitionPoints DEF Responsible
      <4> QED BY <4>3 DEF Held
    <3>2. CASE ~Responsible(r, q)
      BY <2>1, <2>2, <2>3, <3>2, HeldKept
    <3> QED BY <3>1, <3>2
  <2> QED BY <2>1, <2>2, <2>3 DEF HeldInv
<1>5. ASSUME NEW r \in Runs, Lapse(r) PROVE HeldInv'
  BY <1>1, <1>5 DEF Lapse, boot
<1>6. ASSUME NEW r \in Runs, Watch(r) PROVE HeldInv'
  <2>1. /\ pc[Watcher] = "watching" /\ status' = status /\ mid' = mid /\ todo' = todo
        /\ \A a \in Actors \ {Watcher} : pc'[a] = pc[a] /\ job'[a] = job[a]
    BY <1>0, <1>6 DEF Watch, EventLoopFree, Goto, row, boot
  <2>2. \A q \in Runs : ~Responsible(Watcher, q)
    BY <2>1, TransitionPoints DEF Responsible
  <2> QED BY <1>1, <2>1, <2>2
<1>7. ASSUME NEW w \in Workers, WorkerStep(w) \/ Restart(w) PROVE HeldInv'
  <2>1. /\ status' = status /\ mid' = mid /\ todo' = todo
        /\ \A a \in Actors \ {w} : pc'[a] = pc[a] /\ job'[a] = job[a]
    BY <1>0, <1>7 DEF WorkerStep, Claim, Preflight, OnError, Release, Restart, Goto, row, boot
  <2>2. CASE OnError(w)
    <3>1. /\ pc[w] = "on_error" /\ job' = job
          /\ pc'[w] = IF status[job[w]] \in Terminal THEN "abort" ELSE "to_failed_outer"
      BY <1>0, <2>2 DEF OnError, Goto
    <3>2. ASSUME NEW q \in Runs, Held(q), status[q] \in Unfinished PROVE Held(q)'
      <4>1. CASE Responsible(w, q)
        <5>1. job[w] = q /\ pc'[w] = "to_failed_outer" /\ IsValidTransition(status[q], "failed")
          BY <3>1, <3>2, <4>1, UnfinishedMayFail DEF Responsible, Unfinished
        <5>2. Target["to_failed_outer"] = "failed"
          BY DEF Target
        <5>3. Responsible(w, q)'
          BY <2>1, <3>1, <5>1, <5>2, TransitionPoints DEF Responsible
        <5> QED BY <5>3 DEF Held
      <4>2. CASE ~Responsible(w, q)
        BY <2>1, <3>2, <4>2, HeldKept
      <4> QED BY <4>1, <4>2
    <3> QED BY <2>1, <3>2 DEF HeldInv
  <2>3. CASE ~OnError(w)
    <3>1. pc[w] \in {"idle", "preflight", "release", "abort", "dead"}
      BY <1>7, <2>3 DEF WorkerStep, Claim, Preflight, Release, Restart
    <3>2. \A q \in Runs : ~Responsible(w, q)
      BY <3>1, TransitionPoints DEF Responsible
    <3> QED BY <1>1, <2>1, <3>2
  <2> QED BY <2>2, <2>3
<1>8. ASSUME NEW p \in Actors \X Runs, ProcessEnds(p) PROVE HeldInv'
  BY <1>1, <1>8 DEF ProcessEnds, row, boot
<1>9. CASE ServerCrash \/ Shutdown \/ ServerExit
  <2>1. pc'[Server] \in {"down", "stopping"}
    <3>1. CASE ServerCrash
      <4>1. Watcher \in InServer
        BY DEF InServer
      <4> QED BY <3>1, <4>1 DEF ServerCrash, Die
    <3>2. CASE Shutdown \/ ServerExit
      BY <3>2 DEF Shutdown, ServerExit
    <3> QED BY <1>9, <3>1, <3>2
  <2>2. \A a \in Direct : pc'[a] = pc[a] \/ pc'[a] = "ended"
    BY <1>9 DEF ServerCrash, Die, InServer, Killed, Shutdown, ServerExit
  <2> QED BY <2>1, <2>2 DEF HeldInv
<1>10. CASE ServerUp
  <2>1. /\ status' = status /\ mid' = mid /\ job' = job /\ todo' = todo /\ pc[Server] = "starting"
        /\ \A a \in Actors \ ({Server} \cup Resident) : pc'[a] = pc[a]
        /\ \A w \in Resident : pc[w] = "dead"
    BY <1>10 DEF ServerUp, row, boot, BootInv
  <2>2. \A w \in Resident : \A q \in Runs : ~Responsible(w, q)
    BY <2>1, TransitionPoints DEF Responsible
  <2> QED BY <1>1, <2>1, <2>2
<1>11. CASE Boot \/ Unmark \/ \E r \in Runs : Orphan(r)
  <2>1. pc'[Server] \notin Quiet /\ \A a \in Direct : pc'[a] = pc[a]
    BY <1>0, <1>11 DEF Boot, Unmark, Orphan, Goto
  <2> QED BY <2>1 DEF HeldInv
<1>12. CASE Sweep
  <2>1. /\ status' = status /\ pc'[Server] = "sweep_write" /\ \A a \in Direct : pc'[a] = pc[a]
        /\ todo' = {r \in Runs : status[r] \notin Terminal \cup {"absent"}}
    BY <1>0, <1>12 DEF Sweep, Goto, row
  <2>2. \A r \in Runs \ todo' : status'[r] \notin Unfinished
    BY <2>1 DEF Unfinished, Terminal, Status, RunTransitions
  <2> QED BY <2>1, <2>2 DEF HeldInv
<1>13. CASE SweepWrite
  <2>1. /\ pc[Server] = "sweep_write" /\ pc'[Server] = "starting" /\ todo' = {}
        /\ \A r \in Runs : status'[r] = IF r \in todo THEN "lost" ELSE status[r]
        /\ mid' = mid /\ job' = job /\ \A a \in Actors \ {Server} : pc'[a] = pc[a]
    BY <1>0, <1>13 DEF SweepWrite, Goto
  <2>2. ASSUME NEW r \in Runs, status'[r] \in Unfinished \ {"queued"} PROVE Held(r)'
    <3>1. r \notin todo /\ status'[r] = status[r]
      BY <2>1, <2>2 DEF Unfinished, Terminal
    <3>2. Held(r)
      BY <2>1, <2>2, <3>1 DEF HeldInv
    <3> QED BY <2>1, <3>1, <3>2, HeldKept
  <2> QED BY <2>1, <2>2 DEF HeldInv
<1>14. CASE UNCHANGED vars
  BY <1>1, <1>14 DEF vars, row, boot
<1>15. ASSUME NEW a \in Actors, Crash(a) PROVE FALSE
  BY <1>15 DEF Crash, Attended
<1> QED
  BY <1>2, <1>3, <1>4, <1>5, <1>6, <1>7, <1>8, <1>9, <1>10, <1>11, <1>12, <1>13, <1>14, <1>15
  DEF Next, Startup

\* Where only the server goes down, no failure, shutdown or restart leaves an
\* unfinished run to nobody.
THEOREM NobodyIsStuck == Attended => (Spec => []NoStuckRun)
<1> SUFFICES ASSUME Attended PROVE Spec => []NoStuckRun
  OBVIOUS
<1>1. HeldInv => NoStuckRun
  <2>1. \A a \in Actors : \A r \in Runs : Responsible(a, r) => Executing(a, r)
    BY TransitionPoints DEF Responsible, Executing
  <2> QED BY <2>1 DEF HeldInv, Held, NoStuckRun
<1>2. TypeOK /\ ControlInv /\ BootInv /\ FreshInv /\ HeldInv /\ [Next]_vars => HeldInv'
  BY HeldStep
<1> QED
  BY <1>1, <1>2, ControlInit, ControlStep, BootStep, FreshInit, FreshStep, HeldInit, PTL DEF Spec

-----------------------------------------------------------------------------
(* The process records are current.                                        *)

\* Who keeps a record keeps it until it takes it away.
LEMMA KeeperGoesOn ==
  ASSUME TypeOK, ControlInv, NEW a \in Actors,
         Read(a) \/ Write(a) \/ Fail(a) \/ Spawn(a) \/ Mark(a) \/ Exited(a) \/ Artifacts(a)
         \/ Wrapup(a) \/ Cleanup(a) \/ ResolveSecrets(a) \/ Validate(a) \/ Remote(a),
         NEW r \in Runs, Keeping(a, r)
  PROVE  Keeping(a, r)' \/ marker'[r] = NoWorker
<1> USE ActorKinds, TransitionPoints
<1>0. /\ job[a] = r /\ r \notin Managed /\ ~IsManaged(a) /\ PointOK(a, r, pc[a])
      /\ pc \in [Actors -> PC] /\ job \in [Actors -> Runs \cup {NoRun}]
      /\ marker \in [Runs -> Actors \cup {NoWorker}]
  BY DEF Keeping, IsManaged, ControlInv, TypeOK
<1>1. CASE Cleanup(a)
  <2>1. marker' = [marker EXCEPT ![r] = NoWorker]
    BY <1>0, <1>1 DEF Cleanup
  <2> QED BY <1>0, <2>1
<1>2. CASE ~Cleanup(a)
  <2>1. job' = job
    BY <1>2
    DEF Read, Write, Fail, Spawn, Mark, Exited, Artifacts, Wrapup, ResolveSecrets, Validate, Remote
  <2>2. pc'[a] \in {"await", "to_collecting", "artifacts", "to_succeeded", "to_exit_failed",
                "to_failed", "wrapup", "cleanup", "cleanup_raise", "to_cancelled",
                "cleanup_cancel"}
    <3>1. CASE Read(a)
      <4>1. pc'[a] \in {pc[a], AfterInvalid(a)} /\ pc[a] \in Transitions
        BY <1>0, <3>1 DEF Read, Goto
      <4>2. AfterInvalid(a) \in {"to_failed", "cleanup_raise"}
        BY <4>1 DEF Keeping, AfterInvalid
      <4> QED BY <4>1, <4>2 DEF Keeping
    <3>2. CASE Write(a)
      <4>1. pc'[a] = AfterWrite(a) /\ pc[a] \in Transitions
        BY <1>0, <3>2 DEF Write, Goto
      <4>2. AfterWrite(a) \in {"artifacts", "wrapup", "cleanup", "cleanup_cancel"}
        BY <1>0, <4>1 DEF Keeping, AfterWrite
      <4> QED BY <4>1, <4>2
    <3>3. CASE Fail(a)
      <4>1. PICK point \in Handler(a) : Goto(a, point)
        BY <3>3 DEF Fail
      <4>2. point = "to_failed"
        BY <4>1 DEF Handler, Keeping
      <4> QED BY <1>0, <4>1, <4>2 DEF Goto
    <3>4. CASE Exited(a) \/ Artifacts(a) \/ Wrapup(a)
      BY <1>0, <3>4 DEF Exited, Artifacts, Wrapup, Goto
    <3>5. CASE Spawn(a) \/ Mark(a) \/ ResolveSecrets(a) \/ Validate(a) \/ Remote(a)
      BY <3>5 DEF Spawn, Mark, ResolveSecrets, Validate, Remote, Keeping
    <3> QED BY <1>2, <3>1, <3>2, <3>3, <3>4, <3>5
  <2> QED BY <1>0, <2>1, <2>2 DEF Keeping
<1> QED BY <1>1, <1>2

\* At first there are no records.
LEMMA RecordsInit == Init => RecordsInv
BY DEF Init, RecordsInv

\* Every step keeps each record in the hands of its execution, or in sight of
\* startup.
LEMMA RecordsStep ==
  "crash" \notin Faults /\ TypeOK /\ ControlInv /\ BootInv /\ RecordsInv /\ [Next]_vars
     => RecordsInv'
<1> SUFFICES ASSUME "crash" \notin Faults, TypeOK, ControlInv, BootInv, RecordsInv, [Next]_vars
             PROVE  RecordsInv'
  OBVIOUS
<1> USE ActorKinds, LifecycleAssumption
<1>0. /\ \A a \in Actors : PointOK(a, job[a], pc[a]) /\ (a \in Runs => job[a] = a)
      /\ pc \in [Actors -> PC] /\ job \in [Actors -> Runs \cup {NoRun}]
      /\ marker \in [Runs -> Actors \cup {NoWorker}] /\ todo \subseteq Runs
  BY DEF ControlInv, TypeOK
<1>00. marker' \in [Runs -> Actors \cup {NoWorker}]
  BY ControlStep DEF TypeOK
<1>1. ASSUME pc'[Server] \notin {"stopping", "down"} =>
               /\ pc[Server] \notin {"stopping", "down"}
               /\ \A r \in Runs : r \in Unseen => r \in Unseen' \/ marker'[r] = NoWorker
               /\ \A r \in Runs, k \in Actors : marker'[r] = k /\ k # NoWorker =>
                    Keeping(k, r)' \/ (marker[r] = k /\ ~Keeping(k, r))
      PROVE  RecordsInv'
  <2> SUFFICES ASSUME pc'[Server] \notin {"stopping", "down"}, NEW r \in Runs, r \notin Unseen',
                      NEW k \in Actors, marker'[r] = k, k # NoWorker
               PROVE  Keeping(k, r)'
    BY <1>00 DEF RecordsInv, Keeping
  <2>1. r \notin Unseen
    BY <1>1
  <2>2. marker[r] = k => Keeping(k, r)
    BY <1>1, <2>1 DEF RecordsInv
  <2> QED BY <1>1, <2>2
\* While the server stays where it is, the keepers matter only.
<1>2. ASSUME pc'[Server] = pc[Server], job'[Server] = job[Server], todo' = todo,
             \A r \in Runs, k \in Actors : marker'[r] = k /\ k # NoWorker =>
               Keeping(k, r)' \/ (marker[r] = k /\ ~Keeping(k, r))
      PROVE  RecordsInv'
  <2>1. Unseen' = Unseen
    BY <1>2 DEF Unseen
  <2> QED BY <1>1, <1>2, <2>1
<1>4. \A a \in Actors : \A r \in Runs :
        pc[a] \in {"new", "ended", "checks", "idle", "dead", "watching", "preflight", "on_error",
                   "release", "abort"} \cup ServerPoints => ~Keeping(a, r)
  BY DEF Keeping, ServerPoints
<1>5. ASSUME NEW A \in SUBSET Actors, marker' = marker,
             \A b \in Actors \ A : pc'[b] = pc[b] /\ job'[b] = job[b],
             \A b \in A : \A r \in Runs : ~Keeping(b, r)
      PROVE  \A r \in Runs, k \in Actors : marker'[r] = k /\ k # NoWorker =>
               Keeping(k, r)' \/ (marker[r] = k /\ ~Keeping(k, r))
  BY <1>5 DEF Keeping
<1>6. ASSUME NEW a \in Actors, Step(a) PROVE RecordsInv'
  <2>0. Read(a) \/ Write(a) \/ Fail(a) \/ Spawn(a) \/ Mark(a) \/ Exited(a) \/ Artifacts(a)
         \/ Wrapup(a) \/ Cleanup(a) \/ ResolveSecrets(a) \/ Validate(a) \/ Remote(a)
    BY <1>6 DEF Step
  <2>1. /\ \A b \in Actors \ {a} : pc'[b] = pc[b] /\ job'[b] = job[b]
        /\ todo' = todo
        /\ \A r \in Runs : marker'[r] \in {marker[r], NoWorker} \/ (Mark(a) /\ r = job[a])
    BY <2>0, ActorFrame DEF boot
  <2>2. ASSUME NEW r \in Runs, NEW k \in Actors, marker'[r] = k, k # NoWorker
        PROVE  Keeping(k, r)' \/ (marker[r] = k /\ ~Keeping(k, r))
    <3>1. CASE Mark(a) /\ r = job[a]
      <4>1. /\ pc'[a] = "await" /\ job'[a] = r /\ marker'[r] = a /\ pc[a] = "mark"
        BY <1>0, <3>1 DEF Mark, Goto
      <4>2. r \notin Managed
        BY <1>0, <3>1, <4>1 DEF PointOK, LocalPoints
      <4> QED BY <2>2, <4>1, <4>2 DEF Keeping
    <3>2. CASE ~(Mark(a) /\ r = job[a])
      <4>1. marker[r] = k
        BY <1>0, <2>1, <2>2, <3>2
      <4>2. CASE k = a
        BY <2>0, <2>2, <4>1, <4>2, KeeperGoesOn
      <4>3. CASE k # a
        BY <2>1, <4>1, <4>3 DEF Keeping
      <4> QED BY <4>2, <4>3
    <3> QED BY <3>1, <3>2
  <2>3. CASE a # Server
    <3>1. pc'[Server] = pc[Server] /\ job'[Server] = job[Server] /\ todo' = todo
      BY <2>1, <2>3
    <3> QED BY <1>2, <2>2, <3>1
  <2>4. CASE a = Server
    <3>0. pc[Server] = "to_lost"
      BY <1>0, <2>0, <2>4, TransitionPoints
      DEF Read, Write, Fail, Handler, Spawn, Mark, Exited, Artifacts, Wrapup, Cleanup, ResolveSecrets,
          Validate, Remote, PointOK, ServerPoints
    <3>1. pc[Server] = "to_lost" /\ (Read(a) \/ Write(a))
      BY <2>0, <2>4, <3>0
      DEF Fail, Handler, Spawn, Mark, Exited, Artifacts, Wrapup, Cleanup, ResolveSecrets, Validate,
          Remote
    <3>2. job' = job /\ pc'[Server] \in {"to_lost", AfterInvalid(Server), AfterWrite(Server)}
      BY <1>0, <2>4, <3>1 DEF Read, Write, Goto
    <3>3. AfterInvalid(Server) = "down" /\ AfterWrite(Server) = "unmark"
      BY <3>1 DEF AfterInvalid, AfterWrite
    <3>4. pc'[Server] # "down" => Unseen' = Unseen
      BY <2>1, <3>1, <3>2, <3>3 DEF Unseen
    <3> QED BY <1>1, <2>2, <3>1, <3>4 DEF Keeping
  <2> QED BY <2>3, <2>4
<1>7. ASSUME NEW r \in Runs, Submit(r) \/ Checks(r) PROVE RecordsInv'
  <2>1. /\ marker' = marker /\ todo' = todo /\ job' = job /\ pc[r] \in {"new", "checks"}
        /\ \A b \in Actors \ {r} : pc'[b] = pc[b]
    BY <1>0, <1>7 DEF Submit, Checks, Goto, host, boot
  <2> QED BY <1>2, <1>4, <1>5, <2>1 DEF Keeping
<1>8. ASSUME NEW r \in Runs, Lapse(r) PROVE RecordsInv'
  <2>1. UNCHANGED <<marker, todo, job, pc>>
    BY <1>8 DEF Lapse, host, boot
  <2> QED BY <1>2, <1>5, <2>1 DEF Keeping
<1>9. ASSUME NEW r \in Runs, Watch(r) PROVE RecordsInv'
  <2>1. /\ marker' = marker /\ todo' = todo /\ pc[Watcher] = "watching"
        /\ \A b \in Actors \ {Watcher} : pc'[b] = pc[b] /\ job'[b] = job[b]
    BY <1>0, <1>9 DEF Watch, EventLoopFree, Goto, host, boot
  <2> QED BY <1>2, <1>4, <1>5, <2>1 DEF Keeping
<1>10. ASSUME NEW w \in Workers, WorkerStep(w) \/ Restart(w) PROVE RecordsInv'
  <2>1. /\ marker' = marker /\ todo' = todo
        /\ pc[w] \in {"idle", "preflight", "on_error", "release", "abort", "dead"}
        /\ \A b \in Actors \ {w} : pc'[b] = pc[b] /\ job'[b] = job[b]
    BY <1>0, <1>10 DEF WorkerStep, Claim, Preflight, OnError, Release, Restart, Goto, host, boot
  <2> QED BY <1>2, <1>4, <1>5, <2>1 DEF Keeping
<1>11. ASSUME NEW p \in Actors \X Runs, ProcessEnds(p) PROVE RecordsInv'
  <2>1. UNCHANGED <<marker, todo, job, pc>>
    BY <1>11 DEF ProcessEnds, boot
  <2> QED BY <1>2, <1>5, <2>1 DEF Keeping
<1>12. CASE ServerCrash \/ Shutdown \/ ServerExit
  <2>1. CASE ServerCrash
    <3>1. Watcher \in InServer
      BY DEF InServer
    <3>2. pc'[Server] = "down"
      BY <2>1, <3>1 DEF ServerCrash, Die
    <3> QED BY <3>2 DEF RecordsInv
  <2>2. CASE Shutdown \/ ServerExit
    <3>1. pc'[Server] \in {"down", "stopping"}
      BY <2>2 DEF Shutdown, ServerExit
    <3> QED BY <3>1 DEF RecordsInv
  <2> QED BY <1>12, <2>1, <2>2
<1>13. CASE ServerUp
  <2>1. /\ marker' = marker /\ job' = job /\ pc[Server] = "starting" /\ pc'[Server] = "up"
        /\ \A b \in Actors \ ({Server} \cup Resident) : pc'[b] = pc[b]
        /\ \A w \in Resident : pc[w] = "dead"
    BY <1>13 DEF ServerUp, host, BootInv
  <2>2. Unseen = {}
    BY <2>1 DEF Unseen
  <2>3. \A b \in {Server} \cup Resident : \A r \in Runs : ~Keeping(b, r)
    BY <1>0, <1>4, <2>1 DEF PointOK
  <2> QED BY <1>1, <1>5, <2>1, <2>2, <2>3 DEF Keeping
<1>14. CASE Boot
  <2>1. /\ marker' = marker /\ pc'[Server] = "orphans" /\ todo' = {r \in Runs : marker[r] # NoWorker}
    BY <1>0, <1>14 DEF Boot, Goto, host
  <2>2. Unseen' = todo'
    BY <2>1 DEF Unseen
  <2> QED BY <2>1, <2>2 DEF RecordsInv
<1>15. CASE Unmark
  <2>1. /\ pc[Server] = "unmark" /\ pc'[Server] = "orphans" /\ todo' = todo /\ job' = job
        /\ marker' = [marker EXCEPT ![job[Server]] = NoWorker]
        /\ \A b \in Actors \ {Server} : pc'[b] = pc[b]
    BY <1>0, <1>15 DEF Unmark, Goto, boot
  <2>2. \A r \in Runs : marker'[r] = IF r = job[Server] THEN NoWorker ELSE marker[r]
    BY <1>0, <2>1
  <2>3. Unseen = todo \cup {job[Server]} /\ Unseen' = todo
    BY <2>1 DEF Unseen
  <2>4. \A r \in Runs : ~Keeping(Server, r)
    BY <1>0, <1>4 DEF PointOK
  <2>5. \A r \in Runs, k \in Actors : Keeping(k, r) => Keeping(k, r)'
    BY <2>1, <2>4 DEF Keeping
  <2> QED BY <1>1, <2>1, <2>2, <2>3, <2>5 DEF Keeping
<1>16. ASSUME NEW q \in Runs, Orphan(q) PROVE RecordsInv'
  <2>1. /\ pc[Server] = "orphans" /\ q \in todo /\ todo' = todo \ {q}
        /\ \A b \in Actors \ {Server} : pc'[b] = pc[b] /\ job'[b] = job[b]
        /\ \/ marker' = marker /\ marker[q] = NoWorker /\ pc' = pc
           \/ marker' = [marker EXCEPT ![q] = NoWorker] /\ pc' = pc
           \/ marker' = marker /\ pc'[Server] = "to_lost" /\ job'[Server] = q
    BY <1>0, <1>16 DEF Orphan, Goto
  <2>2. \A r \in Runs : marker'[r] = marker[r] \/ (r = q /\ marker'[r] = NoWorker)
    BY <1>0, <2>1
  <2>3. Unseen = todo /\ \A r \in todo : r \in Unseen' \/ (r = q /\ marker'[q] = NoWorker)
    BY <1>0, <2>1 DEF Unseen
  <2>4. \A r \in Runs : ~Keeping(Server, r)
    BY <1>0, <1>4 DEF PointOK
  <2>5. \A r \in Runs, k \in Actors : Keeping(k, r) => Keeping(k, r)'
    BY <2>1, <2>4 DEF Keeping
  <2> QED BY <1>1, <2>1, <2>2, <2>3, <2>5 DEF Keeping
<1>17. CASE Sweep \/ SweepWrite
  <2>1. /\ marker' = marker /\ job' = job /\ \A b \in Actors \ {Server} : pc'[b] = pc[b]
        /\ \/ pc[Server] = "orphans" /\ todo = {} /\ pc'[Server] = "sweep_write"
           \/ pc[Server] = "sweep_write" /\ pc'[Server] = "starting"
    BY <1>0, <1>17 DEF Sweep, SweepWrite, Goto, host
  <2>2. Unseen = {}
    BY <2>1 DEF Unseen
  <2>3. \A r \in Runs : ~Keeping(Server, r)
    BY <1>0, <1>4 DEF PointOK
  <2> QED BY <1>1, <1>5, <2>1, <2>2, <2>3 DEF Keeping
<1>18. CASE UNCHANGED vars
  <2>1. UNCHANGED <<marker, todo, job, pc>>
    BY <1>18 DEF vars, host, boot
  <2> QED BY <1>2, <1>5, <2>1 DEF Keeping
<1>19. ASSUME NEW a \in Actors, Crash(a) PROVE FALSE
  BY <1>19 DEF Crash
<1> QED
  BY <1>6, <1>7, <1>8, <1>9, <1>10, <1>11, <1>12, <1>13, <1>14, <1>15, <1>16, <1>17, <1>18, <1>19
  DEF Next, Startup

\* Where only the server goes down, startup leaves no process record of an
\* earlier instance, whatever its crashes and shutdowns interrupted.
THEOREM RecordsAreCurrent == "crash" \notin Faults => (Spec => []RecordsCurrent)
<1> SUFFICES ASSUME "crash" \notin Faults PROVE Spec => []RecordsCurrent
  OBVIOUS
<1>1. RecordsInv => RecordsCurrent
  <2> SUFFICES ASSUME RecordsInv, pc[Server] = "up", NEW r \in Runs, marker[r] # NoWorker
               PROVE  Executing(marker[r], r)
    BY DEF RecordsCurrent
  <2>1. Keeping(marker[r], r)
    BY DEF RecordsInv, Unseen
  <2> QED BY <2>1 DEF Keeping, Executing
<1>2. TypeOK /\ ControlInv /\ BootInv /\ RecordsInv /\ [Next]_vars => RecordsInv'
  BY RecordsStep
<1> QED BY <1>1, <1>2, ControlInit, ControlStep, BootStep, RecordsInit, PTL DEF Spec

-----------------------------------------------------------------------------
(* The contract: a server on its own moves runs along RUN_TRANSITIONS.     *)

\* One server executes all runs, and no submission fails its checks: with any
\* of these two writers can interleave between the check and the update of one
\* of them, as the findings show.
ServerAlone ==
  /\ Workers = Resident /\ Direct = {}
  /\ \A v, w \in Resident : v = w
  /\ "unavailable" \notin Faults

\* Nobody comes to a transition of a run that somebody has checked one of.
LEMMA NoSecondWriter ==
  ASSUME ServerAlone, TypeOK, ControlInv, BootInv, FreshInv, ValidInv,
         NEW a \in Actors, NEW b \in Actors \ {a}, pc[a] \in Transitions, MayRun(a), mid[b],
         job[a] = job[b]
  PROVE  FALSE
<1> USE ActorKinds, TransitionPoints
<1>0. /\ PointOK(a, job[a], pc[a]) /\ PointOK(b, job[b], pc[b]) /\ pc[b] \in Transitions
      /\ \A r \in Runs : job[r] = r
  BY DEF ControlInv
<1>1. ASSUME NEW c \in Actors, NEW d \in Actors \ {c}, c = Server, pc[c] \in Transitions,
             PointOK(c, job[c], pc[c]), pc[d] \in Transitions
      PROVE  FALSE
  <2>1. pc[Server] = "to_lost"
    BY <1>1 DEF PointOK, ServerPoints
  <2>2. pc[d] \in {"dead", "new", "ended", "watching"}
    BY <1>1, <2>1 DEF BootInv, ServerAlone, Actors
  <2> QED BY <1>1, <2>2
<1>2. ASSUME NEW c \in Runs, NEW d \in Actors \ {c}, pc[c] \in Transitions,
             PointOK(c, job[c], pc[c]), job[d] = job[c]
      PROVE  FALSE
  <2>1. pc[c] = "to_queued"
    BY <1>2 DEF PointOK, DeferredPoints, ServerAlone, ValidInv
  <2>2. status[c] = "created"
    BY <2>1 DEF FreshInv, ServerAlone
  <2> QED BY <1>0, <1>2, <2>2 DEF FreshInv
<1>3. CASE a = Server \/ b = Server
  BY <1>0, <1>1, <1>3
<1>4. CASE a \in Runs \/ b \in Runs
  BY <1>0, <1>2, <1>4
<1>5. CASE a = Watcher /\ b \in Workers
  <2>1. pc[Watcher] # "watching"
    BY <1>5
  <2> QED BY <1>0, <1>5, <2>1 DEF ValidInv, ServerAlone
<1>6. CASE a \in Workers /\ b = Watcher
  BY <1>0, <1>6 DEF MayRun, ServerAlone
<1>7. CASE a \in Workers /\ b \in Workers
  BY <1>7 DEF ServerAlone
<1> QED BY <1>3, <1>4, <1>5, <1>6, <1>7 DEF Actors

\* While the server starts nobody is at a transition.
LEMMA NobodyWritesAtSweep ==
  ASSUME ServerAlone, ControlInv, BootInv, pc[Server] = "sweep_write", NEW a \in Actors
  PROVE  pc[a] \notin Transitions /\ ~mid[a]
<1>1. pc[a] \in {"sweep_write", "dead", "new", "ended", "watching"}
  BY DEF BootInv, ServerAlone, Actors
<1> QED BY <1>1, TransitionPoints DEF ControlInv

\* Nobody is at a transition at first.
LEMMA ValidInit == Init => ValidInv
BY LifecycleAssumption, ActorKinds DEF Init, ValidInv

\* What has been checked stays valid until it is written.
LEMMA ValidStep ==
  ServerAlone /\ TypeOK /\ ControlInv /\ BootInv /\ FreshInv /\ ValidInv /\ [Next]_vars => ValidInv'
<1> SUFFICES ASSUME ServerAlone, TypeOK, ControlInv, BootInv, FreshInv, ValidInv, [Next]_vars
             PROVE  ValidInv'
  OBVIOUS
<1> USE ActorKinds, LifecycleAssumption
<1> DEFINE Waiting == {"idle", "spawn", "await", "validate", "remote", "dead"}
<1>0. /\ \A a \in Actors : PointOK(a, job[a], pc[a]) /\ (a \in Runs => job[a] = a)
      /\ \A a \in Actors : mid[a] => pc[a] \in Transitions /\ job[a] \in Runs
      /\ pc \in [Actors -> PC] /\ job \in [Actors -> Runs \cup {NoRun}]
      /\ mid \in [Actors -> BOOLEAN] /\ todo \subseteq Runs
      /\ status \in [Runs -> Status \cup {"absent"}]
  BY TransitionPoints DEF ControlInv, TypeOK, PointOK, Free
\* A step that takes up no transition and changes no status.
<1>1. ASSUME \A a \in Actors : mid'[a] => mid[a] /\ pc'[a] = pc[a] /\ job'[a] = job[a],
             status' = status,
             pc'[Server] = "sweep_write" => pc[Server] = "sweep_write" /\ todo' = todo,
             \A w \in Resident : pc'[Watcher] # "watching" => pc'[w] \in Waiting,
             \A r \in Runs : pc'[r] # "to_failed_submit"
      PROVE  ValidInv'
  <2>1. ASSUME NEW a \in Actors, mid'[a]
        PROVE  IsValidTransition(status'[job'[a]], Target[pc'[a]]) /\ Alone(a)'
    BY <1>1, <2>1 DEF ValidInv, Alone
  <2> QED BY <1>1, <2>1 DEF ValidInv
<1>2. ASSUME NEW a \in Actors, Step(a) PROVE ValidInv'
  <2>0. /\ MayRun(a)
        /\ Read(a) \/ Write(a) \/ Fail(a) \/ Spawn(a) \/ Mark(a) \/ Exited(a) \/ Artifacts(a)
         \/ Wrapup(a) \/ Cleanup(a) \/ ResolveSecrets(a) \/ Validate(a) \/ Remote(a)
    BY <1>2 DEF Step
  <2>1. /\ \A b \in Actors \ {a} : pc'[b] = pc[b] /\ job'[b] = job[b] /\ mid'[b] = mid[b]
        /\ todo' = todo
    BY <2>0, ActorFrame DEF boot
  <2>2. pc'[a] \notin {"sweep_write", "to_failed_submit"} \/ pc'[a] = pc[a]
    <3>1. CASE Read(a) \/ Write(a)
      <4>1. pc'[a] \in {pc[a], AfterInvalid(a), AfterWrite(a)} /\ pc[a] \in Transitions
        BY <1>0, <3>1 DEF Read, Write, Goto
      <4>2. AfterInvalid(a) \notin {"sweep_write", "to_failed_submit"}
            /\ AfterWrite(a) \notin {"sweep_write", "to_failed_submit"}
        BY <4>1, TransitionPoints DEF AfterInvalid, AfterWrite, Escape
      <4> QED BY <4>1, <4>2
    <3>2. CASE ~Read(a) /\ ~Write(a)
      <4>1. Escape(a) \notin {"sweep_write", "to_failed_submit"}
            /\ Over(a) \notin {"sweep_write", "to_failed_submit"}
        BY DEF Escape, Over
      <4>2. CASE Fail(a)
        <5>1. PICK point \in Handler(a) : Goto(a, point)
          BY <4>2 DEF Fail
        <5>2. point \in {Escape(a), "to_failed"}
          BY <5>1 DEF Handler
        <5>3. pc'[a] = point
          BY <1>0, <5>1 DEF Goto
        <5> QED BY <4>1, <5>2, <5>3
      <4>5. CASE Cleanup(a)
        <5>1. \E point \in {Over(a), Escape(a), "dead"} : Goto(a, point)
          BY <4>5 DEF Cleanup
        <5>2. \A point : Goto(a, point) => pc'[a] = point
          BY <1>0 DEF Goto
        <5> QED BY <4>1, <5>1, <5>2
      <4>3. CASE Spawn(a) \/ Mark(a) \/ Exited(a) \/ Artifacts(a) \/ Wrapup(a)
                 \/ ResolveSecrets(a) \/ Validate(a) \/ Remote(a)
        BY <1>0, <4>3
        DEF Spawn, Mark, Exited, Artifacts, Wrapup, ResolveSecrets, Validate, Remote, Goto
      <4> QED BY <2>0, <3>2, <4>2, <4>3, <4>5
    <3> QED BY <3>1, <3>2
  <2>3. ASSUME NEW w \in Resident, pc'[Watcher] # "watching" PROVE pc'[w] \in Waiting
    <3>1. pc[Watcher] # "watching"
      <4>1. CASE a = Watcher
        BY <2>0, <4>1, TransitionPoints
        DEF Read, Write, Fail, Handler, Spawn, Mark, Exited, Artifacts, Wrapup, Cleanup,
            ResolveSecrets, Validate, Remote
      <4>2. CASE a # Watcher
        BY <2>1, <2>3, <4>2
      <4> QED BY <4>1, <4>2
    <3>2. a # w
      BY <2>0, <3>1 DEF MayRun
    <3> QED BY <2>1, <3>1, <3>2 DEF ValidInv
  <2>4. pc'[Server] = "sweep_write" => pc[Server] = "sweep_write" /\ a # Server
    <3>1. a = Server => pc[a] # "sweep_write"
      BY <2>0, TransitionPoints
      DEF Read, Write, Fail, Handler, Spawn, Mark, Exited, Artifacts, Wrapup, Cleanup,
          ResolveSecrets, Validate, Remote
    <3> QED BY <2>1, <2>2, <3>1
  <2>5. \A r \in Runs : pc'[r] # "to_failed_submit"
    BY <2>1, <2>2 DEF ValidInv
  <2>6. CASE Read(a)
    <3>1. CASE IsValidTransition(status[job[a]], Target[pc[a]])
      <4>1. /\ mid' = [mid EXCEPT ![a] = TRUE] /\ UNCHANGED <<pc, job, status>>
            /\ pc[a] \in Transitions
        BY <2>6, <3>1 DEF Read, row
      <4>2. \A b \in Actors \ {a} : mid[b] => job[b] # job[a]
        BY <2>0, <4>1, NoSecondWriter
      <4>3. ASSUME NEW c \in Actors, mid'[c]
            PROVE  /\ IsValidTransition(status'[job'[c]], Target[pc'[c]])
                   /\ \A b \in Actors \ {c} : mid'[b] => job'[b] # job'[c]
        BY <1>0, <3>1, <4>1, <4>2, <4>3 DEF ValidInv, Alone
      <4> QED BY <2>1, <2>3, <2>4, <2>5, <4>1, <4>3 DEF ValidInv, Alone
    <3>2. CASE ~IsValidTransition(status[job[a]], Target[pc[a]])
      <4>1. mid' = mid /\ ~mid[a] /\ UNCHANGED <<job, status>>
        BY <2>6, <3>2 DEF Read, row
      <4> QED BY <1>1, <2>1, <2>3, <2>4, <2>5, <4>1
    <3> QED BY <3>1, <3>2
  <2>7. CASE Write(a)
    <3>1. /\ mid[a] /\ mid' = [mid EXCEPT ![a] = FALSE] /\ job' = job
          /\ status' = [status EXCEPT ![job[a]] = Target[pc[a]]]
      BY <2>7 DEF Write, SetStatus
    <3>2. ASSUME NEW c \in Actors, mid'[c]
          PROVE  /\ IsValidTransition(status'[job'[c]], Target[pc'[c]])
                 /\ \A b \in Actors \ {c} : mid'[b] => job'[b] # job'[c]
      <4>1. c # a /\ mid[c] /\ pc'[c] = pc[c] /\ job[c] # job[a]
        BY <1>0, <2>1, <3>1, <3>2 DEF ValidInv, Alone
      <4>2. status'[job'[c]] = status[job[c]]
        BY <1>0, <3>1, <4>1
      <4>3. \A b \in Actors : mid'[b] => mid[b]
        BY <1>0, <3>1
      <4> QED BY <3>1, <4>1, <4>2, <4>3 DEF ValidInv, Alone
    <3>3. pc[Server] # "sweep_write"
      BY <3>1, NobodyWritesAtSweep
    <3> QED BY <2>1, <2>3, <2>4, <2>5, <3>2, <3>3 DEF ValidInv, Alone
  <2>8. CASE ~Read(a) /\ ~Write(a)
    <3>1. mid' = mid /\ ~mid[a] /\ status' = status
      <4>1. pc[a] \notin Transitions
        BY <2>0, <2>8, TransitionPoints
        DEF Fail, Handler, Spawn, Mark, Exited, Artifacts, Wrapup, Cleanup, ResolveSecrets, Validate,
            Remote
      <4> QED
        BY <1>0, <2>0, <2>8, <4>1
        DEF Fail, Spawn, Mark, Exited, Artifacts, Wrapup, Cleanup, ResolveSecrets, Validate,
            Remote, row
    <3> QED BY <1>1, <2>1, <2>3, <2>4, <2>5, <3>1
  <2> QED BY <2>6, <2>7, <2>8
<1>3. ASSUME NEW r \in Runs, Submit(r) PROVE ValidInv'
  <2>1. /\ pc[r] = "new" /\ status[r] = "absent" /\ status' = [status EXCEPT ![r] = "created"]
        /\ UNCHANGED <<job, mid, todo>> /\ pc' = [pc EXCEPT ![r] = "to_queued"]
    BY <1>3 DEF Submit, SetStatus, Goto, boot, FreshInv
  <2>2. ~mid[r]
    BY <1>0, <2>1, TransitionPoints
  <2>3. \A a \in Actors \ {r} : job[a] # r
    BY <2>1 DEF FreshInv
  <2>4. ASSUME NEW a \in Actors, mid'[a]
        PROVE  /\ IsValidTransition(status'[job'[a]], Target[pc'[a]])
               /\ \A b \in Actors \ {a} : mid'[b] => job'[b] # job'[a]
    <3>1. a # r /\ pc'[a] = pc[a] /\ status'[job'[a]] = status[job[a]]
      BY <1>0, <2>1, <2>2, <2>3, <2>4
    <3> QED BY <2>1, <2>4, <3>1 DEF ValidInv, Alone
  <2>5. pc'[Server] = "sweep_write" => pc[Server] = "sweep_write"
    BY <1>0, <2>1
  <2>6. pc[Server] = "up"
    BY <1>3 DEF Submit, ServerAlone
  <2>7. /\ \A w \in Resident : pc'[Watcher] # "watching" => pc'[w] \in Waiting
        /\ \A q \in Runs : pc'[q] # "to_failed_submit"
    BY <1>0, <2>1 DEF ValidInv
  <2> QED BY <2>4, <2>5, <2>6, <2>7 DEF ValidInv, Alone
<1>4. ASSUME NEW r \in Runs, Checks(r) PROVE ValidInv'
  <2>1. /\ pc[r] = "checks" /\ pc' = [pc EXCEPT ![r] = "ended"]
        /\ UNCHANGED <<status, mid, job, todo>>
    BY <1>4 DEF Checks, ServerAlone, Goto, row, boot
  <2>2. ~mid[r]
    BY <1>0, <2>1, TransitionPoints
  <2>3. \A a \in Actors : mid'[a] => mid[a] /\ pc'[a] = pc[a] /\ job'[a] = job[a]
    BY <1>0, <2>1, <2>2
  <2>4. /\ pc'[Server] = pc[Server] /\ \A w \in Resident : pc'[w] = pc[w]
        /\ pc'[Watcher] = pc[Watcher] /\ \A q \in Runs : pc'[q] \in {pc[q], "ended"}
    BY <1>0, <2>1
  <2> QED BY <1>1, <2>1, <2>3, <2>4 DEF ValidInv
<1>5. ASSUME NEW r \in Runs, Lapse(r) PROVE ValidInv'
  BY <1>1, <1>5 DEF Lapse, boot, ValidInv
<1>6. ASSUME NEW r \in Runs, Watch(r) PROVE ValidInv'
  <2>1. /\ pc[Watcher] = "watching" /\ pc[Server] = "up" /\ UNCHANGED <<status, mid, todo>>
        /\ \A a \in Actors \ {Watcher} : pc'[a] = pc[a] /\ job'[a] = job[a]
        /\ \A w \in Resident : pc[w] \in Waiting
    BY <1>0, <1>6 DEF Watch, EventLoopFree, Goto, row, boot
  <2>2. ~mid[Watcher]
    BY <1>0, <2>1, TransitionPoints
  <2> QED BY <1>1, <2>1, <2>2 DEF ValidInv
<1>7. ASSUME NEW w \in Workers, WorkerStep(w) PROVE ValidInv'
  <2>1. /\ pc[Watcher] = "watching" /\ UNCHANGED <<status, mid, todo>>
        /\ pc[w] \in {"idle", "preflight", "on_error", "release", "abort"}
        /\ \A a \in Actors \ {w} : pc'[a] = pc[a] /\ job'[a] = job[a]
    BY <1>0, <1>7 DEF WorkerStep, MayRun, ServerAlone, Claim, Preflight, OnError, Release, Goto, row, boot
  <2>2. ~mid[w]
    BY <1>0, <2>1, TransitionPoints
  <2> QED BY <1>1, <2>1, <2>2 DEF ValidInv
<1>8. ASSUME NEW w \in Workers, Restart(w) PROVE FALSE
  BY <1>8 DEF Restart, ServerAlone
<1>9. ASSUME NEW a \in Actors, Crash(a) PROVE FALSE
  BY <1>9 DEF Crash, ServerAlone
<1>10. ASSUME NEW p \in Actors \X Runs, ProcessEnds(p) PROVE ValidInv'
  BY <1>1, <1>10 DEF ProcessEnds, row, boot, ValidInv
<1>11. CASE ServerCrash
  <2>1. /\ Die(InServer) /\ status' = status /\ Watcher \in InServer
    BY <1>11 DEF ServerCrash, row, InServer
  <2>2. InServer = Workers \cup Runs \cup {Watcher}
    BY DEF InServer, ServerAlone
  <2>3. /\ \A a \in Actors : ~mid'[a] /\ pc'[Server] = "down" /\ pc'[Watcher] = "watching"
        /\ \A r \in Runs : pc'[r] \in {"new", "ended"}
    BY <2>1, <2>2 DEF Die, Killed, Actors
  <2> QED BY <1>1, <2>1, <2>3
<1>12. CASE Shutdown
  <2>1. /\ UNCHANGED <<status, mid>> /\ pc'[Server] = "stopping" /\ pc'[Watcher] = "watching"
        /\ \A r \in Runs : pc'[r] = pc[r] /\ job'[r] = job[r]
        /\ job'[Watcher] = job[Watcher] /\ pc[Watcher] = "watching"
        /\ pc[Server] = "up" /\ \A w \in Resident : pc[w] \in Waiting
    BY <1>12 DEF Shutdown, EventLoopFree, row
  <2>2. \A w \in Resident : ~mid[w]
    BY <1>0, <2>1, TransitionPoints
  <2>3. ~mid[Server] /\ ~mid[Watcher]
    BY <1>0, <2>1, TransitionPoints
  <2>4. \A a \in Actors : mid'[a] => mid[a] /\ pc'[a] = pc[a] /\ job'[a] = job[a]
    BY <2>1, <2>2, <2>3 DEF Actors, ServerAlone
  <2> QED BY <1>1, <2>1, <2>4 DEF ValidInv
<1>13. CASE ServerExit \/ ServerUp
  <2>1. /\ UNCHANGED <<status, mid, job>> /\ pc'[Server] \in {"down", "up"}
        /\ \A a \in Actors \ ({Server} \cup Resident) : pc'[a] = pc[a]
        /\ pc[Server] \in {"stopping", "starting"} /\ \A w \in Resident : pc[w] \in {"dead", "idle"}
        /\ pc[Watcher] = "watching"
    BY <1>13 DEF ServerExit, ServerUp, row, BootInv
  <2>2. ~mid[Server] /\ \A w \in Resident : ~mid[w]
    BY <1>0, <2>1, TransitionPoints
  <2> QED BY <1>1, <2>1, <2>2 DEF ValidInv
<1>14. ASSUME status' = status, mid' = mid, ~mid[Server], \A a \in Actors \ {Server} : pc'[a] = pc[a] /\ job'[a] = job[a],
              pc[Server] # "up",
              pc'[Server] = "sweep_write" => \A r \in todo' : status[r] \in Unfinished
       PROVE  ValidInv'
  <2>1. pc'[Watcher] = "watching" /\ \A r \in Runs : pc'[r] # "to_failed_submit"
    BY <1>14 DEF BootInv, ValidInv
  <2>2. ASSUME NEW a \in Actors, mid'[a]
        PROVE  IsValidTransition(status'[job'[a]], Target[pc'[a]]) /\ Alone(a)'
    <3>1. a # Server /\ mid[a] /\ \A b \in Actors : mid[b] => job'[b] = job[b]
      BY <1>14, <2>2
    <3> QED BY <1>14, <3>1 DEF ValidInv, Alone
  <2> QED BY <1>14, <2>1, <2>2 DEF ValidInv
<1>15. CASE Boot \/ Unmark \/ Sweep \/ \E r \in Runs : Orphan(r)
  <2>1. /\ UNCHANGED <<status, mid>> /\ pc[Server] \in {"down", "unmark", "orphans"}
        /\ \A a \in Actors \ {Server} : pc'[a] = pc[a] /\ job'[a] = job[a]
        /\ pc'[Server] = "sweep_write" => Sweep
    BY <1>0, <1>15 DEF Boot, Unmark, Sweep, Orphan, Goto, row
  <2>2. Sweep => \A r \in todo' : status[r] \in Unfinished
    BY <1>0 DEF Sweep, Unfinished
  <2>3. ~mid[Server]
    BY <1>0, <2>1, TransitionPoints
  <2> QED BY <1>14, <2>1, <2>2, <2>3
<1>16. CASE SweepWrite
  <2>1. /\ pc[Server] = "sweep_write" /\ mid' = mid /\ pc'[Server] = "starting"
        /\ \A a \in Actors \ {Server} : pc'[a] = pc[a]
    BY <1>0, <1>16 DEF SweepWrite, Goto
  <2>2. \A a \in Actors : ~mid[a]
    BY <2>1, NobodyWritesAtSweep
  <2>3. pc'[Watcher] = "watching" /\ \A r \in Runs : pc'[r] # "to_failed_submit"
    BY <2>1 DEF BootInv, ValidInv
  <2> QED BY <2>1, <2>2, <2>3 DEF ValidInv
<1>17. CASE UNCHANGED vars
  BY <1>1, <1>17 DEF vars, row, boot, ValidInv
<1> QED
  BY <1>2, <1>3, <1>4, <1>5, <1>6, <1>7, <1>8, <1>9, <1>10, <1>11, <1>12, <1>13, <1>15, <1>16, <1>17
  DEF Next, Startup

\* Each write of a status is one the contract allows.
LEMMA ContractStep ==
  ServerAlone /\ TypeOK /\ ControlInv /\ BootInv /\ FreshInv /\ ValidInv /\ [Next]_vars
    => [Contract!Next]_status
<1> SUFFICES ASSUME ServerAlone, TypeOK, ControlInv, BootInv, FreshInv, ValidInv, [Next]_vars
             PROVE  [Contract!Next]_status
  OBVIOUS
<1> USE ActorKinds
<1>1. ASSUME NEW r \in Runs, Submit(r) PROVE Contract!Next
  <2>1. Contract!Create(r)
    BY <1>1 DEF Submit, SetStatus, FreshInv, Contract!Create
  <2> QED BY <2>1 DEF Contract!Next
<1>2. ASSUME NEW a \in Actors, Write(a) PROVE [Contract!Next]_status
  <2>1. /\ mid[a] /\ pc[a] \in Transitions
        /\ status' = [status EXCEPT ![job[a]] = Target[pc[a]]]
    BY <1>2 DEF Write, SetStatus
  <2>2. job[a] \in Runs /\ IsValidTransition(status[job[a]], Target[pc[a]])
    BY <2>1, TransitionPoints DEF ControlInv, PointOK, Free, ValidInv
  <2>3. Target[pc[a]] \in Status /\ "absent" \notin Status
    BY <2>1, TransitionPoints DEF Status, RunTransitions
  <2>4. CASE status[job[a]] = Target[pc[a]]
    BY <2>1, <2>2, <2>4 DEF TypeOK
  <2>5. CASE status[job[a]] # Target[pc[a]]
    <3>1. status[job[a]] # "absent" /\ Target[pc[a]] \in RunTransitions[status[job[a]]]
      BY <2>2, <2>3, <2>5 DEF IsValidTransition
    <3>2. Contract!RunTransitions = RunTransitions
      BY DEF RunTransitions, Contract!RunTransitions
    <3>3. Contract!Move(job[a])
      BY <2>1, <3>1, <3>2 DEF Contract!Move
    <3> QED BY <2>2, <3>3 DEF Contract!Next
  <2> QED BY <2>4, <2>5
<1>3. CASE SweepWrite
  <2>1. /\ status' = [r \in Runs |-> IF r \in todo THEN "lost" ELSE status[r]]
        /\ \A r \in todo : status[r] \in Unfinished /\ todo \in SUBSET Runs
    BY <1>3 DEF SweepWrite, ValidInv, TypeOK
  <2>2. Terminal = Contract!Terminal /\ "absent" \notin Status
    BY DEF Terminal, Contract!Terminal, Status, RunTransitions
  <2>3. Contract!Reconcile(todo)
    BY <2>1, <2>2 DEF Contract!Reconcile, Unfinished
  <2> QED BY <2>3 DEF Contract!Next, TypeOK
<1> QED BY <1>1, <1>2, <1>3, StatusSteps

\* A server on its own moves each run along RUN_TRANSITIONS only, although
\* each check and the update that follows it are two database accesses.
THEOREM ContractIsKept == ServerAlone => (Spec => KeepsContract)
<1> SUFFICES ASSUME ServerAlone PROVE Spec => KeepsContract
  OBVIOUS
<1>1. Init => Contract!Init
  BY DEF Init, Contract!Init
<1>2. TypeOK /\ ControlInv /\ BootInv /\ FreshInv /\ ValidInv /\ [Next]_vars
        => ValidInv' /\ [Contract!Next]_status
  BY ValidStep, ContractStep
<1> QED
  BY <1>1, <1>2, ControlInit, ControlStep, BootStep, FreshInit, FreshStep, ValidInit, PTL
  DEF Spec, KeepsContract, Contract!Spec

\* So its finished runs keep their outcome.
THEOREM OutcomesStay == ServerAlone => (Spec => TerminalIsFinal)
<1> SUFFICES ASSUME ServerAlone PROVE Spec => TerminalIsFinal
  OBVIOUS
<1>1. Contract!TypeOK /\ [Contract!Next]_status =>
        Contract!TypeOK'
        /\ [\A r \in Runs : status[r] \in Contract!Terminal => status'[r] = status[r]]_status
  <2> SUFFICES ASSUME Contract!TypeOK, [Contract!Next]_status
               PROVE  Contract!TypeOK'
                 /\ [\A r \in Runs : status[r] \in Contract!Terminal => status'[r] = status[r]]_status
    OBVIOUS
  <2>1. ASSUME NEW r \in Runs, Contract!Create(r)
        PROVE  /\ Contract!TypeOK'
               /\ \A q \in Runs : status[q] \in Contract!Terminal => status'[q] = status[q]
    BY <2>1 DEF Contract!TypeOK, Contract!Create, Contract!Terminal, Contract!Status,
                Contract!RunTransitions
  <2>2. ASSUME NEW r \in Runs, Contract!Move(r)
        PROVE  /\ Contract!TypeOK'
               /\ \A q \in Runs : status[q] \in Contract!Terminal => status'[q] = status[q]
    <3>1. PICK s \in Contract!RunTransitions[status[r]] : status' = [status EXCEPT ![r] = s]
      BY <2>2 DEF Contract!Move
    <3>2. status[r] \in Contract!Status /\ status[r] \notin Contract!Terminal /\ s \in Contract!Status
      BY <2>2, <3>1
      DEF Contract!Move, Contract!TypeOK, Contract!Status, Contract!Terminal, Contract!RunTransitions
    <3> QED BY <3>1, <3>2 DEF Contract!TypeOK
  <2>3. ASSUME NEW S \in SUBSET Runs, Contract!Reconcile(S)
        PROVE  /\ Contract!TypeOK'
               /\ \A q \in Runs : status[q] \in Contract!Terminal => status'[q] = status[q]
    BY <2>3 DEF Contract!TypeOK, Contract!Reconcile, Contract!Status, Contract!RunTransitions
  <2> QED BY <2>1, <2>2, <2>3 DEF Contract!Next, Contract!TypeOK
<1>2. Contract!Init => Contract!TypeOK
  BY DEF Contract!Init, Contract!TypeOK
<1> QED
  BY <1>1, <1>2, ContractIsKept, PTL
  DEF KeepsContract, Contract!Spec, TerminalIsFinal, Contract!TerminalIsFinal
=============================================================================
