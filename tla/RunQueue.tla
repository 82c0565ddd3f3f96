------------------------------ MODULE RunQueue ------------------------------
(***************************************************************************)
(* The database-backed run queue: the claim columns of the runs table      *)
(* (storage.py claim_run, heartbeat_run, release_run_claim) and the worker *)
(* loop that uses them (run_worker.py DurableRunWorker), with the injected *)
(* executor reduced to what the queue sees of it: it moves the run out of  *)
(* 'queued', returns, or raises.                                           *)
(*                                                                         *)
(* claim_token is "<worker_id>:<ulid>".  A worker executes one run at a    *)
(* time and a restarted worker never presents an old token again, so the   *)
(* token a row holds is represented by the worker that wrote it.           *)
(***************************************************************************)
EXTENDS Naturals, FiniteSets

CONSTANTS
  Runs,       \* run ids
  Workers,    \* claiming loops: the server's own and the CLI workers
  Resident,   \* the workers of the server: an exception does not end them
  Mortal,     \* the workers that may crash
  Poison,     \* runs whose execution raises before its first transition
  NoWorker,   \* claim_token IS NULL
  NoRun       \* the worker is between two polls

ASSUME QueueAssumption ==
  /\ Resident \subseteq Workers
  /\ Mortal \subseteq Workers
  /\ Poison \subseteq Runs
  /\ NoWorker \notin Workers
  /\ NoRun \notin Runs
  /\ IsFiniteSet(Runs)

VARIABLES
  phase,      \* [Runs -> Phase], what claim_run distinguishes of runs.status
  born,       \* [Runs -> Nat], runs.created_at; 0 for a row not inserted
  owner,      \* [Runs -> Workers \cup {NoWorker}], runs.claim_token
  expired,    \* [Runs -> BOOLEAN], heartbeat_at < now - lease_seconds
  job,        \* [Workers -> Runs \cup {NoRun}], the record being executed
  down,       \* workers whose process has ended
  lapsed,     \* history: workers whose present claim expired while 'queued'
  crashed     \* history: workers that have died holding their claim

vars == <<phase, born, owner, expired, job, down, lapsed, crashed>>

Phase == {"absent", "created", "queued", "left"}

TypeOK ==
  /\ phase \in [Runs -> Phase]
  /\ born \in [Runs -> Nat]
  /\ owner \in [Runs -> Workers \cup {NoWorker}]
  /\ expired \in [Runs -> BOOLEAN]
  /\ job \in [Workers -> Runs \cup {NoRun}]
  /\ down \subseteq Workers
  /\ lapsed \subseteq Workers
  /\ crashed \subseteq Workers

Init ==
  /\ phase = [r \in Runs |-> "absent"]
  /\ born = [r \in Runs |-> 0]
  /\ owner = [r \in Runs |-> NoWorker]
  /\ expired = [r \in Runs |-> FALSE]
  /\ job = [w \in Workers |-> NoRun]
  /\ down = {}
  /\ lapsed = {}
  /\ crashed = {}

-----------------------------------------------------------------------------
(* The submitting side.                                                    *)

\* create_run: the INSERT; created_at orders the queue.
Create(r) ==
  /\ phase[r] = "absent"
  /\ phase' = [phase EXCEPT ![r] = "created"]
  /\ born' = [born EXCEPT ![r] = 1 + Cardinality({q \in Runs : born[q] # 0})]
  /\ UNCHANGED <<owner, expired, job, down, lapsed, crashed>>

\* transition_run(run.id, "queued") of LocalRuntime.submit.
Enqueue(r) ==
  /\ phase[r] = "created"
  /\ phase' = [phase EXCEPT ![r] = "queued"]
  /\ UNCHANGED <<born, owner, expired, job, down, lapsed, crashed>>

\* A failed submission or startup reconciliation ends runs nobody executes
\* yet; neither touches the claim columns.
Withdraw(S) ==
  /\ S # {}
  /\ \A r \in S : phase[r] \in {"created", "queued"}
  /\ phase' = [r \in Runs |-> IF r \in S THEN "left" ELSE phase[r]]
  /\ UNCHANGED <<born, owner, expired, job, down, lapsed, crashed>>

-----------------------------------------------------------------------------
(* The lease.                                                              *)

\* Mutant of Claimable: the lease of another worker is ignored.
ClaimableIgnoringLease(r) == phase[r] = "queued"

\* Mutant of Claimable: an expired lease is never taken over.
ClaimableUnclaimed(r) == phase[r] = "queued" /\ owner[r] = NoWorker

\* WHERE status='queued' AND (claim_token IS NULL OR heartbeat_at IS NULL OR
\* heartbeat_at<cutoff); the two columns are set and cleared together.
Claimable(r) == phase[r] = "queued" /\ (owner[r] = NoWorker \/ expired[r])

\* ORDER BY created_at LIMIT 1.
FirstClaimable(r) ==
  /\ Claimable(r)
  /\ \A q \in Runs : Claimable(q) => born[r] <= born[q]

Claim(w, r) ==
  /\ w \notin down
  /\ job[w] = NoRun
  /\ FirstClaimable(r)
  /\ owner' = [owner EXCEPT ![r] = w]
  /\ expired' = [expired EXCEPT ![r] = FALSE]
  /\ job' = [job EXCEPT ![w] = r]
  /\ lapsed' = lapsed \ {w}
  /\ UNCHANGED <<phase, born, down, crashed>>

\* One turn of _heartbeat_loop that still matches the row.  A turn that
\* matches no row ends the loop; its reasons (another token, no longer
\* 'queued') are permanent, so the ended loop needs no state.
Heartbeat(w) ==
  /\ w \notin down
  /\ job[w] # NoRun
  /\ owner[job[w]] = w
  /\ phase[job[w]] = "queued"
  /\ expired' = [expired EXCEPT ![job[w]] = FALSE]
  /\ UNCHANGED <<phase, born, owner, job, down, lapsed, crashed>>

\* Time passes without a heartbeat: the loop was starved by synchronous work,
\* the claimant asked for a shorter lease than the owner renews for, or the
\* owner is gone.
Lapse(r) ==
  /\ owner[r] # NoWorker
  /\ ~expired[r]
  /\ expired' = [expired EXCEPT ![r] = TRUE]
  /\ lapsed' = IF phase[r] = "queued" /\ job[owner[r]] = r
               THEN lapsed \cup {owner[r]} ELSE lapsed
  /\ UNCHANGED <<phase, born, owner, job, down, crashed>>

\* Mutant of ReleasedBy: WHERE id=?, without the token.
ReleasedByAnyone(w) ==
  /\ owner' = [owner EXCEPT ![job[w]] = NoWorker]
  /\ expired' = [expired EXCEPT ![job[w]] = FALSE]

\* release_run_claim: UPDATE ... WHERE id=? AND claim_token=?.
ReleasedBy(w) ==
  IF owner[job[w]] = w
  THEN /\ owner' = [owner EXCEPT ![job[w]] = NoWorker]
       /\ expired' = [expired EXCEPT ![job[w]] = FALSE]
  ELSE UNCHANGED <<owner, expired>>

-----------------------------------------------------------------------------
(* The executor as DurableRunWorker.poll_once_async sees it.               *)

\* Its first transition_run takes the run out of the queue.
Start(w) ==
  /\ w \notin down
  /\ job[w] # NoRun
  /\ job[w] \notin Poison
  /\ phase[job[w]] = "queued"
  /\ phase' = [phase EXCEPT ![job[w]] = "left"]
  /\ UNCHANGED <<born, owner, expired, job, down, lapsed, crashed>>

\* It returns: release the lease, poll again.
Finish(w) ==
  /\ w \notin down
  /\ job[w] # NoRun
  /\ phase[job[w]] = "left"
  /\ ReleasedBy(w)
  /\ job' = [job EXCEPT ![w] = NoRun]
  /\ lapsed' = lapsed \ {w}
  /\ UNCHANGED <<phase, born, down, crashed>>

\* Mutant of Raise: the exception leaves poll_once_async without a release.
RaiseUnreleased(w) ==
  /\ w \notin down
  /\ job[w] # NoRun
  /\ job[w] \in Poison \/ phase[job[w]] = "left"
  /\ job' = [job EXCEPT ![w] = NoRun]
  /\ lapsed' = lapsed \ {w}
  /\ down' = IF w \in Resident THEN down ELSE down \cup {w}
  /\ UNCHANGED <<phase, born, owner, expired, crashed>>

\* It raises: release the lease and re-raise.  The server's drain loop
\* swallows the exception; `sdpstudio worker --runs-only` ends with it.
Raise(w) ==
  /\ w \notin down
  /\ job[w] # NoRun
  /\ job[w] \in Poison \/ phase[job[w]] = "left"
  /\ ReleasedBy(w)
  /\ job' = [job EXCEPT ![w] = NoRun]
  /\ lapsed' = lapsed \ {w}
  /\ down' = IF w \in Resident THEN down ELSE down \cup {w}
  /\ UNCHANGED <<phase, born, crashed>>

\* The process dies, or its task is cancelled: nothing is released.
Crash(w) ==
  /\ w \in Mortal \ down
  /\ down' = down \cup {w}
  /\ job' = [job EXCEPT ![w] = NoRun]
  /\ lapsed' = lapsed \ {w}
  /\ crashed' = crashed \cup {w}
  /\ UNCHANGED <<phase, born, owner, expired>>

Recover(w) ==
  /\ w \in down
  /\ down' = down \ {w}
  /\ UNCHANGED <<phase, born, owner, expired, job, lapsed, crashed>>

-----------------------------------------------------------------------------
Poll(w) == \E r \in Runs : Claim(w, r)

Execute(w) == Start(w) \/ Finish(w) \/ Raise(w)

Next ==
  \/ \E r \in Runs : Create(r) \/ Enqueue(r) \/ Lapse(r)
  \/ \E S \in SUBSET Runs : Withdraw(S)
  \/ \E w \in Workers :
       Poll(w) \/ Heartbeat(w) \/ Execute(w) \/ Crash(w) \/ Recover(w)

Spec == Init /\ [][Next]_vars

\* A live worker polls and its executor makes progress; nobody renews the
\* lease of a worker that is gone, so that lease runs out.  Workers do not
\* die for ever: a worker that claims and dies without end could win every
\* claim.
Abandoned(r) == owner[r] # NoWorker /\ job[owner[r]] # r

Fairness ==
  /\ \A w \in Workers : WF_vars(Poll(w)) /\ WF_vars(Execute(w))
  /\ \A r \in Runs : WF_vars(Abandoned(r) /\ Lapse(r))
  /\ <>[][\A w \in Workers : ~Crash(w)]_vars

FairSpec == Spec /\ Fairness

-----------------------------------------------------------------------------
(* Properties.                                                             *)

\* A worker whose lease has not expired since it claimed is the one the row
\* names: no other worker's claim, heartbeat or release took the row away.
KeptLeaseOwns ==
  \A w \in Workers : job[w] # NoRun /\ w \notin lapsed => owner[job[w]] = w

\* Two workers execute the same run only after a lease expired while its
\* owner was still at work (test_run_claim_is_exclusive_and_heartbeat_
\* requires_ownership).
ExclusiveExecution ==
  \A w1, w2 \in Workers :
    w1 # w2 /\ job[w1] # NoRun /\ job[w1] = job[w2] =>
      w1 \in lapsed \/ w2 \in lapsed

\* No claim is left behind by an execution that ended, well or not: a row
\* names a worker that is executing that run or that died while it did.
ClaimsHeld ==
  \A r \in Runs : owner[r] # NoWorker => job[owner[r]] = r \/ owner[r] \in crashed

\* Every queued run leaves the queue, also when the worker that claimed it
\* first has died: its claim expires and another worker takes it over.
QueueDrains == \A r \in Runs : phase[r] = "queued" ~> phase[r] = "left"
=============================================================================
