--------------------------- MODULE RunQueue_proofs ---------------------------
(***************************************************************************)
(* Proofs about RunQueue for any number of runs and workers, whichever of  *)
(* them crash and however long they stall.                                 *)
(***************************************************************************)
EXTENDS RunQueue, FiniteSetTheorems, TLAPS

-----------------------------------------------------------------------------
(* Every variable keeps its type.                                          *)

\* A released row is a well-typed row.
LEMMA ReleaseTyped ==
  ASSUME TypeOK, NEW w \in Workers, job[w] # NoRun, ReleasedBy(w)
  PROVE  /\ owner' \in [Runs -> Workers \cup {NoWorker}]
         /\ expired' \in [Runs -> BOOLEAN]
BY DEF TypeOK, ReleasedBy

\* A queue without claims has the types.
LEMMA TypeInit == Init => TypeOK
BY QueueAssumption DEF Init, TypeOK, Phase

\* Every step of a worker, a lease or the runs keeps the types.
LEMMA TypeStep == TypeOK /\ [Next]_vars => TypeOK'
<1> SUFFICES ASSUME TypeOK, [Next]_vars PROVE TypeOK'
  OBVIOUS
<1> USE QueueAssumption
<1>1. ASSUME NEW r \in Runs, Create(r) PROVE TypeOK'
  <2>1. IsFiniteSet({q \in Runs : born[q] # 0})
    BY FS_Subset
  <2>2. Cardinality({q \in Runs : born[q] # 0}) \in Nat
    BY <2>1, FS_CardinalityType
  <2>3. born' \in [Runs -> Nat]
    BY <1>1, <2>2 DEF Create, TypeOK
  <2>4. phase' \in [Runs -> Phase]
    BY <1>1 DEF Create, TypeOK, Phase
  <2> QED BY <1>1, <2>3, <2>4 DEF Create, TypeOK
<1>2. ASSUME NEW r \in Runs, Enqueue(r) PROVE TypeOK'
  BY <1>2 DEF Enqueue, TypeOK, Phase
<1>3. ASSUME NEW r \in Runs, Lapse(r) PROVE TypeOK'
  <2>1. expired' \in [Runs -> BOOLEAN]
    BY <1>3 DEF Lapse, TypeOK
  <2>2. lapsed' \subseteq Workers
    BY <1>3 DEF Lapse, TypeOK
  <2> QED BY <1>3, <2>1, <2>2 DEF Lapse, TypeOK
<1>4. ASSUME NEW S \in SUBSET Runs, Withdraw(S) PROVE TypeOK'
  BY <1>4 DEF Withdraw, TypeOK, Phase
<1>5. ASSUME NEW w \in Workers, NEW r \in Runs, Claim(w, r) PROVE TypeOK'
  BY <1>5 DEF Claim, TypeOK
<1>6. ASSUME NEW w \in Workers, Heartbeat(w) PROVE TypeOK'
  BY <1>6 DEF Heartbeat, TypeOK
<1>7. ASSUME NEW w \in Workers, Start(w) PROVE TypeOK'
  BY <1>7 DEF Start, TypeOK, Phase
<1>8. ASSUME NEW w \in Workers, Finish(w) PROVE TypeOK'
  BY <1>8, ReleaseTyped DEF Finish, TypeOK
<1>9. ASSUME NEW w \in Workers, Raise(w) PROVE TypeOK'
  BY <1>9, ReleaseTyped DEF Raise, TypeOK
<1>10. ASSUME NEW w \in Workers, Crash(w) PROVE TypeOK'
  BY <1>10 DEF Crash, TypeOK
<1>11. ASSUME NEW w \in Workers, Recover(w) PROVE TypeOK'
  BY <1>11 DEF Recover, TypeOK
<1>12. CASE UNCHANGED vars
  BY <1>12 DEF vars, TypeOK
<1> QED
  BY <1>1, <1>2, <1>3, <1>4, <1>5, <1>6, <1>7, <1>8, <1>9, <1>10, <1>11, <1>12
  DEF Next, Poll, Execute

\* The claim columns and the workers' state keep their types, whatever
\* happens to workers and leases.
THEOREM TypeCorrect == Spec => []TypeOK
BY TypeInit, TypeStep, PTL DEF Spec

-----------------------------------------------------------------------------
(* The lease.  KeptLeaseOwns is not inductive: a Claim takes a row whose   *)
(* lease has expired, so one must know that an expired lease of a row that *)
(* is still queued is recorded against the worker at work on it, and that  *)
(* a row enters the queue unclaimed.                                       *)

ExpiryRecorded ==
  \A r \in Runs : expired[r] /\ phase[r] = "queued" /\ owner[r] # NoWorker
                  /\ job[owner[r]] = r => owner[r] \in lapsed

FreshUnclaimed ==
  \A r \in Runs : phase[r] \in {"absent", "created"} => owner[r] = NoWorker

LeaseInv == TypeOK /\ KeptLeaseOwns /\ ExpiryRecorded /\ FreshUnclaimed

\* Nobody claims anything at first.
LEMMA LeaseInit == Init => LeaseInv
BY TypeInit, QueueAssumption
  DEF Init, LeaseInv, KeptLeaseOwns, ExpiryRecorded, FreshUnclaimed

\* release_run_claim changes a row only for the worker the row names.
LEMMA ReleaseIsOwn ==
  ASSUME TypeOK, NEW w \in Workers, job[w] # NoRun, ReleasedBy(w), NEW r \in Runs
  PROVE  \/ owner'[r] = owner[r] /\ expired'[r] = expired[r]
         \/ r = job[w] /\ owner[r] = w /\ owner'[r] = NoWorker
BY DEF TypeOK, ReleasedBy

\* When an execution ends, the other executions keep what they had.
LEMMA ReleaseKeepsLeases ==
  ASSUME LeaseInv, TypeOK', NEW w \in Workers, job[w] # NoRun, ReleasedBy(w),
         job' = [job EXCEPT ![w] = NoRun], lapsed' = lapsed \ {w}, phase' = phase
  PROVE  LeaseInv'
<1> USE QueueAssumption
<1>1. ASSUME NEW v \in Workers, job'[v] # NoRun, v \notin lapsed'
      PROVE  owner'[job'[v]] = v
  <2>1. v # w /\ job'[v] = job[v] /\ v \notin lapsed /\ job[v] \in Runs
    BY <1>1 DEF LeaseInv, TypeOK
  <2>2. owner[job[v]] = v
    BY <1>1, <2>1 DEF LeaseInv, KeptLeaseOwns
  <2> QED BY <2>1, <2>2, ReleaseIsOwn DEF LeaseInv
<1>2. ASSUME NEW r \in Runs, expired'[r], phase'[r] = "queued",
             owner'[r] # NoWorker, job'[owner'[r]] = r
      PROVE  owner'[r] \in lapsed'
  <2>1. owner'[r] = owner[r] /\ expired'[r] = expired[r]
    BY <1>2, ReleaseIsOwn DEF LeaseInv
  <2>2. owner[r] \in Workers /\ owner[r] # w /\ job[owner[r]] = r
    BY <1>2, <2>1 DEF LeaseInv, TypeOK
  <2> QED BY <1>2, <2>1, <2>2 DEF LeaseInv, ExpiryRecorded
<1>3. FreshUnclaimed'
  BY ReleaseIsOwn DEF LeaseInv, FreshUnclaimed
<1> QED BY <1>1, <1>2, <1>3 DEF LeaseInv, KeptLeaseOwns, ExpiryRecorded

\* A claim takes a row that nobody whose lease is alive holds.
LEMMA ClaimKeepsLeases ==
  ASSUME LeaseInv, TypeOK', NEW w \in Workers, NEW r \in Runs, Claim(w, r)
  PROVE  LeaseInv'
<1> USE QueueAssumption
<1>0. Claimable(r) /\ job[w] = NoRun
  BY DEF Claim, FirstClaimable
<1>1. ASSUME NEW v \in Workers, job'[v] # NoRun, v \notin lapsed'
      PROVE  owner'[job'[v]] = v
  <2>1. CASE v = w
    BY <2>1 DEF Claim, LeaseInv, TypeOK
  <2>2. CASE v # w
    <3>1. job'[v] = job[v] /\ v \notin lapsed /\ owner[job[v]] = v
      BY <1>1, <2>2 DEF Claim, LeaseInv, TypeOK, KeptLeaseOwns
    <3>2. job[v] # r
      \* otherwise v owns an unexpired lease, and the row is not claimable
      BY <1>0, <1>1, <3>1 DEF Claimable, LeaseInv, ExpiryRecorded, TypeOK
    <3> QED BY <3>1, <3>2, <1>1 DEF Claim, LeaseInv, TypeOK
  <2> QED BY <2>1, <2>2
<1>2. ASSUME NEW q \in Runs, expired'[q], phase'[q] = "queued",
             owner'[q] # NoWorker, job'[owner'[q]] = q
      PROVE  owner'[q] \in lapsed'
  <2>1. q # r /\ expired[q] /\ owner'[q] = owner[q] /\ phase[q] = "queued"
    BY <1>2 DEF Claim, LeaseInv, TypeOK
  <2>2. owner[q] # w /\ job[owner[q]] = q
    BY <1>2, <2>1 DEF Claim, LeaseInv, TypeOK
  <2>3. owner[q] \in lapsed
    BY <1>2, <2>1, <2>2 DEF LeaseInv, ExpiryRecorded
  <2> QED BY <2>1, <2>2, <2>3 DEF Claim
<1>3. FreshUnclaimed'
  BY <1>0 DEF Claim, Claimable, LeaseInv, TypeOK, FreshUnclaimed
<1> QED BY <1>1, <1>2, <1>3 DEF LeaseInv, KeptLeaseOwns, ExpiryRecorded

\* Every step keeps the leases: one case per action.
LEMMA LeaseStep == LeaseInv /\ [Next]_vars => LeaseInv'
<1> SUFFICES ASSUME LeaseInv, [Next]_vars PROVE LeaseInv'
  OBVIOUS
<1> USE QueueAssumption
<1>0. TypeOK /\ TypeOK'
  BY TypeStep DEF LeaseInv
<1>1. ASSUME NEW r \in Runs, Create(r) \/ Enqueue(r) PROVE LeaseInv'
  BY <1>0, <1>1
  DEF Create, Enqueue, LeaseInv, TypeOK, KeptLeaseOwns, ExpiryRecorded, FreshUnclaimed
<1>2. ASSUME NEW r \in Runs, Lapse(r) PROVE LeaseInv'
  BY <1>0, <1>2 DEF Lapse, LeaseInv, TypeOK, KeptLeaseOwns, ExpiryRecorded, FreshUnclaimed
<1>3. ASSUME NEW S \in SUBSET Runs, Withdraw(S) PROVE LeaseInv'
  BY <1>0, <1>3
  DEF Withdraw, LeaseInv, TypeOK, KeptLeaseOwns, ExpiryRecorded, FreshUnclaimed
<1>4. ASSUME NEW w \in Workers, NEW r \in Runs, Claim(w, r) PROVE LeaseInv'
  BY <1>0, <1>4, ClaimKeepsLeases
<1>5. ASSUME NEW w \in Workers, Heartbeat(w) PROVE LeaseInv'
  BY <1>0, <1>5
  DEF Heartbeat, LeaseInv, TypeOK, KeptLeaseOwns, ExpiryRecorded, FreshUnclaimed
<1>6. ASSUME NEW w \in Workers, Start(w) PROVE LeaseInv'
  BY <1>0, <1>6 DEF Start, LeaseInv, TypeOK, KeptLeaseOwns, ExpiryRecorded, FreshUnclaimed
<1>7. ASSUME NEW w \in Workers, Finish(w) \/ Raise(w) PROVE LeaseInv'
  BY <1>0, <1>7, ReleaseKeepsLeases DEF Finish, Raise
<1>8. ASSUME NEW w \in Workers, Crash(w) PROVE LeaseInv'
  BY <1>0, <1>8 DEF Crash, LeaseInv, TypeOK, KeptLeaseOwns, ExpiryRecorded, FreshUnclaimed
<1>9. ASSUME NEW w \in Workers, Recover(w) PROVE LeaseInv'
  BY <1>0, <1>9
  DEF Recover, LeaseInv, TypeOK, KeptLeaseOwns, ExpiryRecorded, FreshUnclaimed
<1>10. CASE UNCHANGED vars
  BY <1>0, <1>10 DEF vars, LeaseInv, TypeOK, KeptLeaseOwns, ExpiryRecorded, FreshUnclaimed
<1> QED
  BY <1>1, <1>2, <1>3, <1>4, <1>5, <1>6, <1>7, <1>8, <1>9, <1>10
  DEF Next, Poll, Execute

\* A worker whose lease never expired is the one the row names, in every
\* interleaving of claims, heartbeats, releases and crashes.
THEOREM LeaseSafety == Spec => []KeptLeaseOwns
<1>1. LeaseInv => KeptLeaseOwns
  BY DEF LeaseInv
<1> QED BY <1>1, LeaseInit, LeaseStep, PTL DEF Spec

\* Hence two workers execute one run only if a lease expired under one of
\* them: the claim of a live, renewing worker is exclusive.
THEOREM ExecutionIsExclusive == Spec => []ExclusiveExecution
<1>1. LeaseInv => ExclusiveExecution
  BY DEF LeaseInv, KeptLeaseOwns, ExclusiveExecution
<1> QED BY <1>1, LeaseInit, LeaseStep, PTL DEF Spec

-----------------------------------------------------------------------------
(* Claims are not leaked: ClaimsHeld is inductive with the types.          *)

ClaimsInv == TypeOK /\ ClaimsHeld

\* Nobody holds a claim at first.
LEMMA ClaimsInit == Init => ClaimsInv
BY TypeInit DEF Init, ClaimsInv, ClaimsHeld

\* Every step keeps the account of claims and executions.
LEMMA ClaimsStep == ClaimsInv /\ [Next]_vars => ClaimsInv'
<1> SUFFICES ASSUME ClaimsInv, [Next]_vars PROVE ClaimsInv'
  OBVIOUS
<1> USE QueueAssumption
<1>0. TypeOK /\ TypeOK'
  BY TypeStep DEF ClaimsInv
<1>1. ASSUME NEW r \in Runs, Create(r) \/ Enqueue(r) \/ Lapse(r) PROVE ClaimsInv'
  BY <1>0, <1>1 DEF Create, Enqueue, Lapse, ClaimsInv, ClaimsHeld
<1>2. ASSUME NEW S \in SUBSET Runs, Withdraw(S) PROVE ClaimsInv'
  BY <1>0, <1>2 DEF Withdraw, ClaimsInv, ClaimsHeld
<1>3. ASSUME NEW w \in Workers, NEW r \in Runs, Claim(w, r) PROVE ClaimsInv'
  BY <1>0, <1>3 DEF Claim, ClaimsInv, TypeOK, ClaimsHeld
<1>4. ASSUME NEW w \in Workers, Heartbeat(w) \/ Start(w) \/ Recover(w) PROVE ClaimsInv'
  BY <1>0, <1>4 DEF Heartbeat, Start, Recover, ClaimsInv, ClaimsHeld
<1>5. ASSUME NEW w \in Workers, Finish(w) \/ Raise(w) PROVE ClaimsInv'
  <2>1. /\ job[w] # NoRun /\ ReleasedBy(w)
        /\ job' = [job EXCEPT ![w] = NoRun] /\ crashed' = crashed
    BY <1>5 DEF Finish, Raise
  <2>2. ASSUME NEW r \in Runs, owner'[r] # NoWorker
        PROVE  job'[owner'[r]] = r \/ owner'[r] \in crashed'
    <3>1. owner'[r] = owner[r]
      BY <1>0, <2>1, <2>2, ReleaseIsOwn
    <3>2. job[owner[r]] = r \/ owner[r] \in crashed
      BY <2>2, <3>1 DEF ClaimsInv, ClaimsHeld
    <3>3. CASE job[owner[r]] = r /\ owner[r] = w
      \* then the release has just cleared this very row
      BY <1>0, <2>1, <2>2, <3>1, <3>3 DEF ReleasedBy, TypeOK
    <3>4. CASE job[owner[r]] = r /\ owner[r] # w
      BY <1>0, <2>1, <3>1, <3>4 DEF TypeOK
    <3> QED BY <2>1, <3>1, <3>2, <3>3, <3>4
  <2> QED BY <1>0, <2>2 DEF ClaimsInv, ClaimsHeld
<1>6. ASSUME NEW w \in Workers, Crash(w) PROVE ClaimsInv'
  BY <1>0, <1>6 DEF Crash, ClaimsInv, TypeOK, ClaimsHeld
<1>7. CASE UNCHANGED vars
  BY <1>0, <1>7 DEF vars, ClaimsInv, ClaimsHeld
<1> QED
  BY <1>1, <1>2, <1>3, <1>4, <1>5, <1>6, <1>7 DEF Next, Poll, Execute

\* A row names a worker that is executing it or that died doing so: every
\* execution that ends, normally or by an exception, gives its claim back.
THEOREM ClaimsAreReturned == Spec => []ClaimsHeld
<1>1. ClaimsInv => ClaimsHeld
  BY DEF ClaimsInv
<1> QED BY <1>1, ClaimsInit, ClaimsStep, PTL DEF Spec
=============================================================================
