----------------------------- MODULE RunContract -----------------------------
(***************************************************************************)
(* What the run subsystem promises about one column of the runs table:     *)
(* a run is born "created" and its status only ever moves along            *)
(* RUN_TRANSITIONS (specification section 25, tests/test_run_state.py).    *)
(* RunLifecycle, where several processes write that column, is compared    *)
(* with it.                                                                *)
(***************************************************************************)
EXTENDS RunStates

CONSTANT Runs

VARIABLE status   \* [Runs -> Status \cup {"absent"}]

TypeOK == status \in [Runs -> Status \cup {"absent"}]

Init == status = [r \in Runs |-> "absent"]

Create(r) ==
  /\ status[r] = "absent"
  /\ status' = [status EXCEPT ![r] = "created"]

\* A row changes to a state its present one allows.
Move(r) ==
  /\ status[r] # "absent"
  /\ \E s \in RunTransitions[status[r]] : status' = [status EXCEPT ![r] = s]

\* Startup reconciliation closes every unfinished run in one transaction.
Reconcile(S) ==
  /\ \A r \in S : status[r] \notin Terminal \cup {"absent"}
  /\ status' = [r \in Runs |-> IF r \in S THEN "lost" ELSE status[r]]

Next ==
  \/ \E r \in Runs : Create(r) \/ Move(r)
  \/ \E S \in SUBSET Runs : Reconcile(S)

Spec == Init /\ [][Next]_status

-----------------------------------------------------------------------------
\* A finished run keeps its outcome: no later write, by whichever process,
\* replaces a terminal status (test_run_transition_guard_rejects_terminal_
\* state_reversal).
TerminalIsFinal ==
  [][\A r \in Runs : status[r] \in Terminal => status'[r] = status[r]]_status
=============================================================================
