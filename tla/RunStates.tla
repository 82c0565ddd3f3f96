------------------------------ MODULE RunStates ------------------------------
(***************************************************************************)
(* The run state table of sdpstudio_core/models.py.  RunRecord.status is   *)
(* one of Status; transition_run consults IsValidTransition and nothing    *)
(* else before it writes.                                                  *)
(***************************************************************************)

RunTransitions ==
  [ created              |-> {"queued", "failed", "cancelled", "lost"},
    queued               |-> {"preparing", "failed", "cancelled", "lost"},
    preparing            |-> {"validating", "failed", "cancelled", "lost"},
    validating           |-> {"submitting", "validation_failed", "failed",
                              "cancelled", "lost"},
    submitting           |-> {"running", "failed", "cancelled", "lost"},
    running              |-> {"collecting_artifacts", "failed", "cancelled", "lost"},
    collecting_artifacts |-> {"succeeded", "failed", "lost"},
    succeeded            |-> {},
    validation_failed    |-> {},
    failed               |-> {},
    cancelled            |-> {},
    lost                 |-> {} ]

Status == DOMAIN RunTransitions

\* The set every caller spells out (run_worker.py, local.py, storage.py, app.py).
Terminal == {"succeeded", "validation_failed", "failed", "cancelled", "lost"}

\* is_valid_run_transition: staying in the same state is always allowed.
IsValidTransition(current, target) ==
  \/ current = target
  \/ current \in Status /\ target \in RunTransitions[current]
=============================================================================
