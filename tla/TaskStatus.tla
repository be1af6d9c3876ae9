----------------------------- MODULE TaskStatus -----------------------------
(***************************************************************************)
(* The states of a background task and the moves TaskManager allows        *)
(* between them (backend/src/tasks.rs).  Every state-changing method of    *)
(* TaskManager reads the status, refuses it or picks the next one; those   *)
(* choices are the sets and functions below, so that the modules that keep *)
(* task state in different ways share one reading of them.  A task that    *)
(* was never created, or was deleted, is "absent".                         *)
(***************************************************************************)

Statuses == { "queued", "running", "pausing", "paused", "cancelling",
              "awaiting_confirmation", "completed", "failed", "cancelled" }

TerminalStatuses == { "completed", "failed", "cancelled" }

\* The worker has been asked to stop and has not said that it did.
StopRequested == { "pausing", "cancelling" }

\* A worker is expected to be executing the task, or to be stopping it.
Executing == { "running" } \cup StopRequested

Startable == { "queued" }

\* A faulty variant of Resumable, used to show that a property notices it:
\* resume takes back a cancel request.
Fault_Resumable == { "paused" } \cup StopRequested

Resumable == { "paused", "pausing" }
Failable  == { "queued", "running" }

Pausable == { "queued", "running" }
PauseTarget(s) == IF s = "queued" THEN "paused" ELSE "pausing"

Cancellable == { "running", "pausing", "queued", "paused", "awaiting_confirmation" }
CancelTarget(s) ==
  IF s \in { "running", "pausing" } THEN "cancelling" ELSE "cancelled"

\* What a worker's acknowledgement turns a stop request into.
AckTarget(s) == IF s = "pausing" THEN "paused" ELSE "cancelled"

\* What a restart makes of a status.  Downloads, training and re-indexing
\* can be resumed; any other interrupted task has failed for good.
RecoveredStatus(s, resumable) ==
  CASE s = "pausing"                 -> "paused"
    [] s = "cancelling"              -> "cancelled"
    [] s = "running" /\ resumable    -> "paused"
    [] s = "running" /\ ~resumable   -> "failed"
    [] OTHER                         -> s
=============================================================================
