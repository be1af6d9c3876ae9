---------------------------- MODULE TaskLifecycle ----------------------------
(***************************************************************************)
(* What the task system promises about the life of a task, without its     *)
(* store, its cache, its workers or its restarts: which status may follow  *)
(* which.  A completed or cancelled task only ever disappears; a cancel    *)
(* request that reached a running task ends in "cancelled" and nowhere     *)
(* else; results need a running task.  TaskManager and TaskWorkers         *)
(* implement this specification.                                           *)
(***************************************************************************)
EXTENDS TaskStatus

CONSTANT Tasks

VARIABLE status      \* status[t]: the status of t, or "absent"

Successors(s) ==
  CASE s = "absent"                -> { "queued" }
    [] s = "queued"                -> { "running", "paused", "cancelled", "failed" }
    [] s = "running"               -> { "pausing", "cancelling", "completed", "failed",
                                        "awaiting_confirmation", "paused" }
    [] s = "pausing"               -> { "paused", "queued", "cancelling" }
    [] s = "paused"                -> { "queued", "cancelled" }
    [] s = "cancelling"            -> { "cancelled" }
    [] s = "awaiting_confirmation" -> { "queued", "running", "cancelled" }
    [] s = "failed"                -> { "queued", "absent" }
    [] OTHER                       -> { "absent" }

Init == status = [t \in Tasks |-> "absent"]

\* A restart moves several tasks in one step, every other action moves one.
Next ==
  /\ status' \in [Tasks -> Statuses \cup { "absent" }]
  /\ \A t \in Tasks : status'[t] # status[t] => status'[t] \in Successors(status[t])

Spec == Init /\ [][Next]_status
=============================================================================
