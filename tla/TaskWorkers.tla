----------------------------- MODULE TaskWorkers -----------------------------
(***************************************************************************)
(* Who executes the tasks: spawn_task_worker of backend/src/routes/api.rs  *)
(* with the handlers that create, control and delete tasks, the per-root   *)
(* scheduling lock, the GPU leases, the execution slots, and restarts.     *)
(* One TaskManager method, one lock section or one wait of a worker is one *)
(* action.  TaskManager (the module) has the records behind "status".      *)
(*                                                                         *)
(* A worker is a pair << task, seat >>: the code promises one worker per   *)
(* task, so the model must be able to represent two.  All tasks that need  *)
(* a media root need the same one, the case in which they meet.  The store *)
(* does not fail here, except where a handler writes the task's items.     *)
(*                                                                         *)
(* Names of the form Fault_X are faulty variants of X, used to show that a *)
(* property notices the fault; no specification uses them.                 *)
(***************************************************************************)
EXTENDS GpuLeases, TaskStatus, Naturals, Sequences, FiniteSets, SequencesExt

CONSTANTS
  Kind,         \* Kind[t]: what t does
  Concurrent,   \* the downloads that transfer several files at once
  Seats,        \* bound: at most this many workers of one task exist at once
  WorkerSlots,  \* tasks executed at once (4 in the code)
  ClassSlots,   \* ClassSlots[c]: tasks of resource class c executed at once
  MaxControls,  \* bound: users act at most this often on tasks they created
  MaxRestarts   \* bound: the process dies at most this often

Kinds == { "download", "tool", "vllm_tag", "dataset_augmentation", "training" }
Classes == { "network", "cpu", "gpu" }

ASSUME TaskWorkersAssumption ==
  /\ Kind \in [ Tasks -> Kinds ]
  /\ Concurrent \subseteq { t \in Tasks : Kind[t] = "download" }
  /\ \A t \in Tasks : Request[t] # {} => Kind[t] \notin { "download", "tool" }
  /\ WorkerSlots \in Nat \ { 0 }
  /\ ClassSlots \in [ Classes -> Nat \ { 0 } ]
  /\ MaxControls \in Nat
  /\ MaxRestarts \in Nat

VARIABLES
  status,     \* status[t]: the task's status, "absent" before creation and after deletion
  created,    \* history: the ids handed out
  retryable,  \* failed tasks whose error allows a retry
  preview,    \* tool tasks that hold a manifest to confirm
  confirmed,  \* history: tasks a user confirmed
  storing,    \* tasks whose handler still writes items, then spawns a worker
  spawning,   \* tasks whose handler is about to spawn a worker
  active,     \* AppState.active_workers
  pc,         \* pc[w]: how far worker w has come
  rootQ,      \* the root's scheduling lock: owner first, then waiters, in order
  stopSeen,   \* workers some part of whose body has seen that it has to stop
  orphaned,   \* history: tasks that fell into one of four holes since they last started
  controls,   \* history: how often users acted on a task
  restarts    \* history: how often the process died

taskVars == << status, created, retryable, preview, confirmed >>
handlerVars == << storing, spawning >>
workerVars == << active, pc, rootQ, stopSeen, orphaned >>
bounds == << controls, restarts >>
vars == << taskVars, handlerVars, workerVars, leaseVars, bounds >>

Workers == Tasks \X Seats

\* Before the task body, inside it, and after it.
Preparing == { "spawned", "fresh", "top", "rootwait", "rootlost", "rootfailed", "gpu", "gpuwait",
               "resource", "slot", "starting" }
Executes  == { "body", "applying" }
Settling  == { "completing", "failing", "recording", "acking", "releasing", "ending" }
Exiting   == { "leaving", "dropping" }
PCs == { "none" } \cup Preparing \cup Executes \cup Settling \cup Exiting

NeedsRoot(t) == Kind[t] # "training"

\* create_task stores items for these kinds; a retry requeues those of the first two.
StoresItems(t) == Kind[t] \in { "download", "vllm_tag", "dataset_augmentation" }
RequeuesItems(t) == Kind[t] \in { "download", "vllm_tag" }

Resumable_(t) == Kind[t] \in { "download", "training" }

\* task_resource_class
Class(t) == CASE Kind[t] = "download" -> "network"
              [] Kind[t] = "tool"     -> "cpu"
              [] OTHER                -> "gpu"

-----------------------------------------------------------------------------
Is(t, statuses) == status[t] \in statuses

Become(t, s) == status' = [ status EXCEPT ![t] = s ]

Goto(w, label) == pc' = [ pc EXCEPT ![w] = label ]

\* Tasks whose worker has a watch receiver on the GPU leases (a worker that
\* needs no GPU never looks at its own).
Subscribers(labels) ==
  { t \in Tasks : /\ Request[t] # {}
                  /\ \E i \in Seats : labels[t, i] \notin
                       { "none", "spawned", "fresh", "dropping" } }

\* Which free seat a new worker takes makes no difference.
TakeSeat(t) ==
  LET free == { i \in Seats : pc[t, i] = "none" } IN
  free # {} /\ Goto(<< t, CHOOSE i \in free : TRUE >>, "spawned")

RootOwner(w) == rootQ # << >> /\ Head(rootQ) = w

\* A worker has one place in the lock's queue, or none.
LeaveRoot(w) == rootQ' = RemoveFirst(rootQ, w)

HoldsClassSlot(w) == pc[w] \in { "slot", "starting" } \cup Executes
                                 \cup { "completing", "failing", "recording", "acking", "releasing" }
HoldsWorkerSlot(w) == HoldsClassSlot(w) /\ pc[w] # "slot"

-----------------------------------------------------------------------------
(* The handlers.                                                            *)

\* TaskManager.create
CreateTask(t) ==
  /\ t \notin created
  /\ Become(t, "queued")
  /\ created' = created \cup { t }
  /\ storing' = IF StoresItems(t) THEN storing \cup { t } ELSE storing
  /\ spawning' = IF StoresItems(t) THEN spawning ELSE spawning \cup { t }
  /\ UNCHANGED << retryable, preview, confirmed, workerVars, leaseVars, bounds >>

\* The rest of create_task, and of a retry: the items are written, or else the
\* task fails and no worker is spawned.
StoreItems(t) ==
  /\ t \in storing
  /\ storing' = storing \ { t }
  /\ spawning' = spawning \cup { t }
  /\ UNCHANGED << taskVars, workerVars, leaseVars, bounds >>

StoreItemsFails(t) ==
  /\ t \in storing
  /\ storing' = storing \ { t }
  /\ IF Is(t, Failable)
     THEN Become(t, "failed") /\ retryable' = retryable \cup { t }
     ELSE UNCHANGED << status, retryable >>
  /\ UNCHANGED << created, preview, confirmed, spawning, workerVars,
                  leaseVars, bounds >>

\* A user acts on a task.
Controlled ==
  /\ controls < MaxControls
  /\ controls' = controls + 1

\* Fault: the GPU waiters are not told.
Fault_PauseTask(t) ==
  /\ Controlled
  /\ Is(t, Pausable)
  /\ Become(t, PauseTarget(status[t]))
  /\ UNCHANGED << created, retryable, preview, confirmed, handlerVars,
                  workerVars, leaseVars, restarts >>

\* A pause or a cancellation is stored, then the GPU waiters are told; the
\* two are one action because a worker that still sleeps in between has
\* nothing to do.
PauseTask(t) ==
  /\ Controlled
  /\ Is(t, Pausable)
  /\ Become(t, PauseTarget(status[t]))
  /\ NotifyWaiters(Subscribers(pc))
  /\ UNCHANGED << created, retryable, preview, confirmed, handlerVars,
                  workerVars, restarts >>

CancelTask(t) ==
  /\ Controlled
  /\ Is(t, Cancellable)
  /\ Become(t, CancelTarget(status[t]))
  /\ NotifyWaiters(Subscribers(pc))
  /\ UNCHANGED << created, retryable, preview, confirmed, handlerVars,
                  workerVars, restarts >>

\* Bound: one handler at a time is between a task's status and its worker.
NoHandler(t) == t \notin storing \cup spawning

ResumeTask(t) ==
  /\ Controlled
  /\ NoHandler(t)
  /\ Is(t, Resumable)
  /\ Become(t, "queued")
  /\ spawning' = spawning \cup { t }
  /\ UNCHANGED << created, retryable, preview, confirmed, storing,
                  workerVars, leaseVars, restarts >>

RetryTask(t) ==
  /\ Controlled
  /\ NoHandler(t)
  /\ Is(t, { "failed" })
  /\ t \in retryable
  /\ Become(t, "queued")
  /\ retryable' = retryable \ { t }
  /\ storing' = IF RequeuesItems(t) THEN storing \cup { t } ELSE storing
  /\ spawning' = IF RequeuesItems(t) THEN spawning ELSE spawning \cup { t }
  /\ UNCHANGED << created, preview, confirmed, workerVars, leaseVars, restarts >>

\* confirm without a decision: the task is queued again and gets a worker.
ConfirmTask(t) ==
  /\ Controlled
  /\ NoHandler(t)
  /\ Is(t, { "awaiting_confirmation" })
  /\ Become(t, "queued")
  /\ confirmed' = confirmed \cup { t }
  /\ spawning' = spawning \cup { t }
  /\ UNCHANGED << created, retryable, preview, storing, workerVars,
                  leaseVars, restarts >>

\* confirm with a decision: the handler takes for granted that a worker lives
\* and waits, so the task runs on, with no worker if there is none.
DecideTask(t) ==
  /\ Controlled
  /\ Is(t, { "awaiting_confirmation" })
  /\ Become(t, "running")
  /\ confirmed' = confirmed \cup { t }
  /\ orphaned' = orphaned \cup { t }
  /\ UNCHANGED << created, retryable, preview, handlerVars, active, pc, rootQ,
                  stopSeen, leaseVars, restarts >>

\* task_delete
DeleteTask(t) ==
  /\ Controlled
  /\ Is(t, TerminalStatuses)
  /\ Become(t, "absent")
  /\ retryable' = retryable \ { t }
  /\ UNCHANGED << created, preview, confirmed, handlerVars, workerVars,
                  leaseVars, restarts >>

\* Fault: the set of active workers is not consulted.
Fault_SpawnWorker(t) ==
  /\ t \in spawning
  /\ spawning' = spawning \ { t }
  /\ TakeSeat(t)
  /\ active' = active \cup { t }
  /\ UNCHANGED << taskVars, storing, rootQ, stopSeen, orphaned, leaseVars, bounds >>

\* spawn_task_worker: nothing happens if the task has an active worker.
SpawnWorker(t) ==
  /\ t \in spawning
  /\ spawning' = spawning \ { t }
  /\ IF t \in active
     THEN UNCHANGED << active, pc >>
     ELSE /\ active' = active \cup { t }
          /\ TakeSeat(t)
  /\ UNCHANGED << taskVars, storing, rootQ, stopSeen, orphaned, leaseVars, bounds >>

-----------------------------------------------------------------------------
(* A worker, before the task body.                                          *)

\* The ticket is drawn before the worker runs.
DrawTicket(w) ==
  /\ pc[w] = "spawned"
  /\ IF Request[w[1]] # {}
     THEN RegisterWaiting(w[1]) /\ Goto(w, "fresh")
     ELSE UNCHANGED leaseVars /\ Goto(w, "top")
  /\ UNCHANGED << taskVars, handlerVars, active, rootQ, stopSeen, orphaned, bounds >>

\* The new receiver has seen every change up to now.
Subscribe(w) ==
  /\ pc[w] = "fresh"
  /\ Goto(w, "top")
  /\ woken' = woken \ { w[1] }
  /\ UNCHANGED << taskVars, handlerVars, active, rootQ, stopSeen, orphaned, held,
                  waiting, earlier, bounds >>

\* The first half of acquire_queued_task_root_schedule.
EnterRoot(w) ==
  /\ pc[w] = "top"
  /\ IF ~ NeedsRoot(w[1])
     THEN Goto(w, "gpu") /\ UNCHANGED rootQ
     ELSE IF Is(w[1], { "queued" })
          THEN Goto(w, "rootwait") /\ rootQ' = Append(rootQ, w)
          ELSE Goto(w, "leaving") /\ UNCHANGED rootQ
  /\ UNCHANGED << taskVars, handlerVars, active, stopSeen, orphaned, leaseVars, bounds >>

\* The root's directory cannot be resolved: the worker starts the task, fails it
\* and leaves, whatever becomes of either attempt.
RootLookupFails(w) ==
  /\ pc[w] = "top"
  /\ NeedsRoot(w[1])
  /\ Is(w[1], { "queued" })
  /\ Goto(w, "rootlost")
  /\ UNCHANGED << taskVars, handlerVars, active, rootQ, stopSeen, orphaned, leaseVars,
                  bounds >>

StartForRoot(w) ==
  LET t == w[1] IN
  /\ pc[w] = "rootlost"
  /\ IF Is(t, Startable) THEN Become(t, "running") ELSE UNCHANGED status
  /\ Goto(w, "rootfailed")
  /\ UNCHANGED << created, retryable, preview, confirmed, handlerVars, active,
                  rootQ, stopSeen, orphaned, leaseVars, bounds >>

\* A stop request that came in between is left for a worker that leaves.
FailForRoot(w) ==
  LET t == w[1] IN
  /\ pc[w] = "rootfailed"
  /\ IF Is(t, Failable)
     THEN Become(t, "failed") /\ retryable' = retryable \cup { t }
     ELSE UNCHANGED << status, retryable >>
  /\ orphaned' = IF Is(t, StopRequested) THEN orphaned \cup { t } ELSE orphaned
  /\ Goto(w, "leaving")
  /\ UNCHANGED << created, preview, confirmed, handlerVars, active,
                  rootQ, stopSeen, leaseVars, bounds >>

\* Fault: whoever asked for the root has it.
Fault_RootGranted(w) ==
  /\ pc[w] = "rootwait"
  /\ Goto(w, IF Request[w[1]] # {} THEN "gpu" ELSE "resource")
  /\ UNCHANGED << taskVars, handlerVars, active, rootQ, stopSeen, orphaned, leaseVars,
                  bounds >>

RootGranted(w) ==
  /\ pc[w] = "rootwait"
  /\ RootOwner(w)
  /\ Goto(w, IF Request[w[1]] # {} THEN "gpu" ELSE "resource")
  /\ UNCHANGED << taskVars, handlerVars, active, rootQ, stopSeen, orphaned, leaseVars,
                  bounds >>

\* The poll during the wait finds the task no longer queued.
RootWaitStops(w) ==
  /\ pc[w] = "rootwait"
  /\ ~ Is(w[1], { "queued" })
  /\ LeaveRoot(w)
  /\ Goto(w, "leaving")
  /\ UNCHANGED << taskVars, handlerVars, active, stopSeen, orphaned, leaseVars, bounds >>

TryGpus(w) ==
  LET t == w[1] IN
  /\ pc[w] = "gpu"
  /\ Is(t, { "queued" })
  /\ \/ Acquire(t) /\ Goto(w, "resource")
     \/ ~ CanAcquire(t) /\ Goto(w, "gpuwait") /\ UNCHANGED leaseVars
  /\ UNCHANGED << taskVars, handlerVars, active, rootQ, stopSeen, orphaned, bounds >>

\* A task that needs GPUs is found not queued before it asks for them.
GpuCheckStops(w) ==
  /\ pc[w] = "gpu"
  /\ ~ Is(w[1], { "queued" })
  /\ Goto(w, "leaving")
  /\ UNCHANGED << taskVars, handlerVars, active, rootQ, stopSeen, orphaned, leaseVars,
                  bounds >>

\* changed() returns; the round ends, and with it the hold on the root.
GpuWake(w) ==
  /\ pc[w] = "gpuwait"
  /\ w[1] \in woken
  /\ woken' = woken \ { w[1] }
  /\ LeaveRoot(w)
  /\ Goto(w, "top")
  /\ UNCHANGED << taskVars, handlerVars, active, stopSeen, orphaned, held, waiting,
                  earlier, bounds >>

\* The two early exits: the leases go back, the task is no longer active, and
\* the worker is gone once the root is free.  A resume that came after the
\* check found the task active and spawned nothing.
Leave(w) ==
  LET t == w[1] IN
  /\ pc[w] = "leaving"
  /\ active' = active \ { t }
  /\ orphaned' = IF Is(t, { "queued" }) THEN orphaned \cup { t } ELSE orphaned
  /\ Goto(w, "dropping")
  /\ Release(t, Subscribers([ pc EXCEPT ![w] = "dropping" ]))
  /\ UNCHANGED << taskVars, handlerVars, rootQ, stopSeen, bounds >>

Drop(w) ==
  /\ pc[w] = "dropping"
  /\ LeaveRoot(w)
  /\ Goto(w, "none")
  /\ UNCHANGED << taskVars, handlerVars, active, stopSeen, orphaned, leaseVars, bounds >>

TakeClassSlot(w) ==
  LET class == Class(w[1]) IN
  /\ pc[w] = "resource"
  /\ Cardinality({ v \in Workers : HoldsClassSlot(v) /\ Class(v[1]) = class })
       < ClassSlots[class]
  /\ Goto(w, "slot")
  /\ UNCHANGED << taskVars, handlerVars, active, rootQ, stopSeen, orphaned, leaseVars,
                  bounds >>

TakeWorkerSlot(w) ==
  /\ pc[w] = "slot"
  /\ Cardinality({ v \in Workers : HoldsWorkerSlot(v) }) < WorkerSlots
  /\ Goto(w, "starting")
  /\ UNCHANGED << taskVars, handlerVars, active, rootQ, stopSeen, orphaned, leaseVars,
                  bounds >>

-----------------------------------------------------------------------------
(* The task body.                                                           *)

StartBody(w) ==
  LET t == w[1] IN
  /\ pc[w] = "starting"
  /\ stopSeen' = stopSeen \ { w }
  /\ IF Is(t, Startable)
     THEN Become(t, "running") /\ Goto(w, "body") /\ orphaned' = orphaned \ { t }
     ELSE Goto(w, "failing") /\ UNCHANGED << status, orphaned >>
  /\ UNCHANGED << created, retryable, preview, confirmed, handlerVars, active,
                  rootQ, leaseVars, bounds >>

\* A training worker looks for stop requests only, and knows no other status;
\* a tool looks before it applies its manifest and not while it makes one; every
\* other body stops as soon as the task does not run.
SeesStop(t) == CASE Kind[t] = "training" -> Is(t, StopRequested)
                 [] Kind[t] = "tool"     -> t \in preview /\ ~ Is(t, { "running" })
                 [] OTHER                -> ~ Is(t, { "running" })

\* These bodies go on reporting after a part of them has seen the stop: the
\* training process takes its time to save, other downloads still arrive.
ReportsAfterStop(t) == Kind[t] = "training" \/ t \in Concurrent

NoticeStop(w) ==
  /\ pc[w] = "body"
  /\ w \notin stopSeen
  /\ SeesStop(w[1])
  /\ stopSeen' = stopSeen \cup { w }
  /\ UNCHANGED << taskVars, handlerVars, active, pc, rootQ, orphaned, leaseVars, bounds >>

\* report_task_progress starts a task it finds queued: one that was paused and
\* resumed before the worker noticed runs on.
ReportRestarts(w) ==
  LET t == w[1] IN
  /\ pc[w] = "body"
  /\ Kind[t] # "tool"
  /\ w \notin stopSeen \/ ReportsAfterStop(t)
  /\ Is(t, Startable)
  /\ Become(t, "running")
  /\ UNCHANGED << created, retryable, preview, confirmed, handlerVars,
                  workerVars, leaseVars, bounds >>

\* WorkerOutcome::Stopped
BodyStops(w) ==
  /\ pc[w] = "body"
  /\ w \in stopSeen
  /\ Goto(w, "acking")
  /\ UNCHANGED << taskVars, handlerVars, active, rootQ, stopSeen, orphaned, leaseVars,
                  bounds >>

\* The body ends with a result or an error; a download can still fail when one
\* of its transfers has stopped, and a tool with a manifest has to apply it.
BodyEnds(w) ==
  LET t == w[1] IN
  /\ \/ pc[w] = "applying" /\ (Goto(w, "completing") \/ Goto(w, "failing"))
     \/ /\ pc[w] = "body"
        /\ \/ w \notin stopSeen /\ t \notin preview /\ Goto(w, "completing")
           \/ (w \notin stopSeen \/ t \in Concurrent) /\ Goto(w, "failing")
  /\ UNCHANGED << taskVars, handlerVars, active, rootQ, stopSeen, orphaned, leaseVars,
                  bounds >>

\* Fault: a tool applies its manifest in the run that made it.
Fault_PlanTool(w) ==
  LET t == w[1] IN
  /\ pc[w] = "body"
  /\ Kind[t] = "tool"
  /\ preview' = preview \cup { t }
  /\ UNCHANGED << status, created, retryable, confirmed, handlerVars, workerVars,
                  leaseVars, bounds >>

\* A tool without a manifest makes one and awaits the user's confirmation.
PlanTool(w) ==
  LET t == w[1] IN
  /\ pc[w] = "body"
  /\ Kind[t] = "tool"
  /\ t \notin preview
  /\ w \notin stopSeen
  /\ IF Is(t, { "running" })
     THEN /\ Become(t, "awaiting_confirmation")
          /\ preview' = preview \cup { t }
          /\ Goto(w, "acking")
     ELSE UNCHANGED << status, preview >> /\ Goto(w, "failing")
  /\ UNCHANGED << created, retryable, confirmed, handlerVars, active, rootQ,
                  stopSeen, orphaned, leaseVars, bounds >>

\* A tool with a manifest moves the files, unless it sees that it has to stop.
ApplyTool(w) ==
  LET t == w[1] IN
  /\ pc[w] = "body"
  /\ Kind[t] = "tool"
  /\ t \in preview
  /\ w \notin stopSeen
  /\ Is(t, { "running" })
  /\ Goto(w, "applying")
  /\ UNCHANGED << status, created, retryable, preview, confirmed, handlerVars, active,
                  rootQ, stopSeen, orphaned, leaseVars, bounds >>

-----------------------------------------------------------------------------
(* A worker, after the task body.                                           *)

\* Fault: a result is stored although a stop was requested before.
Fault_SettleComplete(w) ==
  LET t == w[1] IN
  /\ pc[w] = "completing"
  /\ Become(t, "completed")
  /\ Goto(w, "acking")
  /\ UNCHANGED << created, retryable, preview, confirmed, handlerVars, active,
                  rootQ, stopSeen, orphaned, leaseVars, bounds >>

\* complete takes effect on a running task only; otherwise the stop request that
\* came first decides.
SettleComplete(w) ==
  LET t == w[1] IN
  /\ pc[w] = "completing"
  /\ IF Is(t, { "running" }) THEN Become(t, "completed") ELSE UNCHANGED status
  /\ Goto(w, "acking")
  /\ UNCHANGED << created, retryable, preview, confirmed, handlerVars, active,
                  rootQ, stopSeen, orphaned, leaseVars, bounds >>

\* A failure is recorded if the task still runs: after a look at the task ...
SettleFail(w) ==
  /\ pc[w] = "failing"
  /\ Goto(w, IF Is(w[1], { "running" }) THEN "recording" ELSE "acking")
  /\ UNCHANGED << taskVars, handlerVars, active, rootQ, stopSeen, orphaned, leaseVars,
                  bounds >>

\* ... in a call of its own.  A pause taken back in between leaves the task queued,
\* and it fails none the less.
RecordFailure(w) ==
  LET t == w[1] IN
  /\ pc[w] = "recording"
  /\ IF Is(t, Failable)
     THEN Become(t, "failed") /\ retryable' \in { retryable, retryable \cup { t } }
     ELSE UNCHANGED << status, retryable >>
  /\ Goto(w, "acking")
  /\ UNCHANGED << created, preview, confirmed, handlerVars, active,
                  rootQ, stopSeen, orphaned, leaseVars, bounds >>

\* Fault: only a pause is acknowledged.
Fault_Acknowledge(w) ==
  LET t == w[1] IN
  /\ pc[w] = "acking"
  /\ IF Is(t, { "pausing" }) THEN Become(t, "paused") ELSE UNCHANGED status
  /\ Goto(w, "releasing")
  /\ UNCHANGED << created, retryable, preview, confirmed, handlerVars, active,
                  rootQ, stopSeen, orphaned, leaseVars, bounds >>

Acknowledge(w) ==
  LET t == w[1] IN
  /\ pc[w] = "acking"
  /\ IF Is(t, StopRequested) THEN Become(t, AckTarget(status[t])) ELSE UNCHANGED status
  /\ Goto(w, "releasing")
  /\ UNCHANGED << created, retryable, preview, confirmed, handlerVars, active,
                  rootQ, stopSeen, orphaned, leaseVars, bounds >>

\* Fault: the root is kept when the worker ends.
Fault_ReleaseAll(w) ==
  /\ pc[w] = "releasing"
  /\ Goto(w, "ending")
  /\ IF Request[w[1]] # {}
     THEN Release(w[1], Subscribers(pc))
     ELSE UNCHANGED leaseVars
  /\ UNCHANGED << taskVars, handlerVars, active, rootQ, stopSeen, orphaned, bounds >>

\* Part files of a finished download are removed first; then the slots, the
\* root and the GPUs are free again.
ReleaseAll(w) ==
  /\ pc[w] = "releasing"
  /\ LeaveRoot(w)
  /\ Goto(w, "ending")
  /\ IF Request[w[1]] # {}
     THEN Release(w[1], Subscribers(pc))
     ELSE UNCHANGED leaseVars
  /\ UNCHANGED << taskVars, handlerVars, active, stopSeen, orphaned, bounds >>

\* Fault: the task is not looked at again.
Fault_EndWorker(w) ==
  LET t == w[1] IN
  /\ pc[w] = "ending"
  /\ active' = active \ { t }
  /\ Goto(w, "none")
  /\ stopSeen' = stopSeen \ { w }
  /\ orphaned' = IF Is(t, Executing) /\ w \in stopSeen
                 THEN orphaned \cup { t } ELSE orphaned
  /\ UNCHANGED << taskVars, handlerVars, rootQ, leaseVars, bounds >>

\* Under the lock of the active set: out of it, and in again if the task has
\* been queued meanwhile.  A body that stopped although a late report had
\* restarted the task leaves it executing, with no worker.
EndWorker(w) ==
  LET t == w[1] IN
  /\ pc[w] = "ending"
  /\ IF Is(t, { "queued" })
     THEN Goto(w, "top") /\ UNCHANGED << active, orphaned >>
     ELSE /\ active' = active \ { t }
          /\ Goto(w, "none")
          /\ orphaned' = IF Is(t, Executing) /\ w \in stopSeen
                         THEN orphaned \cup { t } ELSE orphaned
  /\ stopSeen' = stopSeen \ { w }
  /\ UNCHANGED << taskVars, handlerVars, rootQ, leaseVars, bounds >>

-----------------------------------------------------------------------------
\* The process dies with all its handlers and workers; the next one settles
\* what was executing and spawns a worker for every queued task.
Restart ==
  /\ restarts < MaxRestarts
  /\ restarts' = restarts + 1
  /\ status' = [ t \in Tasks |-> RecoveredStatus(status[t], Resumable_(t)) ]
  /\ retryable' = { t \in retryable : status[t] \notin Executing }
  /\ storing' = {}
  /\ spawning' = { t \in Tasks : status[t] = "queued" }
  /\ active' = {}
  /\ pc' = [ w \in Workers |-> "none" ]
  /\ rootQ' = << >>
  /\ stopSeen' = {}
  /\ orphaned' = {}
  /\ held' = [ g \in Gpus |-> NoTask ]
  /\ waiting' = {}
  /\ earlier' = {}
  /\ woken' = {}
  /\ UNCHANGED << created, preview, confirmed, controls >>

Init ==
  /\ status = [ t \in Tasks |-> "absent" ]
  /\ created = {}
  /\ retryable = {}
  /\ preview = {}
  /\ confirmed = {}
  /\ storing = {}
  /\ spawning = {}
  /\ active = {}
  /\ pc = [ w \in Workers |-> "none" ]
  /\ rootQ = << >>
  /\ stopSeen = {}
  /\ orphaned = {}
  /\ controls = 0
  /\ restarts = 0
  /\ LeaseInit

Controls(t) == \/ CreateTask(t) \/ PauseTask(t) \/ CancelTask(t) \/ ResumeTask(t)
               \/ RetryTask(t) \/ ConfirmTask(t) \/ DecideTask(t) \/ DeleteTask(t)
Handles(t) == StoreItems(t) \/ StoreItemsFails(t) \/ SpawnWorker(t)
Prepares(w) == \/ DrawTicket(w) \/ Subscribe(w) \/ EnterRoot(w) \/ RootLookupFails(w)
               \/ StartForRoot(w) \/ FailForRoot(w) \/ RootGranted(w) \/ RootWaitStops(w) \/ TryGpus(w)
               \/ GpuCheckStops(w) \/ GpuWake(w) \/ Leave(w) \/ Drop(w) \/ StartBody(w)
TakesSlot(w) == TakeClassSlot(w) \/ TakeWorkerSlot(w)
Results(w) == BodyEnds(w) \/ PlanTool(w) \/ ApplyTool(w)
Settles(w) == \/ SettleComplete(w) \/ SettleFail(w) \/ RecordFailure(w)
              \/ Acknowledge(w) \/ ReleaseAll(w) \/ EndWorker(w)

Next ==
  \/ \E t \in Tasks : Controls(t) \/ Handles(t)
  \/ \E w \in Workers : \/ Prepares(w) \/ TakesSlot(w) \/ Results(w) \/ Settles(w)
                        \/ NoticeStop(w) \/ BodyStops(w) \/ ReportRestarts(w)
  \/ Restart

\* Handlers and workers are tokio tasks, which run whenever they can; slots are
\* granted in the order of the requests, so none waits for ever beside one that
\* becomes free again and again.  A body looks for a stop request now and then,
\* and ends.  Users need not do anything, and no process has to die.
Fairness ==
  /\ \A t \in Tasks : WF_vars(Handles(t))
  /\ \A w \in Workers :
       /\ WF_vars(Prepares(w) \/ Settles(w) \/ BodyStops(w))
       /\ SF_vars(TakesSlot(w))
       /\ WF_vars(NoticeStop(w))
       /\ WF_vars(Results(w))

Spec == Init /\ [][Next]_vars /\ Fairness

-----------------------------------------------------------------------------
(* Properties.                                                              *)

TypeOK ==
  /\ status \in [ Tasks -> Statuses \cup { "absent" } ]
  /\ created \subseteq Tasks
  /\ retryable \subseteq Tasks
  /\ preview \subseteq Tasks
  /\ confirmed \subseteq Tasks
  /\ storing \subseteq Tasks
  /\ spawning \subseteq Tasks
  /\ active \subseteq Tasks
  /\ pc \in [ Workers -> PCs ]
  /\ rootQ \in Seq({ w \in Workers : pc[w] # "none" })
  /\ stopSeen \subseteq Workers
  /\ orphaned \subseteq Tasks
  /\ controls \in 0..MaxControls
  /\ restarts \in 0..MaxRestarts
  /\ LeaseTypeOK

InBody(w) == pc[w] \in Executes

\* Whatever is paused, resumed, retried or restarted while workers come and go,
\* no two workers execute the same task, or two tasks of the same media root,
\* or two tasks that share a GPU.
BodiesExclusive ==
  \A v, w \in Workers : InBody(v) /\ InBody(w) /\ v # w =>
    /\ v[1] # w[1]
    /\ ~ (NeedsRoot(v[1]) /\ NeedsRoot(w[1]))
    /\ ~ Conflict(v[1], w[1])

\* The active set is right: a task is in it exactly while it has a worker that
\* has not left, and never has two of them.
ActiveHasOneWorker ==
  \A t \in Tasks :
    Cardinality({ i \in Seats : pc[t, i] \notin { "none", "dropping" } })
      = IF t \in active THEN 1 ELSE 0

\* Every task that waits for execution, executes or is asked to stop has a
\* worker, or a handler that will spawn one; the exceptions are the four holes
\* that add to "orphaned", and there are no others.
LiveTaskHasWorker ==
  \A t \in Tasks : Is(t, { "queued" } \cup Executing) =>
    t \in active \cup storing \cup spawning \cup orphaned

\* The lease table agrees with the workers: a worker holds all its GPUs from
\* try_acquire to the end of its body, and a GPU without such a worker is free.
LeasesMatchWorkers ==
  \A g \in Gpus, t \in Tasks :
    held[g] = t <=>
      /\ g \in Request[t]
      /\ \E i \in Seats :
           pc[t, i] \in { "resource", "slot", "starting" } \cup Executes
                          \cup { "completing", "failing", "recording", "acking", "releasing" }

\* A worker that sleeps until the leases change, with no change to see, could
\* not have its GPUs, and its task has not been paused or cancelled.  What it
\* may sleep through, because nobody tells the waiters, is that the item rows of
\* a retry could not be written, and the deletion of the failed task.
SleeperIsBlocked ==
  \A t \in Tasks, i \in Seats : pc[t, i] = "gpuwait" /\ t \notin woken =>
    ~ CanAcquire(t) /\ Is(t, { "queued", "failed", "absent" })

\* No tool moves a file before a user has confirmed its manifest, in whatever
\* order it was paused, resumed, retried or restarted before.
AppliedWereConfirmed ==
  \A w \in Workers : pc[w] = "applying" => w[1] \in confirmed

\* What the workers make of the statuses is what TaskLifecycle promises.
Lifecycle == INSTANCE TaskLifecycle
LifecycleSpec == Lifecycle!Spec

\* A stop request is acknowledged, or taken back, if the task has a worker.
StopAcknowledged ==
  \A t \in Tasks : Is(t, StopRequested) /\ t \notin orphaned
                     ~> ~ Is(t, StopRequested) \/ t \in orphaned

\* A queued task is executed in the end, or taken out of the queue by its user,
\* if the task has a worker.
QueuedIsServed ==
  \A t \in Tasks : Is(t, { "queued" }) ~> ~ Is(t, { "queued" }) \/ t \in orphaned

\* What the test immediately_resumed_download_is_not_left_queued_without_a_worker
\* says of a resumed task.
QueuedHasWorker ==
  \A t \in Tasks : Is(t, { "queued" }) => t \in active \cup storing \cup spawning

\* The same test: "resumed task must retain or acquire a worker".
RunningHasWorker ==
  \A t \in Tasks : Is(t, { "running" }) => t \in active

\* What the comment on register_waiting says: whoever has a ticket cannot be
\* starved by later requests.
OlderRequestServed == \A t \in Tasks : t \in waiting ~> t \notin waiting
=============================================================================
