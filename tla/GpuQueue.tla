------------------------------- MODULE GpuQueue -------------------------------
(***************************************************************************)
(* The GPU lease manager with the workers that use it, and nothing else:   *)
(* the part of spawn_task_worker (backend/src/routes/api.rs) between the   *)
(* ticket and the release, for tasks that do not touch a media root, such  *)
(* as training.  TaskWorkers has the same steps in their full context.     *)
(***************************************************************************)
EXTENDS GpuLeases

VARIABLES
  pc,         \* pc[t]: "idle", "trying", "blocked" or "holding"
  ticketed,   \* history: the tasks whose current request drew a ticket
  stopped     \* the tasks the user paused or cancelled while they waited

vars == << held, waiting, earlier, woken, pc, ticketed, stopped >>

\* The tasks with a live watch receiver.
Subscribers == { t \in Tasks : pc[t] # "idle" }

Init ==
  /\ LeaseInit
  /\ pc = [ t \in Tasks |-> "idle" ]
  /\ ticketed = {}
  /\ stopped = {}

\* A worker is spawned for a queued task: ticket first, then the receiver.
Spawn(t) ==
  /\ pc[t] = "idle"
  /\ RegisterWaiting(t)
  /\ pc' = [ pc EXCEPT ![t] = "trying" ]
  /\ ticketed' = ticketed \cup { t }
  /\ stopped' = stopped \ { t }

\* The user pauses or cancels a task that waits; the waiters are notified.
Stop(t) ==
  /\ pc[t] \in { "trying", "blocked" }
  /\ t \notin stopped
  /\ stopped' = stopped \cup { t }
  /\ NotifyWaiters(Subscribers)
  /\ UNCHANGED << pc, ticketed >>

\* The worker finds its task no longer queued: it gives up the request.
GiveUp(t) ==
  /\ pc[t] = "trying"
  /\ t \in stopped
  /\ Release(t, Subscribers \ { t })
  /\ pc' = [ pc EXCEPT ![t] = "idle" ]
  /\ ticketed' = ticketed \ { t }
  /\ UNCHANGED stopped

TryAcquire(t) ==
  /\ pc[t] = "trying"
  /\ t \notin stopped
  /\ \/ /\ Acquire(t)
        /\ pc' = [ pc EXCEPT ![t] = "holding" ]
     \/ /\ ~ CanAcquire(t)
        /\ pc' = [ pc EXCEPT ![t] = "blocked" ]
        /\ UNCHANGED leaseVars
  /\ UNCHANGED << ticketed, stopped >>

\* changed() returns once the receiver has an unseen generation.
Wake(t) ==
  /\ pc[t] = "blocked"
  /\ t \in woken
  /\ woken' = woken \ { t }
  /\ pc' = [ pc EXCEPT ![t] = "trying" ]
  /\ UNCHANGED << held, waiting, earlier, ticketed, stopped >>

\* The task body returned and the leases go back; the worker ends.
Finish(t) ==
  /\ pc[t] = "holding"
  /\ Release(t, Subscribers \ { t })
  /\ pc' = [ pc EXCEPT ![t] = "idle" ]
  /\ ticketed' = ticketed \ { t }
  /\ UNCHANGED stopped

\* The same, but the task was resumed while it stopped: the worker goes round
\* its loop again, and register_waiting stands before the loop.
FinishAndRestart(t) ==
  /\ pc[t] = "holding"
  /\ Release(t, Subscribers)
  /\ pc' = [ pc EXCEPT ![t] = "trying" ]
  /\ ticketed' = ticketed \ { t }
  /\ UNCHANGED stopped

Next ==
  \E t \in Tasks : \/ Spawn(t) \/ Stop(t) \/ GiveUp(t) \/ TryAcquire(t)
                   \/ Wake(t) \/ Finish(t) \/ FinishAndRestart(t)

\* A worker is a spawned tokio task, which runs whenever it can; a task body
\* returns in the end.  Users need not do anything.
Fairness ==
  \A t \in Tasks : /\ WF_vars(GiveUp(t) \/ TryAcquire(t))
                   /\ WF_vars(Wake(t))
                   /\ WF_vars(Finish(t) \/ FinishAndRestart(t))

Spec == Init /\ [][Next]_vars /\ Fairness

-----------------------------------------------------------------------------
(* Properties.                                                              *)

TypeOK ==
  /\ LeaseTypeOK
  /\ pc \in [ Tasks -> { "idle", "trying", "blocked", "holding" } ]
  /\ ticketed \subseteq Tasks
  /\ stopped \subseteq Tasks

\* The manager and the workers agree: a worker past try_acquire has every GPU
\* it asked for, and no GPU is charged to a worker that has none.
LeasesMatchWorkers ==
  \A t \in Tasks, g \in Gpus :
    held[g] = t <=> pc[t] = "holding" /\ g \in Request[t]

\* No lost wake-up: a worker asleep on the watch channel with nothing to wake
\* it could not get its GPUs if it tried.
NoLostWakeup ==
  \A t \in Tasks : pc[t] = "blocked" /\ t \notin woken => ~ CanAcquire(t)

\* The leases implement exclusive use of all requested GPUs at once.
Mutex == INSTANCE ExclusiveUse WITH using <- { t \in Tasks : pc[t] = "holding" }
MutexSpec == Mutex!Spec

\* A request that drew a ticket is served, or given up by its user, however
\* many later requests for the same GPUs come and go.
TicketServed ==
  \A t \in Tasks : t \in ticketed /\ pc[t] \in { "trying", "blocked" }
                     ~> pc[t] \in { "holding", "idle" }

\* What the comment on register_waiting says of every older request, also of
\* one whose task was resumed while it stopped.
OlderRequestServed ==
  \A t \in Tasks : pc[t] \in { "trying", "blocked" } ~> pc[t] \in { "holding", "idle" }
=============================================================================
