------------------------------ MODULE GpuLeases ------------------------------
(***************************************************************************)
(* GpuLeaseManager of backend/src/training.rs: who holds which GPU and who *)
(* waits for which, both behind one lock, and a watch channel whose        *)
(* generation moves when a lease or a wait goes away.  One method is one   *)
(* action.  The GPUs a task needs are fixed when its worker is spawned     *)
(* (task_gpu_lease_request in routes/api.rs), so Request is a constant.    *)
(*                                                                         *)
(* A waiting task has a ticket, and tickets are only ever compared, so the *)
(* module keeps the order they induce ("earlier") and not the numbers.     *)
(***************************************************************************)
CONSTANTS
  Tasks,      \* the tasks that may ask for GPUs
  Gpus,       \* the physical GPUs
  Request,    \* Request[t]: the GPUs task t asks for, all at once
  NoTask      \* the holder of a free GPU

ASSUME GpuLeasesAssumption ==
  /\ Request \in [ Tasks -> SUBSET Gpus ]
  /\ NoTask \notin Tasks

VARIABLES
  held,       \* held[g]: the task that holds GPU g, or NoTask
  waiting,    \* the tasks with a ticket
  earlier,    \* << u, t >> is in it when u's ticket is older than t's
  woken       \* the tasks whose watch receiver has a change it has not seen

leaseVars == << held, waiting, earlier, woken >>

LeaseTypeOK ==
  /\ held \in [ Gpus -> Tasks \cup { NoTask } ]
  /\ waiting \subseteq Tasks
  /\ earlier \subseteq waiting \X waiting
  /\ woken \subseteq Tasks

LeaseInit ==
  /\ held = [ g \in Gpus |-> NoTask ]
  /\ waiting = {}
  /\ earlier = {}
  /\ woken = {}

Conflict(t, u) == Request[t] \cap Request[u] # {}

\* Whoever has a ticket older than t's; a task without one draws the newest.
Ahead(t) == IF t \in waiting THEN { u \in waiting : << u, t >> \in earlier } ELSE waiting

\* Fault: one free GPU of the requested ones is enough.
Fault_GpusFree(t) ==
  Request[t] # {} => \E g \in Request[t] : held[g] \in { t, NoTask }

GpusFree(t) == \A g \in Request[t] : held[g] \in { t, NoTask }

\* Fault: tickets do not matter.
Fault_NobodyAhead(t) == TRUE

NobodyAhead(t) == \A u \in Ahead(t) \ { t } : ~ Conflict(t, u)

CanAcquire(t) == GpusFree(t) /\ NobodyAhead(t)

\* t no longer waits.
Unqueue(t) ==
  /\ waiting' = waiting \ { t }
  /\ earlier' = { p \in earlier : p[1] # t /\ p[2] # t }

\* register_waiting: a ticket is drawn once.
RegisterWaiting(t) ==
  /\ waiting' = waiting \cup { t }
  /\ earlier' = IF t \in waiting THEN earlier ELSE earlier \cup (waiting \X { t })
  /\ UNCHANGED << held, woken >>

\* try_acquire when it returns TRUE.  When it returns FALSE it leaves no trace:
\* the ticket of an unregistered caller is drawn and dropped under the lock.
Acquire(t) ==
  /\ CanAcquire(t)
  /\ held' = [ g \in Gpus |-> IF g \in Request[t] THEN t ELSE held[g] ]
  /\ Unqueue(t)
  /\ UNCHANGED woken

\* Fault: only a returned GPU is announced, not a returned ticket.
Fault_Announces(t) == \E g \in Gpus : held[g] = t

\* Does release(t) change anything?  Only then is the generation moved.
Announces(t) == t \in waiting \/ \E g \in Gpus : held[g] = t

\* release: every live receiver ("subscribers") sees the new generation; what
\* a receiver that is gone had not seen does not matter any more.
Release(t, subscribers) ==
  /\ held' = [ g \in Gpus |-> IF held[g] = t THEN NoTask ELSE held[g] ]
  /\ Unqueue(t)
  /\ woken' = IF Announces(t) THEN subscribers ELSE woken \cap subscribers

\* notify_waiters: a paused or cancelled task may be among the waiting ones.
NotifyWaiters(subscribers) ==
  /\ woken' = subscribers
  /\ UNCHANGED << held, waiting, earlier >>
=============================================================================
