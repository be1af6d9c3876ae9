--------------------------- MODULE GpuQueueProofs ---------------------------
(***************************************************************************)
(* Proofs about the GPU lease manager and its workers, for any tasks, any  *)
(* GPUs and any requests: the leases the manager charges are exactly the   *)
(* ones its workers use, no two workers ever share a GPU, and no worker    *)
(* sleeps through the change that would let it go on.                      *)
(***************************************************************************)
EXTENDS GpuQueue, GpuLeasesProofs

\* The variables have the types the code gives them, whatever the workers do.
THEOREM TypeCorrect == Spec => []TypeOK
<1>1. Init => TypeOK
  BY GpuLeasesAssumption DEF Init, TypeOK, LeaseInit, LeaseTypeOK
<1>2. TypeOK /\ [Next]_vars => TypeOK'
  <2> SUFFICES ASSUME TypeOK, [Next]_vars PROVE TypeOK'
    OBVIOUS
  <2> USE GpuLeasesAssumption DEF TypeOK, LeaseTypeOK, Subscribers
  <2>1. ASSUME NEW t \in Tasks, Spawn(t) PROVE TypeOK'
    BY <2>1 DEF Spawn, RegisterWaiting
  <2>2. ASSUME NEW t \in Tasks, Stop(t) PROVE TypeOK'
    BY <2>2 DEF Stop, NotifyWaiters
  <2>3. ASSUME NEW t \in Tasks, GiveUp(t) PROVE TypeOK'
    BY <2>3 DEF GiveUp, Release, Unqueue
  <2>4. ASSUME NEW t \in Tasks, TryAcquire(t) PROVE TypeOK'
    BY <2>4 DEF TryAcquire, Acquire, Unqueue, leaseVars
  <2>5. ASSUME NEW t \in Tasks, Wake(t) PROVE TypeOK'
    BY <2>5 DEF Wake
  <2>6. ASSUME NEW t \in Tasks, Finish(t) PROVE TypeOK'
    BY <2>6 DEF Finish, Release, Unqueue
  <2>7. ASSUME NEW t \in Tasks, FinishAndRestart(t) PROVE TypeOK'
    BY <2>7 DEF FinishAndRestart, Release, Unqueue
  <2>8. CASE UNCHANGED vars
    BY <2>8 DEF vars
  <2> QED
    BY <2>1, <2>2, <2>3, <2>4, <2>5, <2>6, <2>7, <2>8 DEF Next
<1> QED
  BY <1>1, <1>2, PTL DEF Spec

-----------------------------------------------------------------------------
\* The manager's books and the workers' beliefs never differ.
THEOREM LeasesAgree == Spec => []LeasesMatchWorkers
<1>1. Init => LeasesMatchWorkers
  BY GpuLeasesAssumption DEF Init, LeaseInit, LeasesMatchWorkers
<1>2. TypeOK /\ LeasesMatchWorkers /\ [Next]_vars => LeasesMatchWorkers'
  <2> SUFFICES ASSUME TypeOK, LeasesMatchWorkers, [Next]_vars
               PROVE  LeasesMatchWorkers'
    OBVIOUS
  <2> USE GpuLeasesAssumption DEF TypeOK, LeaseTypeOK, LeasesMatchWorkers
  <2>1. ASSUME NEW t \in Tasks, Spawn(t) PROVE LeasesMatchWorkers'
    BY <2>1 DEF Spawn, RegisterWaiting
  <2>2. ASSUME NEW t \in Tasks, Stop(t) PROVE LeasesMatchWorkers'
    BY <2>2 DEF Stop, NotifyWaiters
  <2>3. ASSUME NEW t \in Tasks, GiveUp(t) PROVE LeasesMatchWorkers'
    BY <2>3, ReleaseFrees DEF GiveUp
  <2>4. ASSUME NEW t \in Tasks, TryAcquire(t) PROVE LeasesMatchWorkers'
    BY <2>4 DEF TryAcquire, Acquire, CanAcquire, GpusFree, leaseVars
  <2>5. ASSUME NEW t \in Tasks, Wake(t) PROVE LeasesMatchWorkers'
    BY <2>5 DEF Wake
  <2>6. ASSUME NEW t \in Tasks, Finish(t) PROVE LeasesMatchWorkers'
    BY <2>6, ReleaseFrees DEF Finish
  <2>7. ASSUME NEW t \in Tasks, FinishAndRestart(t) PROVE LeasesMatchWorkers'
    BY <2>7, ReleaseFrees DEF FinishAndRestart
  <2>8. CASE UNCHANGED vars
    BY <2>8 DEF vars
  <2> QED
    BY <2>1, <2>2, <2>3, <2>4, <2>5, <2>6, <2>7, <2>8 DEF Next
<1> QED
  BY <1>1, <1>2, TypeCorrect, PTL DEF Spec

-----------------------------------------------------------------------------
\* The leases implement exclusive use: a worker that gets past try_acquire
\* shares none of its GPUs with another worker that did.
THEOREM LeasesAreExclusive == Spec => MutexSpec
<1> DEFINE using == { t \in Tasks : pc[t] = "holding" }
<1>1. Init => Mutex!Init
  BY DEF Init, Mutex!Init
<1>2. TypeOK /\ LeasesMatchWorkers /\ [Next]_vars => [Mutex!Next]_using
  <2> SUFFICES ASSUME TypeOK, LeasesMatchWorkers, [Next]_vars
               PROVE  [Mutex!Next]_using
    OBVIOUS
  <2> USE DEF TypeOK
  <2>1. ASSUME NEW t \in Tasks,
               Spawn(t) \/ Stop(t) \/ GiveUp(t) \/ Wake(t)
        PROVE  UNCHANGED using
    BY <2>1 DEF Spawn, Stop, GiveUp, Wake
  <2>2. ASSUME NEW t \in Tasks, TryAcquire(t) PROVE Mutex!Next \/ UNCHANGED using
    <3>1. CASE Acquire(t) /\ pc' = [ pc EXCEPT ![t] = "holding" ]
      <4>1. \A u \in using : Request[t] \cap Request[u] = {}
        <5> SUFFICES ASSUME NEW u \in using, NEW g \in Request[t], g \in Request[u]
                     PROVE  FALSE
          OBVIOUS
        <5>1. g \in Gpus /\ u \in Tasks /\ u # NoTask
          BY GpuLeasesAssumption
        <5>2. held[g] = u
          BY <5>1 DEF LeasesMatchWorkers
        <5>3. held[g] \in { t, NoTask }
          BY <3>1 DEF Acquire, CanAcquire, GpusFree
        <5>4. pc[t] # pc[u]
          BY <2>2 DEF TryAcquire
        <5> QED
          BY <5>1, <5>2, <5>3, <5>4
      <4>2. t \notin using /\ using' = using \cup { t }
        BY <2>2, <3>1 DEF TryAcquire
      <4> QED
        BY <4>1, <4>2 DEF Mutex!Next, Mutex!Enter
    <3>2. CASE pc' = [ pc EXCEPT ![t] = "blocked" ]
      BY <2>2, <3>2 DEF TryAcquire
    <3> QED
      BY <2>2, <3>1, <3>2 DEF TryAcquire
  <2>3. ASSUME NEW t \in Tasks, Finish(t) \/ FinishAndRestart(t) PROVE Mutex!Next
    <3>1. t \in using /\ using' = using \ { t }
      BY <2>3 DEF Finish, FinishAndRestart
    <3> QED
      BY <3>1 DEF Mutex!Next, Mutex!Leave
  <2>4. CASE UNCHANGED vars
    BY <2>4 DEF vars
  <2> QED
    BY <2>1, <2>2, <2>3, <2>4 DEF Next
<1> QED
  BY <1>1, <1>2, TypeCorrect, LeasesAgree, PTL DEF Spec, MutexSpec, Mutex!Spec

-----------------------------------------------------------------------------
\* No worker sleeps on the watch channel through the change it waits for.
THEOREM WakeupsArrive == Spec => []NoLostWakeup
<1>1. Init => NoLostWakeup
  BY DEF Init, NoLostWakeup
<1>2. TypeOK /\ NoLostWakeup /\ [Next]_vars => NoLostWakeup'
  <2> SUFFICES ASSUME TypeOK, NoLostWakeup, [Next]_vars,
                      NEW u \in Tasks, (pc[u] = "blocked")', (u \notin woken)'
               PROVE  ~ CanAcquire(u)'
    BY DEF NoLostWakeup
  <2> USE DEF TypeOK
  <2>1. ASSUME NEW t \in Tasks, Spawn(t) PROVE ~ CanAcquire(u)'
    <3>1. u # t /\ pc[u] = "blocked" /\ u \notin woken
      BY <2>1 DEF Spawn, RegisterWaiting
    <3> QED
      BY <2>1, <3>1, RegisterKeepsBlocked DEF Spawn, NoLostWakeup
  <2>2. ASSUME NEW t \in Tasks, Stop(t) PROVE ~ CanAcquire(u)'
    BY <2>2 DEF Stop, NotifyWaiters, Subscribers
  <2>3. ASSUME NEW t \in Tasks, GiveUp(t) \/ Finish(t) PROVE ~ CanAcquire(u)'
    <3>1. u # t /\ pc[u] = "blocked" /\ u \in Subscribers \ { t }
      BY <2>3 DEF GiveUp, Finish, Subscribers
    <3> QED
      BY <2>3, <3>1, ReleaseWakesOrKeeps DEF GiveUp, Finish, NoLostWakeup
  <2>4. ASSUME NEW t \in Tasks, FinishAndRestart(t) PROVE ~ CanAcquire(u)'
    <3>1. u # t /\ pc[u] = "blocked" /\ u \in Subscribers
      BY <2>4 DEF FinishAndRestart, Subscribers
    <3> QED
      BY <2>4, <3>1, ReleaseWakesOrKeeps DEF FinishAndRestart, NoLostWakeup
  <2>5. ASSUME NEW t \in Tasks, TryAcquire(t) PROVE ~ CanAcquire(u)'
    <3>1. CASE Acquire(t) /\ pc' = [ pc EXCEPT ![t] = "holding" ]
      <4>1. u # t /\ pc[u] = "blocked" /\ u \notin woken
        BY <3>1 DEF Acquire
      <4> QED
        BY <3>1, <4>1, AcquireKeepsBlocked DEF NoLostWakeup
    <3>2. CASE ~ CanAcquire(t) /\ pc' = [ pc EXCEPT ![t] = "blocked" ] /\ UNCHANGED leaseVars
      <4>1. ~ CanAcquire(u)
        BY <3>2 DEF NoLostWakeup, leaseVars
      <4> QED
        BY <3>2, <4>1 DEF leaseVars, CanAcquire, GpusFree, NobodyAhead, Ahead, Conflict
    <3> QED
      BY <2>5, <3>1, <3>2 DEF TryAcquire
  <2>6. ASSUME NEW t \in Tasks, Wake(t) PROVE ~ CanAcquire(u)'
    <3>1. pc[u] = "blocked" /\ u \notin woken
      BY <2>6 DEF Wake
    <3> QED
      BY <2>6, <3>1 DEF Wake, NoLostWakeup, CanAcquire, GpusFree, NobodyAhead, Ahead, Conflict
  <2>7. CASE UNCHANGED vars
    BY <2>7 DEF vars, NoLostWakeup, CanAcquire, GpusFree, NobodyAhead, Ahead, Conflict
  <2> QED
    BY <2>1, <2>2, <2>3, <2>4, <2>5, <2>6, <2>7 DEF Next
<1> QED
  BY <1>1, <1>2, TypeCorrect, PTL DEF Spec
=============================================================================
