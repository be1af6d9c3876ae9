--------------------------- MODULE GpuLeasesProofs ---------------------------
(***************************************************************************)
(* Lemmas about the methods of the GPU lease manager, for any tasks, any   *)
(* GPUs and any requests.  The proofs about its two users, GpuQueue and    *)
(* TaskWorkers, rest on them.                                              *)
(***************************************************************************)
EXTENDS GpuLeases, TLAPS

\* The lease manager's methods keep its types.
LEMMA LeasesTyped ==
  ASSUME LeaseTypeOK, NEW t \in Tasks, NEW S \in SUBSET Tasks,
         \/ RegisterWaiting(t) \/ Acquire(t) \/ Release(t, S) \/ NotifyWaiters(S)
         \/ UNCHANGED leaseVars
  PROVE  LeaseTypeOK'
  BY GpuLeasesAssumption DEF LeaseTypeOK, RegisterWaiting, Acquire, Release, NotifyWaiters,
     Unqueue, leaseVars

\* What release leaves behind: nobody else's lease moves.
LEMMA ReleaseFrees ==
  ASSUME NEW t \in Tasks, NEW S, LeaseTypeOK, Release(t, S)
  PROVE  \A g \in Gpus, u \in Tasks : held'[g] = u <=> held[g] = u /\ u # t
  BY GpuLeasesAssumption DEF Release, LeaseTypeOK

\* A request that is blocked stays blocked while no GPU becomes free and no
\* older ticket goes away.
LEMMA StillBlocked ==
  ASSUME NEW u \in Tasks, ~ CanAcquire(u), held' = held, Ahead(u) \subseteq Ahead(u)'
  PROVE  ~ CanAcquire(u)'
  BY DEF CanAcquire, GpusFree, NobodyAhead, Conflict

\* A new ticket is nobody's older ticket.
LEMMA RegisterKeepsBlocked ==
  ASSUME LeaseTypeOK, NEW t \in Tasks, NEW u \in Tasks, u # t, RegisterWaiting(t), ~ CanAcquire(u)
  PROVE  ~ CanAcquire(u)'
<1>1. held' = held /\ Ahead(u) \subseteq Ahead(u)'
  BY DEF RegisterWaiting, Ahead
<1> QED
  BY <1>1, StillBlocked

\* A lease that was granted blocks whoever was blocked before it: the tickets
\* it takes off the queue come back as leases.
LEMMA AcquireKeepsBlocked ==
  ASSUME LeaseTypeOK, NEW t \in Tasks, NEW u \in Tasks, u # t, Acquire(t), ~ CanAcquire(u)
  PROVE  ~ CanAcquire(u)'
<1> USE GpuLeasesAssumption DEF LeaseTypeOK
<1>1. CASE ~ GpusFree(u)
  BY <1>1 DEF Acquire, CanAcquire, GpusFree
<1>2. CASE \E v \in Ahead(u) \ { u } : Conflict(u, v)
  <2> PICK v \in Ahead(u) \ { u } : Conflict(u, v)
    BY <1>2
  <2>1. CASE v = t
    <3>1. PICK g \in Gpus : g \in Request[u] /\ g \in Request[t]
      BY <2>1 DEF Conflict
    <3>2. held'[g] = t
      BY <3>1 DEF Acquire
    <3> QED
      BY <3>1, <3>2 DEF CanAcquire, GpusFree
  <2>2. CASE v # t
    <3>1. v \in Ahead(u)' \ { u }
      BY <2>2 DEF Acquire, Unqueue, Ahead
    <3> QED
      BY <3>1 DEF CanAcquire, NobodyAhead, Conflict
  <2> QED
    BY <2>1, <2>2
<1> QED
  BY <1>1, <1>2 DEF CanAcquire, NobodyAhead

\* A release wakes every other blocked worker, or changes nothing for it.
LEMMA ReleaseWakesOrKeeps ==
  ASSUME LeaseTypeOK, NEW t \in Tasks, NEW u \in Tasks, NEW S, u \in S,
         Release(t, S), u \notin woken', u \notin woken => ~ CanAcquire(u)
  PROVE  ~ CanAcquire(u)'
<1> USE GpuLeasesAssumption DEF LeaseTypeOK
<1>1. ~ Announces(t) /\ u \notin woken
  BY DEF Release
<1>2. held' = held /\ waiting' = waiting /\ earlier' = earlier
  BY <1>1 DEF Release, Unqueue, Announces
<1> QED
  BY <1>1, <1>2 DEF CanAcquire, GpusFree, NobodyAhead, Ahead, Conflict
=============================================================================
