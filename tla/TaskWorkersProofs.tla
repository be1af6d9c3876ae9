-------------------------- MODULE TaskWorkersProofs --------------------------
(***************************************************************************)
(* Proofs about the task workers, for any tasks, any GPUs and requests,    *)
(* any number of seats and slots, and any number of user actions and       *)
(* restarts: a task has at most one worker, which is in the active set;    *)
(* two bodies never share a media root or a GPU; no live task is forgotten *)
(* outside the four named holes; no worker sleeps on the leases for        *)
(* nothing; no manifest is applied unconfirmed; and the statuses follow    *)
(* the life cycle.                                                         *)
(***************************************************************************)
EXTENDS TaskWorkers, GpuLeasesProofs, FiniteSetTheorems, SequenceTheorems

\* A worker that has not left: its task is active because of it.
Lives(w) == pc[w] \notin { "none", "dropping" }

\* Past try_acquire, and not past the release.
UsesGpus(w) == pc[w] \in { "resource", "slot", "starting" } \cup Executes
                           \cup { "completing", "failing", "recording", "acking", "releasing" }

\* Has the root, if its task needs one.
PastRoot(w) == UsesGpus(w) \/ pc[w] \in { "gpu", "gpuwait" }

\* The worker that answers for an executing task: it runs it, or it will settle
\* what it was asked, or it has seen a stop that a late report took back.
AnswersFor(w) ==
  \/ pc[w] \in { "rootfailed", "completing", "failing", "recording" } \cup Executes
  \/ pc[w] = "acking" /\ Is(w[1], StopRequested)
  \/ pc[w] \in { "acking", "releasing", "ending" } /\ w \in stopSeen

-----------------------------------------------------------------------------
(* The inductive invariant.                                                 *)

\* No two workers of one task live, and the active set names the tasks of
\* those that do.
OneWorker ==
  /\ \A v, w \in Workers : Lives(v) /\ Lives(w) /\ v[1] = w[1] => v = w
  /\ \A t \in Tasks : t \in active <=> \E i \in Seats : Lives(<< t, i >>)

\* Nobody queues for the root twice, or after it has given it back.
RootQueue ==
  /\ \A i, j \in DOMAIN rootQ : rootQ[i] = rootQ[j] => i = j
  /\ \A i \in DOMAIN rootQ :
       PastRoot(rootQ[i]) \/ pc[rootQ[i]] \in { "rootwait", "leaving", "dropping" }

\* Whoever goes on to a task of the root is the owner of its lock.
RootIsOwned ==
  \A w \in Workers : PastRoot(w) /\ NeedsRoot(w[1]) => RootOwner(w)

\* A queued task is somebody's business.
QueuedIsKept ==
  \A t \in Tasks : Is(t, { "queued" }) => t \in active \cup storing \cup spawning \cup orphaned

\* So is an executing one, and its worker is not past the point of no return.
ExecutingIsKept ==
  \A t \in Tasks : Is(t, Executing) =>
    t \in orphaned \/ \E i \in Seats : AnswersFor(<< t, i >>)


-----------------------------------------------------------------------------
(* Lemmas.                                                                  *)

\* A worker is a task and a seat.
LEMMA WorkerParts ==
  /\ \A w \in Workers : w[1] \in Tasks /\ w[2] \in Seats /\ w = << w[1], w[2] >>
  /\ \A t \in Tasks, i \in Seats : << t, i >> \in Workers /\ << t, i >>[1] = t
  BY DEF Workers

\* What is left of a sequence without its i-th element.
LEMMA RemoveAtProperties ==
  ASSUME NEW S, NEW s \in Seq(S), NEW i \in 1..Len(s)
  PROVE  /\ RemoveAt(s, i) \in Seq(S)
         /\ Len(RemoveAt(s, i)) = Len(s) - 1
         /\ \A j \in 1..Len(s) - 1 : RemoveAt(s, i)[j] = IF j < i THEN s[j] ELSE s[j + 1]
<1> DEFINE a == SubSeq(s, 1, i - 1)
           b == SubSeq(s, i + 1, Len(s))
<1>1. Len(s) \in Nat /\ \A j \in 1..Len(s) : s[j] \in S
  BY LenProperties, ElementOfSeq
<1>2. /\ a \in Seq(S) /\ Len(a) = i - 1
      /\ \A j \in 1..i - 1 : a[j] = s[j]
  <2>1. \A j \in 1..i - 1 : s[j] \in S
    BY <1>1
  <2>2. i - 1 \in Int /\ 1 \in Int
    BY <1>1
  <2> QED
    BY <1>1, <2>1, <2>2, SubSeqProperties
<1>3. /\ b \in Seq(S) /\ Len(b) = Len(s) - i
      /\ \A j \in 1..Len(s) - i : b[j] = s[i + j]
  <2>1. \A j \in i + 1..Len(s) : s[j] \in S
    BY <1>1
  <2>2. i + 1 \in Int /\ Len(s) \in Int
    BY <1>1
  <2>3. /\ b \in Seq(S)
        /\ Len(b) = IF i + 1 <= Len(s) THEN Len(s) - (i + 1) + 1 ELSE 0
        /\ \A j \in 1..Len(s) - (i + 1) + 1 : b[j] = s[(i + 1) + j - 1]
    BY <2>1, <2>2, SubSeqProperties
  <2> QED
    BY <1>1, <2>3
<1>4. /\ a \o b \in Seq(S)
      /\ Len(a \o b) = Len(a) + Len(b)
      /\ \A j \in 1..Len(a) + Len(b) :
           (a \o b)[j] = IF j <= Len(a) THEN a[j] ELSE b[j - Len(a)]
  BY <1>2, <1>3, ConcatProperties
<1> HIDE DEF a, b
<1>5. /\ a \o b \in Seq(S)
      /\ Len(a \o b) = Len(s) - 1
      /\ \A j \in 1..Len(s) - 1 : (a \o b)[j] = IF j < i THEN s[j] ELSE s[j + 1]
  <2>1. Len(a) + Len(b) = Len(s) - 1
    BY <1>1, <1>2, <1>3
  <2>2. ASSUME NEW j \in 1..Len(s) - 1, j < i PROVE (a \o b)[j] = s[j]
    <3>1. j <= Len(a) /\ j \in 1..i - 1
      BY <1>1, <1>2, <2>2
    <3> QED
      BY <1>2, <1>4, <2>1, <3>1
  <2>3. ASSUME NEW j \in 1..Len(s) - 1, ~ (j < i) PROVE (a \o b)[j] = s[j + 1]
    <3>1. ~ (j <= Len(a)) /\ j - Len(a) \in 1..Len(s) - i /\ i + (j - Len(a)) = j + 1
      BY <1>1, <1>2, <2>3
    <3> QED
      BY <1>3, <1>4, <2>1, <3>1
  <2> QED
    BY <1>4, <2>1, <2>2, <2>3
<1> QED
  BY <1>5 DEF RemoveAt, a, b

\* Without repetitions, the first occurrence of an element is its only one.
LEMMA RemoveFirstOfUnique ==
  ASSUME NEW S, NEW s \in Seq(S), NEW e, \A i, j \in DOMAIN s : s[i] = s[j] => i = j
  PROVE  /\ \A k \in DOMAIN s : s[k] = e => RemoveFirst(s, e) = RemoveAt(s, k)
         /\ ~ (\E k \in DOMAIN s : s[k] = e) => RemoveFirst(s, e) = s
<1>1. Len(s) \in Nat /\ DOMAIN s = 1..Len(s)
  BY LenProperties
<1>2. ASSUME NEW k \in 1..Len(s), s[k] = e PROVE RemoveFirst(s, e) = RemoveAt(s, k)
  <2>1. { i \in 1..Len(s) : s[i] = e } = { k }
    BY <1>1, <1>2
  <2>2. Min({ k }) = k
    BY <1>1 DEF Min
  <2> QED
    BY <1>2, <2>1, <2>2 DEF RemoveFirst, SelectInSeq
<1>3. ~ (\E k \in 1..Len(s) : s[k] = e) => RemoveFirst(s, e) = s
  BY DEF RemoveFirst
<1> QED
  BY <1>1, <1>2, <1>3

\* Whoever leaves the root's queue is out of it, nobody else loses his place,
\* and an owner who stays is still the owner.
LEMMA LeaveRootKeeps ==
  ASSUME NEW w \in Workers, rootQ \in Seq(Workers), LeaveRoot(w),
         \A i, j \in DOMAIN rootQ : rootQ[i] = rootQ[j] => i = j
  PROVE  /\ rootQ' \in Seq(Workers)
         /\ \A i, j \in DOMAIN rootQ' : rootQ'[i] = rootQ'[j] => i = j
         /\ \A j \in DOMAIN rootQ' : rootQ'[j] # w /\ \E i \in DOMAIN rootQ : rootQ'[j] = rootQ[i]
         /\ \A v \in Workers : v # w /\ RootOwner(v) => RootOwner(v)'
<1>1. Len(rootQ) \in Nat /\ DOMAIN rootQ = 1..Len(rootQ)
  BY LenProperties
<1>2. CASE \E i \in DOMAIN rootQ : rootQ[i] = w
  <2>1. PICK k \in 1..Len(rootQ) : rootQ[k] = w /\ rootQ' = RemoveAt(rootQ, k)
    BY <1>1, <1>2, RemoveFirstOfUnique DEF LeaveRoot
  <2>2. /\ rootQ' \in Seq(Workers)
        /\ Len(rootQ') = Len(rootQ) - 1
        /\ \A j \in 1..Len(rootQ) - 1 : rootQ'[j] = IF j < k THEN rootQ[j] ELSE rootQ[j + 1]
    BY <2>1, RemoveAtProperties
  <2>3. DOMAIN rootQ' = 1..Len(rootQ) - 1
    BY <2>2, LenProperties
  <2>4. ASSUME NEW i \in DOMAIN rootQ', NEW j \in DOMAIN rootQ', rootQ'[i] = rootQ'[j]
        PROVE  i = j
    <3> DEFINE old(n) == IF n < k THEN n ELSE n + 1
    <3>1. i \in 1..Len(rootQ) - 1 /\ j \in 1..Len(rootQ) - 1
      BY <2>3
    <3>2. old(i) \in DOMAIN rootQ /\ old(j) \in DOMAIN rootQ
      BY <1>1, <3>1
    <3>3. rootQ'[i] = rootQ[old(i)] /\ rootQ'[j] = rootQ[old(j)]
      BY <2>2, <3>1
    <3>4. old(i) = old(j)
      BY <2>4, <3>2, <3>3
    <3> QED
      BY <1>1, <3>1, <3>4
  <2>5. \A j \in DOMAIN rootQ' : rootQ'[j] # w /\ \E i \in DOMAIN rootQ : rootQ'[j] = rootQ[i]
    <3> SUFFICES ASSUME NEW j \in 1..Len(rootQ) - 1
                 PROVE  \E i \in DOMAIN rootQ : rootQ'[j] = rootQ[i] /\ i # k
      BY <1>1, <2>1, <2>3
    <3>1. CASE j < k
      BY <1>1, <2>2, <3>1
    <3>2. CASE ~ (j < k)
      <4>1. rootQ'[j] = rootQ[j + 1] /\ j + 1 \in DOMAIN rootQ /\ j + 1 # k
        BY <1>1, <2>2, <3>2
      <4> QED
        BY <4>1
    <3> QED
      BY <3>1, <3>2
  <2>6. ASSUME NEW v \in Workers, v # w, RootOwner(v) PROVE RootOwner(v)'
    <3>1. rootQ # << >> /\ Head(rootQ) = v /\ Len(rootQ) >= 1 /\ Head(rootQ) = rootQ[1]
      BY <1>1, <2>1, <2>6 DEF RootOwner
    <3>2. k # 1
      BY <2>1, <2>6, <3>1
    <3>3. Len(rootQ') >= 1 /\ rootQ'[1] = rootQ[1]
      BY <1>1, <2>1, <2>2, <3>2
    <3> QED
      BY <2>2, <3>1, <3>3 DEF RootOwner
  <2> QED
    BY <2>2, <2>4, <2>5, <2>6
<1>3. CASE ~ \E i \in DOMAIN rootQ : rootQ[i] = w
  <2>1. rootQ' = rootQ
    BY <1>3, RemoveFirstOfUnique DEF LeaveRoot
  <2> QED
    BY <1>3, <2>1 DEF RootOwner
<1> QED
  BY <1>2, <1>3

\* Whoever queues for the root comes last.
LEMMA EnterRootKeeps ==
  ASSUME NEW w \in Workers, rootQ \in Seq(Workers), rootQ' = Append(rootQ, w)
  PROVE  /\ rootQ' \in Seq(Workers)
         /\ DOMAIN rootQ' = DOMAIN rootQ \cup { Len(rootQ) + 1 }
         /\ \A j \in DOMAIN rootQ : rootQ'[j] = rootQ[j] /\ j # Len(rootQ) + 1
         /\ rootQ'[Len(rootQ) + 1] = w
         /\ \A v \in Workers : RootOwner(v) => RootOwner(v)'
<1>1. Len(rootQ) \in Nat /\ DOMAIN rootQ = 1..Len(rootQ)
  BY LenProperties
<1>2. /\ rootQ' \in Seq(Workers)
      /\ Len(rootQ') = Len(rootQ) + 1
      /\ rootQ' # << >>
      /\ \A j \in 1..Len(rootQ) : rootQ'[j] = rootQ[j]
      /\ rootQ'[Len(rootQ) + 1] = w
  BY AppendProperties
<1>3. DOMAIN rootQ' = 1..Len(rootQ) + 1
  BY <1>2, LenProperties
<1>4. ASSUME NEW v \in Workers, RootOwner(v) PROVE RootOwner(v)'
  BY <1>2, <1>4, HeadTailAppend DEF RootOwner
<1> QED
  BY <1>1, <1>2, <1>3, <1>4

-----------------------------------------------------------------------------
(* Types.                                                                   *)

\* All of TypeOK but the root's queue, of which RootQueue says more.
Typed ==
  /\ status \in [ Tasks -> Statuses \cup { "absent" } ]
  /\ created \subseteq Tasks /\ retryable \subseteq Tasks
  /\ preview \subseteq Tasks /\ confirmed \subseteq Tasks
  /\ storing \subseteq Tasks /\ spawning \subseteq Tasks
  /\ active \subseteq Tasks /\ orphaned \subseteq Tasks
  /\ pc \in [ Workers -> PCs ]
  /\ stopSeen \subseteq Workers
  /\ controls \in 0..MaxControls /\ restarts \in 0..MaxRestarts
  /\ LeaseTypeOK

\* Every status a handler or a worker writes is one.
LEMMA TargetsAreStatuses ==
  /\ \A s \in Statuses \cup { "absent" } :
       /\ PauseTarget(s) \in Statuses
       /\ CancelTarget(s) \in Statuses
       /\ AckTarget(s) \in Statuses
       /\ \A r : RecoveredStatus(s, r) \in Statuses \cup { "absent" }
  /\ { "queued", "running", "awaiting_confirmation", "completed", "failed" } \subseteq Statuses
  BY DEF Statuses, PauseTarget, CancelTarget, AckTarget, RecoveredStatus

\* A status that is written and a place a worker goes to are of their types.
LEMMA WritesTyped ==
  ASSUME TypeOK
  PROVE  /\ \A t \in Tasks, s \in Statuses \cup { "absent" } :
              Become(t, s) => status' \in [ Tasks -> Statuses \cup { "absent" } ]
         /\ \A w \in Workers, label \in PCs : Goto(w, label) => pc' \in [ Workers -> PCs ]
  BY DEF TypeOK, Become, Goto

\* The handlers keep the types.
LEMMA ControlsTyped ==
  ASSUME TypeOK, NEW t \in Tasks, Controls(t)
  PROVE  Typed'
<1>a. Subscribers(pc) \in SUBSET Tasks
  BY DEF Subscribers
<1>b. controls < MaxControls /\ controls' = controls + 1 => controls' \in 0..MaxControls
  BY TaskWorkersAssumption DEF TypeOK
<1> USE TargetsAreStatuses, WritesTyped, <1>a, <1>b, LeasesTyped
    DEF TypeOK, Typed, taskVars, handlerVars, workerVars, bounds,
        Controlled
<1>1. CASE CreateTask(t)
  BY <1>1 DEF CreateTask
<1>2. CASE PauseTask(t)
  BY <1>2 DEF PauseTask
<1>3. CASE CancelTask(t)
  BY <1>3 DEF CancelTask
<1>4. CASE ResumeTask(t)
  BY <1>4 DEF ResumeTask
<1>5. CASE RetryTask(t)
  BY <1>5 DEF RetryTask
<1>6. CASE ConfirmTask(t)
  BY <1>6 DEF ConfirmTask
<1>7. CASE DecideTask(t)
  BY <1>7 DEF DecideTask
<1>8. CASE DeleteTask(t)
  BY <1>8 DEF DeleteTask
<1> QED
  BY <1>1, <1>2, <1>3, <1>4, <1>5, <1>6, <1>7, <1>8 DEF Controls

\* So do the spawning of a worker ...
LEMMA HandlesTyped ==
  ASSUME TypeOK, NEW t \in Tasks, Handles(t)
  PROVE  Typed'
<1> USE TargetsAreStatuses
    DEF TypeOK, Typed, taskVars, handlerVars, workerVars, bounds, leaseVars, LeaseTypeOK, Become
<1>1. CASE StoreItems(t)
  BY <1>1 DEF StoreItems
<1>2. CASE StoreItemsFails(t)
  BY <1>2 DEF StoreItemsFails
<1>3. CASE SpawnWorker(t)
  <2>1. pc' \in [ Workers -> PCs ]
    BY <1>3 DEF SpawnWorker, TakeSeat, Goto, PCs, Preparing
  <2> QED
    BY <1>3, <2>1 DEF SpawnWorker
<1> QED
  BY <1>1, <1>2, <1>3 DEF Handles

\* ... and the worker's way to the task body ...
LEMMA PreparesTyped ==
  ASSUME TypeOK, NEW w \in Workers, Prepares(w)
  PROVE  Typed'
<1>a. w[1] \in Tasks
  BY WorkerParts
<1>b. Subscribers(pc) \in SUBSET Tasks /\ Subscribers([ pc EXCEPT ![w] = "dropping" ]) \in SUBSET Tasks
  BY DEF Subscribers
<1>c. { "fresh", "top", "rootwait", "rootlost", "rootfailed", "gpu", "gpuwait", "resource", "slot",
        "starting", "body", "failing", "leaving", "dropping", "none" } \subseteq PCs
  BY DEF PCs, Preparing, Executes, Settling, Exiting
<1> USE TargetsAreStatuses, WritesTyped, <1>a, <1>b, <1>c, LeasesTyped
    DEF TypeOK, Typed, taskVars, handlerVars, workerVars, bounds
<1>1. CASE DrawTicket(w)
  BY <1>1 DEF DrawTicket
<1>2. CASE Subscribe(w)
  BY <1>2 DEF Subscribe, LeaseTypeOK
<1>3. CASE EnterRoot(w)
  BY <1>3 DEF EnterRoot
<1>4. CASE RootLookupFails(w)
  BY <1>4 DEF RootLookupFails
<1>5. CASE StartForRoot(w)
  BY <1>5 DEF StartForRoot
<1>6. CASE FailForRoot(w)
  BY <1>6 DEF FailForRoot
<1>7. CASE RootGranted(w)
  BY <1>7 DEF RootGranted
<1>8. CASE RootWaitStops(w)
  BY <1>8 DEF RootWaitStops
<1>9. CASE TryGpus(w)
  BY <1>9 DEF TryGpus
<1>10. CASE GpuCheckStops(w)
  BY <1>10 DEF GpuCheckStops
<1>11. CASE GpuWake(w)
  BY <1>11 DEF GpuWake, LeaseTypeOK
<1>12. CASE Leave(w)
  BY <1>12 DEF Leave
<1>13. CASE Drop(w)
  BY <1>13 DEF Drop
<1>14. CASE StartBody(w)
  BY <1>14 DEF StartBody
<1> QED
  BY <1>1, <1>2, <1>3, <1>4, <1>5, <1>6, <1>7, <1>8, <1>9, <1>10, <1>11, <1>12, <1>13, <1>14
  DEF Prepares

\* ... and through it, and out of it.
LEMMA BodiesTyped ==
  ASSUME TypeOK, NEW w \in Workers,
         TakesSlot(w) \/ Results(w) \/ Settles(w) \/ NoticeStop(w) \/ BodyStops(w) \/ ReportRestarts(w)
  PROVE  Typed'
<1>a. w[1] \in Tasks
  BY WorkerParts
<1>b. Subscribers(pc) \in SUBSET Tasks
  BY DEF Subscribers
<1>c. { "slot", "starting", "applying", "completing", "failing", "recording", "acking", "releasing",
        "ending", "top", "none" } \subseteq PCs
  BY DEF PCs, Preparing, Executes, Settling, Exiting
<1> USE TargetsAreStatuses, WritesTyped, <1>a, <1>b, <1>c, LeasesTyped
    DEF TypeOK, Typed, taskVars, handlerVars, workerVars, bounds
<1>1. CASE TakesSlot(w)
  BY <1>1 DEF TakesSlot, TakeClassSlot, TakeWorkerSlot
<1>2. CASE BodyEnds(w)
  BY <1>2 DEF BodyEnds
<1>3. CASE PlanTool(w)
  BY <1>3 DEF PlanTool
<1>4. CASE ApplyTool(w)
  BY <1>4 DEF ApplyTool
<1>5. CASE SettleComplete(w)
  BY <1>5 DEF SettleComplete
<1>6. CASE SettleFail(w) \/ RecordFailure(w)
  BY <1>6 DEF SettleFail, RecordFailure
<1>7. CASE Acknowledge(w)
  BY <1>7 DEF Acknowledge
<1>8. CASE ReleaseAll(w)
  BY <1>8 DEF ReleaseAll
<1>9. CASE EndWorker(w)
  BY <1>9 DEF EndWorker
<1>10. CASE NoticeStop(w)
  BY <1>10 DEF NoticeStop
<1>11. CASE BodyStops(w)
  BY <1>11 DEF BodyStops
<1>12. CASE ReportRestarts(w)
  BY <1>12 DEF ReportRestarts
<1> QED
  BY <1>1, <1>2, <1>3, <1>4, <1>5, <1>6, <1>7, <1>8, <1>9, <1>10, <1>11, <1>12 DEF Results, Settles

\* A restart keeps them, and the records of the tasks with them.
LEMMA RestartTyped ==
  ASSUME TypeOK, Restart
  PROVE  Typed'
<1>1. status' \in [ Tasks -> Statuses \cup { "absent" } ]
  BY TargetsAreStatuses DEF Restart, TypeOK
<1>2. pc' \in [ Workers -> PCs ] /\ restarts' \in 0..MaxRestarts
  BY TaskWorkersAssumption DEF Restart, TypeOK, PCs
<1>3. LeaseTypeOK'
  BY DEF Restart, LeaseTypeOK
<1> QED
  BY <1>1, <1>2, <1>3 DEF Restart, TypeOK, Typed

\* Every step keeps the types.
LEMMA TypesStay ==
  ASSUME TypeOK, [Next]_vars
  PROVE  Typed'
<1>1. CASE UNCHANGED vars
  BY <1>1 DEF vars, taskVars, handlerVars, workerVars, leaseVars, bounds, TypeOK, Typed, LeaseTypeOK
<1> QED
  BY <1>1, ControlsTyped, HandlesTyped, PreparesTyped, BodiesTyped, RestartTyped DEF Next

-----------------------------------------------------------------------------
(* Places: who lives, who has the root, who has GPUs.                       *)

\* May be in the root's queue.
InQueue(w) == PastRoot(w) \/ pc[w] \in { "rootwait", "leaving", "dropping" }

\* A step that gives and takes no place.
KeepsPlaces ==
  /\ active' = active /\ rootQ' = rootQ /\ held' = held
  /\ \A v \in Workers : /\ Lives(v)' <=> Lives(v)
                        /\ UsesGpus(v)' <=> UsesGpus(v)
                        /\ PastRoot(v)' => PastRoot(v)
                        /\ InQueue(v) => InQueue(v)'

\* A worker that moves moves alone.
LEMMA GotoMoves ==
  ASSUME TypeOK, NEW w \in Workers, NEW label, Goto(w, label)
  PROVE  pc'[w] = label /\ \A v \in Workers : v # w => pc'[v] = pc[v]
  BY DEF TypeOK, Goto

\* Most moves keep places: within the task body, or before the first place.
LEMMA MovesKeepPlaces ==
  ASSUME TypeOK, NEW w \in Workers, NEW label, Goto(w, label),
         UNCHANGED << active, rootQ, held >>,
         \/ /\ pc[w] \in { "spawned", "fresh", "top", "rootlost", "rootfailed" }
            /\ label \in { "fresh", "top", "rootlost", "rootfailed", "leaving" }
         \/ /\ pc[w] \in { "rootwait", "gpu" }
            /\ label = "leaving"
         \/ /\ UsesGpus(w)
            /\ label \in { "slot", "starting", "body", "applying", "completing", "failing",
                           "recording", "acking", "releasing" }
  PROVE  KeepsPlaces
<1>1. pc'[w] = label /\ \A v \in Workers : v # w => pc'[v] = pc[v]
  BY GotoMoves
<1>2. /\ Lives(w)' <=> Lives(w)
      /\ UsesGpus(w)' <=> UsesGpus(w)
      /\ PastRoot(w)' => PastRoot(w)
      /\ InQueue(w) => InQueue(w)'
  BY <1>1 DEF Lives, UsesGpus, PastRoot, InQueue, Executes
<1>3. ASSUME NEW v \in Workers, v # w
      PROVE  /\ Lives(v)' <=> Lives(v)
             /\ UsesGpus(v)' <=> UsesGpus(v)
             /\ PastRoot(v)' => PastRoot(v)
             /\ InQueue(v) => InQueue(v)'
  BY <1>1, <1>3 DEF Lives, UsesGpus, PastRoot, InQueue
<1> QED
  BY <1>2, <1>3 DEF KeepsPlaces

\* The handlers keep all places, but for the spawning of a worker.
LEMMA HandlersKeepPlaces ==
  ASSUME TypeOK, NEW t \in Tasks, Controls(t) \/ StoreItems(t) \/ StoreItemsFails(t)
  PROVE  KeepsPlaces
<1>1. UNCHANGED << pc, active, rootQ, held >>
  BY DEF Controls, CreateTask, PauseTask, CancelTask, ResumeTask, RetryTask, ConfirmTask, DecideTask,
         DeleteTask, StoreItems, StoreItemsFails, NotifyWaiters, workerVars, leaseVars
<1> QED
  BY <1>1 DEF KeepsPlaces, Lives, UsesGpus, PastRoot, InQueue

\* The workers' steps that keep all places.
QuietStep(w) ==
  \/ DrawTicket(w) \/ Subscribe(w) \/ RootLookupFails(w) \/ StartForRoot(w) \/ FailForRoot(w)
  \/ GpuCheckStops(w) \/ StartBody(w)
  \/ TakesSlot(w) \/ Results(w) \/ NoticeStop(w) \/ BodyStops(w) \/ ReportRestarts(w)
  \/ SettleComplete(w) \/ SettleFail(w) \/ RecordFailure(w) \/ Acknowledge(w)

\* Whatever a worker does in a quiet step, all keep their places.
LEMMA QuietStepsKeepPlaces ==
  ASSUME TypeOK, NEW w \in Workers, QuietStep(w)
  PROVE  KeepsPlaces
<1> USE MovesKeepPlaces DEF leaseVars
<1>1. CASE DrawTicket(w)
  BY <1>1 DEF DrawTicket, RegisterWaiting
<1>2. CASE Subscribe(w) \/ RootLookupFails(w) \/ StartForRoot(w) \/ FailForRoot(w) \/ GpuCheckStops(w)
  BY <1>2 DEF Subscribe, RootLookupFails, StartForRoot, FailForRoot, GpuCheckStops
<1>3. CASE StartBody(w)
  BY <1>3 DEF StartBody, UsesGpus
<1>4. CASE TakesSlot(w)
  BY <1>4 DEF TakesSlot, TakeClassSlot, TakeWorkerSlot, UsesGpus
<1>5. CASE Results(w)
  <2>1. CASE BodyEnds(w)
    BY <2>1 DEF BodyEnds, UsesGpus, Executes
  <2>2. CASE PlanTool(w)
    BY <2>2 DEF PlanTool, UsesGpus, Executes
  <2>3. CASE ApplyTool(w)
    BY <2>3 DEF ApplyTool, UsesGpus, Executes
  <2> QED
    BY <1>5, <2>1, <2>2, <2>3 DEF Results
<1>6. CASE BodyStops(w)
  BY <1>6 DEF BodyStops, UsesGpus, Executes
<1>7. CASE SettleComplete(w) \/ SettleFail(w) \/ RecordFailure(w) \/ Acknowledge(w)
  BY <1>7 DEF SettleComplete, SettleFail, RecordFailure, Acknowledge, UsesGpus
<1>8. CASE NoticeStop(w) \/ ReportRestarts(w)
  <2>1. UNCHANGED << pc, active, rootQ, held >>
    BY <1>8 DEF NoticeStop, ReportRestarts, workerVars
  <2> QED
    BY <2>1 DEF KeepsPlaces, Lives, UsesGpus, PastRoot, InQueue
<1> QED
  BY <1>1, <1>2, <1>3, <1>4, <1>5, <1>6, <1>7, <1>8 DEF QuietStep

-----------------------------------------------------------------------------
(* One worker for each active task.                                         *)

\* Steps that move nobody in or out of life.
LEMMA SameLives ==
  ASSUME TypeOK, OneWorker, active' = active, \A v \in Workers : Lives(v)' <=> Lives(v)
  PROVE  OneWorker'
  BY WorkerParts DEF OneWorker

\* A spawned worker takes a free seat of its task.
LEMMA SpawnTakesSeat ==
  ASSUME NEW t \in Tasks, SpawnWorker(t), t \notin active
  PROVE  \E w \in Workers : w[1] = t /\ pc[w] = "none" /\ Goto(w, "spawned")
<1> DEFINE free == { i \in Seats : pc[t, i] = "none" }
           seat == CHOOSE i \in free : TRUE
<1>1. free # {} /\ Goto(<< t, seat >>, "spawned")
  BY DEF SpawnWorker, TakeSeat
<1>2. seat \in free
  BY <1>1
<1> HIDE DEF seat
<1> QED
  BY <1>1, <1>2, WorkerParts

\* A spawned worker is the only one: its task was not active.
LEMMA SpawnOneWorker ==
  ASSUME TypeOK, OneWorker, NEW t \in Tasks, SpawnWorker(t)
  PROVE  OneWorker'
<1>1. CASE t \in active
  <2>1. pc' = pc /\ active' = active
    BY <1>1 DEF SpawnWorker
  <2> QED
    BY <2>1, SameLives DEF Lives
<1>2. CASE t \notin active
  <2>1. PICK w \in Workers : w[1] = t /\ Goto(w, "spawned")
    BY <1>2, SpawnTakesSeat
  <2>2. Lives(w)' /\ \A v \in Workers : v # w => (Lives(v)' <=> Lives(v))
    BY <2>1, GotoMoves DEF Lives
  <2>3. \A v \in Workers : v[1] = t => ~ Lives(v)
    BY <1>2, WorkerParts DEF OneWorker
  <2>4. active' = active \cup { t }
    BY <1>2 DEF SpawnWorker
  <2>5. \A v, u \in Workers : Lives(v)' /\ Lives(u)' /\ v[1] = u[1] => v = u
    BY <2>1, <2>2, <2>3 DEF OneWorker
  <2>6. ASSUME NEW s \in Tasks PROVE s \in active' <=> \E j \in Seats : Lives(<< s, j >>)'
    <3>1. CASE s = t
      BY <2>1, <2>2, <2>4, <3>1, WorkerParts
    <3>2. CASE s # t
      <4>1. \A j \in Seats : Lives(<< s, j >>)' <=> Lives(<< s, j >>)
        BY <2>1, <2>2, <3>2, WorkerParts
      <4> QED
        BY <2>4, <3>2, <4>1 DEF OneWorker
    <3> QED
      BY <3>1, <3>2
  <2> QED
    BY <2>5, <2>6 DEF OneWorker
<1> QED
  BY <1>1, <1>2

\* The worker that takes its task out of the active set was its only one.
LEMMA LeaveOneWorker ==
  ASSUME TypeOK, OneWorker, NEW w \in Workers, NEW label \in { "none", "dropping" },
         Lives(w), Goto(w, label), active' = active \ { w[1] }
  PROVE  OneWorker'
<1>1. ~ Lives(w)' /\ \A v \in Workers : v # w => (Lives(v)' <=> Lives(v))
  BY GotoMoves DEF Lives
<1>2. \A v, u \in Workers : Lives(v)' /\ Lives(u)' /\ v[1] = u[1] => v = u
  BY <1>1 DEF OneWorker
<1>3. ASSUME NEW s \in Tasks PROVE s \in active' <=> \E j \in Seats : Lives(<< s, j >>)'
  <2>1. CASE s = w[1]
    BY <1>1, <2>1, WorkerParts DEF OneWorker
  <2>2. CASE s # w[1]
    <3>1. \A j \in Seats : Lives(<< s, j >>)' <=> Lives(<< s, j >>)
      BY <1>1, <2>2, WorkerParts
    <3> QED
      BY <2>2, <3>1 DEF OneWorker
  <2> QED
    BY <2>1, <2>2
<1> QED
  BY <1>2, <1>3 DEF OneWorker

\* No step gives an active task a second worker, or none.
LEMMA OneWorkerStays ==
  ASSUME TypeOK, OneWorker, [Next]_vars
  PROVE  OneWorker'
<1>1. ASSUME NEW w \in Workers,
             EnterRoot(w) \/ RootGranted(w) \/ RootWaitStops(w) \/ TryGpus(w) \/ GpuWake(w) \/ ReleaseAll(w)
      PROVE  OneWorker'
  <2>1. PICK label \in { "gpu", "gpuwait", "rootwait", "leaving", "resource", "top", "ending" } :
          Goto(w, label)
    BY <1>1 DEF EnterRoot, RootGranted, RootWaitStops, TryGpus, GpuWake, ReleaseAll
  <2>2. Lives(w) /\ active' = active
    BY <1>1 DEF EnterRoot, RootGranted, RootWaitStops, TryGpus, GpuWake, ReleaseAll, Lives
  <2>3. \A v \in Workers : Lives(v)' <=> Lives(v)
    BY <2>1, <2>2, GotoMoves DEF Lives
  <2> QED
    BY <2>2, <2>3, SameLives
<1>2. ASSUME NEW w \in Workers, Leave(w) PROVE OneWorker'
  BY <1>2, LeaveOneWorker DEF Leave, Lives
<1>3. ASSUME NEW w \in Workers, Drop(w) PROVE OneWorker'
  <2>1. active' = active /\ \A v \in Workers : Lives(v)' <=> Lives(v)
    BY <1>3, GotoMoves DEF Drop, Lives
  <2> QED
    BY <2>1, SameLives
<1>4. ASSUME NEW w \in Workers, EndWorker(w) PROVE OneWorker'
  <2>1. CASE Is(w[1], { "queued" })
    <3>1. active' = active /\ \A v \in Workers : Lives(v)' <=> Lives(v)
      BY <1>4, <2>1, GotoMoves DEF EndWorker, Lives
    <3> QED
      BY <3>1, SameLives
  <2>2. CASE ~ Is(w[1], { "queued" })
    BY <1>4, <2>2, LeaveOneWorker DEF EndWorker, Lives
  <2> QED
    BY <2>1, <2>2
<1>5. CASE Restart
  BY <1>5, WorkerParts DEF Restart, OneWorker, Lives
<1>6. CASE UNCHANGED vars
  BY <1>6 DEF vars, workerVars, OneWorker, Lives
<1>7. ASSUME KeepsPlaces PROVE OneWorker'
  BY <1>7, SameLives DEF KeepsPlaces
<1> QED
  BY <1>1, <1>2, <1>3, <1>4, <1>5, <1>6, <1>7, HandlersKeepPlaces, QuietStepsKeepPlaces, SpawnOneWorker
  DEF Next, Handles, Prepares, Settles, QuietStep

-----------------------------------------------------------------------------
(* The root's scheduling lock.                                              *)

\* The queue holds workers, each once, and none that has given the root back;
\* and whoever is past it is its owner.
RootSafe ==
  /\ rootQ \in Seq(Workers)
  /\ RootQueue
  /\ RootIsOwned

\* The queue of a typed state is a queue of workers ...
LEMMA QueueOfWorkers ==
  ASSUME TypeOK
  PROVE  rootQ \in Seq(Workers)
<1>1. { w \in Workers : pc[w] # "none" } \subseteq Workers
  OBVIOUS
<1> QED
  BY <1>1, SeqMonotonic DEF TypeOK

\* ... and a safe queue of workers is typed: whoever is gone is not in it.
LEMMA SafeQueueIsTyped ==
  ASSUME RootSafe'
  PROVE  (rootQ \in Seq({ w \in Workers : pc[w] # "none" }))'
<1> DEFINE S == { w \in Workers : pc'[w] # "none" }
<1>1. Len(rootQ') \in Nat /\ DOMAIN rootQ' = 1..Len(rootQ') /\ rootQ' \in [ 1..Len(rootQ') -> Workers ]
  BY LenProperties DEF RootSafe
<1>2. \A i \in 1..Len(rootQ') : rootQ'[i] \in S
  BY <1>1 DEF RootSafe, RootQueue, PastRoot, UsesGpus, Executes
<1>3. rootQ' = [ i \in 1..Len(rootQ') |-> rootQ'[i] ]
  BY <1>1
<1> HIDE DEF S
<1>4. [ i \in 1..Len(rootQ') |-> rootQ'[i] ] \in Seq(S)
  BY <1>1, <1>2, IsASeq
<1> QED
  BY <1>3, <1>4 DEF S

\* Places that are kept keep the queue safe.
LEMMA SameRoot ==
  ASSUME RootSafe, rootQ' = rootQ,
         \A v \in Workers : /\ PastRoot(v)' /\ NeedsRoot(v[1]) => PastRoot(v) \/ RootOwner(v)
                            /\ InQueue(v) => InQueue(v)'
  PROVE  RootSafe'
<1>1. \A i \in DOMAIN rootQ : rootQ[i] \in Workers
  BY LenProperties, ElementOfSeq DEF RootSafe
<1>2. RootQueue'
  BY <1>1 DEF RootSafe, RootQueue, InQueue
<1>3. RootIsOwned'
  BY DEF RootSafe, RootIsOwned, RootOwner
<1> QED
  BY <1>2, <1>3 DEF RootSafe

\* A worker that gives the root back, or its place in the queue, is past it no
\* more; everybody else keeps his place.
LEMMA LeaveRootSafe ==
  ASSUME TypeOK, RootSafe, NEW w \in Workers, LeaveRoot(w), NEW label, Goto(w, label),
         label \in { "leaving", "top", "none", "ending" }
  PROVE  RootSafe'
<1>1. /\ rootQ' \in Seq(Workers)
      /\ \A i, j \in DOMAIN rootQ' : rootQ'[i] = rootQ'[j] => i = j
      /\ \A j \in DOMAIN rootQ' : rootQ'[j] # w /\ \E i \in DOMAIN rootQ : rootQ'[j] = rootQ[i]
      /\ \A v \in Workers : v # w /\ RootOwner(v) => RootOwner(v)'
  BY LeaveRootKeeps DEF RootSafe, RootQueue
<1>2. pc'[w] = label /\ \A v \in Workers : v # w => pc'[v] = pc[v]
  BY GotoMoves
<1>a. ~ PastRoot(w)'
  BY <1>2 DEF PastRoot, UsesGpus, Executes
<1>3. \A v \in Workers : v # w => (PastRoot(v)' <=> PastRoot(v)) /\ (InQueue(v)' <=> InQueue(v))
  BY <1>2 DEF PastRoot, UsesGpus, InQueue
<1>4. \A i \in DOMAIN rootQ : rootQ[i] \in Workers /\ InQueue(rootQ[i])
  BY LenProperties, ElementOfSeq DEF RootSafe, RootQueue, InQueue
<1>5. \A j \in DOMAIN rootQ' : InQueue(rootQ[j])'
  BY <1>1, <1>3, <1>4
<1>6. RootQueue'
  BY <1>1, <1>5 DEF RootQueue, InQueue
<1>7. RootIsOwned'
  BY <1>1, <1>a, <1>3 DEF RootSafe, RootIsOwned
<1> QED
  BY <1>1, <1>6, <1>7 DEF RootSafe

\* Whoever queues was not queued before.
LEMMA EnterRootSafe ==
  ASSUME TypeOK, RootSafe, NEW w \in Workers, pc[w] = "top", rootQ' = Append(rootQ, w), Goto(w, "rootwait")
  PROVE  RootSafe'
<1>1. /\ rootQ' \in Seq(Workers)
      /\ DOMAIN rootQ' = DOMAIN rootQ \cup { Len(rootQ) + 1 }
      /\ \A j \in DOMAIN rootQ : rootQ'[j] = rootQ[j] /\ j # Len(rootQ) + 1
      /\ rootQ'[Len(rootQ) + 1] = w
      /\ \A v \in Workers : RootOwner(v) => RootOwner(v)'
  BY EnterRootKeeps DEF RootSafe
<1>2. pc'[w] = "rootwait" /\ \A v \in Workers : v # w => pc'[v] = pc[v]
  BY GotoMoves
<1>3. ~ InQueue(w) /\ InQueue(w)' /\ ~ PastRoot(w)'
  BY <1>2 DEF PastRoot, UsesGpus, Executes, InQueue
<1>4. \A v \in Workers : v # w => (PastRoot(v)' <=> PastRoot(v)) /\ (InQueue(v)' <=> InQueue(v))
  BY <1>2 DEF PastRoot, UsesGpus, Executes, InQueue
<1>5. \A i \in DOMAIN rootQ : rootQ[i] \in Workers /\ InQueue(rootQ[i])
  BY LenProperties, ElementOfSeq DEF RootSafe, RootQueue, InQueue
<1>6. \A i, j \in DOMAIN rootQ' : rootQ'[i] = rootQ'[j] => i = j
  BY <1>1, <1>3, <1>5 DEF RootSafe, RootQueue
<1>7. \A j \in DOMAIN rootQ' : InQueue(rootQ[j])'
  BY <1>1, <1>3, <1>4, <1>5
<1>8. RootQueue'
  BY <1>6, <1>7 DEF RootQueue, InQueue
<1>9. RootIsOwned'
  BY <1>1, <1>3, <1>4 DEF RootSafe, RootIsOwned
<1> QED
  BY <1>1, <1>8, <1>9 DEF RootSafe

\* No step lets a worker past the root that does not own it.
LEMMA RootStays ==
  ASSUME TypeOK, RootSafe, [Next]_vars
  PROVE  RootSafe'
<1>1. ASSUME NEW t \in Tasks, SpawnWorker(t) PROVE RootSafe'
  <2>1. rootQ' = rootQ
    BY <1>1 DEF SpawnWorker
  <2>2. \A v \in Workers : (PastRoot(v)' <=> PastRoot(v)) /\ (InQueue(v)' <=> InQueue(v))
    <3>1. CASE t \in active
      BY <1>1, <3>1 DEF SpawnWorker, PastRoot, UsesGpus, InQueue
    <3>2. CASE t \notin active
      <4>1. PICK w \in Workers : pc[w] = "none" /\ Goto(w, "spawned")
        BY <1>1, <3>2, SpawnTakesSeat
      <4>2. pc'[w] = "spawned" /\ \A v \in Workers : v # w => pc'[v] = pc[v]
        BY <4>1, GotoMoves
      <4> QED
        BY <4>1, <4>2 DEF PastRoot, UsesGpus, Executes, InQueue
    <3> QED
      BY <3>1, <3>2
  <2> QED
    BY <2>1, <2>2, SameRoot
<1>2. ASSUME NEW w \in Workers, EnterRoot(w) PROVE RootSafe'
  <2>1. CASE Goto(w, "rootwait") /\ rootQ' = Append(rootQ, w)
    BY <1>2, <2>1, EnterRootSafe DEF EnterRoot
  <2>2. CASE rootQ' = rootQ /\ (Goto(w, "leaving") \/ (~ NeedsRoot(w[1]) /\ Goto(w, "gpu")))
    <3>1. pc[w] = "top"
      BY <1>2 DEF EnterRoot
    <3>2. \A v \in Workers : /\ PastRoot(v)' /\ NeedsRoot(v[1]) => PastRoot(v)
                             /\ InQueue(v) => InQueue(v)'
      BY <2>2, <3>1, GotoMoves DEF PastRoot, UsesGpus, Executes, InQueue
    <3> QED
      BY <2>2, <3>2, SameRoot
  <2> QED
    BY <1>2, <2>1, <2>2 DEF EnterRoot
<1>3. ASSUME NEW w \in Workers, RootGranted(w) \/ TryGpus(w) PROVE RootSafe'
  <2>1. PICK label \in { "gpu", "gpuwait", "resource" } : Goto(w, label)
    BY <1>3 DEF RootGranted, TryGpus
  <2>2. rootQ' = rootQ /\ (PastRoot(w) \/ RootOwner(w))
    BY <1>3 DEF RootGranted, TryGpus, PastRoot
  <2>3. \A v \in Workers : /\ PastRoot(v)' => PastRoot(v) \/ RootOwner(v)
                           /\ InQueue(v) => InQueue(v)'
    BY <2>1, <2>2, GotoMoves DEF PastRoot, UsesGpus, Executes, InQueue
  <2> QED
    BY <2>2, <2>3, SameRoot
<1>4. ASSUME NEW w \in Workers, RootWaitStops(w) \/ GpuWake(w) \/ Drop(w) \/ ReleaseAll(w) PROVE RootSafe'
  BY <1>4, LeaveRootSafe DEF RootWaitStops, GpuWake, Drop, ReleaseAll
<1>5. ASSUME NEW w \in Workers, Leave(w) \/ EndWorker(w) PROVE RootSafe'
  <2>1. rootQ' = rootQ /\ \/ pc[w] = "leaving" /\ Goto(w, "dropping")
                          \/ pc[w] = "ending" /\ (Goto(w, "top") \/ Goto(w, "none"))
    BY <1>5 DEF Leave, EndWorker
  <2>2. \A v \in Workers : (PastRoot(v)' => PastRoot(v)) /\ (InQueue(v) => InQueue(v)')
    BY <2>1, GotoMoves DEF PastRoot, UsesGpus, Executes, InQueue
  <2> QED
    BY <2>1, <2>2, SameRoot
<1>6. CASE Restart
  <2>1. rootQ' = << >> /\ rootQ' \in Seq(Workers) /\ DOMAIN rootQ' = {}
    BY <1>6 DEF Restart
  <2>2. \A v \in Workers : ~ PastRoot(v)'
    BY <1>6 DEF Restart, PastRoot, UsesGpus, Executes
  <2> QED
    BY <2>1, <2>2 DEF RootSafe, RootQueue, RootIsOwned
<1>7. CASE UNCHANGED vars
  BY <1>7, SameRoot DEF vars, workerVars, PastRoot, UsesGpus, InQueue
<1>8. ASSUME KeepsPlaces PROVE RootSafe'
  BY <1>8, SameRoot DEF KeepsPlaces
<1> QED
  BY <1>1, <1>2, <1>3, <1>4, <1>5, <1>6, <1>7, <1>8, HandlersKeepPlaces, QuietStepsKeepPlaces
  DEF Next, Handles, Prepares, Settles, QuietStep

-----------------------------------------------------------------------------
(* The GPU leases.                                                          *)

\* LeasesMatchWorkers, said of workers.
LEMMA LeasesByWorker ==
  /\ LeasesMatchWorkers <=>
       \A g \in Gpus, t \in Tasks :
         held[g] = t <=> g \in Request[t] /\ \E w \in Workers : w[1] = t /\ UsesGpus(w)
  /\ LeasesMatchWorkers' <=>
       \A g \in Gpus, t \in Tasks :
         held'[g] = t <=> g \in Request[t] /\ \E w \in Workers : w[1] = t /\ UsesGpus(w)'
<1>1. \A t \in Tasks :
        (\E i \in Seats : UsesGpus(<< t, i >>)) <=> \E w \in Workers : w[1] = t /\ UsesGpus(w)
  BY WorkerParts
<1>2. \A t \in Tasks :
        (\E i \in Seats : UsesGpus(<< t, i >>)') <=> \E w \in Workers : w[1] = t /\ UsesGpus(w)'
  BY WorkerParts
<1>3. LeasesMatchWorkers <=>
        \A g \in Gpus, t \in Tasks :
          held[g] = t <=> g \in Request[t] /\ \E i \in Seats : UsesGpus(<< t, i >>)
  BY DEF LeasesMatchWorkers, UsesGpus
<1>4. LeasesMatchWorkers' <=>
        \A g \in Gpus, t \in Tasks :
          held'[g] = t <=> g \in Request[t] /\ \E i \in Seats : UsesGpus(<< t, i >>)'
  BY DEF LeasesMatchWorkers, UsesGpus
<1>5. LeasesMatchWorkers <=>
        \A g \in Gpus, t \in Tasks :
          held[g] = t <=> g \in Request[t] /\ \E w \in Workers : w[1] = t /\ UsesGpus(w)
  BY <1>1, <1>3, Zenon
<1>6. LeasesMatchWorkers' <=>
        \A g \in Gpus, t \in Tasks :
          held'[g] = t <=> g \in Request[t] /\ \E w \in Workers : w[1] = t /\ UsesGpus(w)'
  BY <1>2, <1>4, Zenon
<1> QED
  BY <1>5, <1>6

\* Books and workers that keep still agree.
LEMMA SameLeases ==
  ASSUME LeasesMatchWorkers, held' = held, \A v \in Workers : UsesGpus(v)' <=> UsesGpus(v)
  PROVE  LeasesMatchWorkers'
  BY LeasesByWorker

\* A grant gives the task's only worker all its GPUs.
LEMMA AcquireAgrees ==
  ASSUME TypeOK, LeasesMatchWorkers, NEW w \in Workers, Acquire(w[1]), Goto(w, "resource")
  PROVE  LeasesMatchWorkers'
<1>1. UsesGpus(w)' /\ \A v \in Workers : v # w => (UsesGpus(v)' <=> UsesGpus(v))
  BY GotoMoves DEF UsesGpus
<1>2. w[1] \in Tasks /\ w[1] # NoTask
  BY WorkerParts, GpuLeasesAssumption
<1>3. ASSUME NEW g \in Gpus, NEW t \in Tasks
      PROVE  held'[g] = t <=> g \in Request[t] /\ \E v \in Workers : v[1] = t /\ UsesGpus(v)'
  <2>1. held'[g] = (IF g \in Request[w[1]] THEN w[1] ELSE held[g])
    BY DEF Acquire
  <2>2. CASE t = w[1]
    <3>1. g \in Request[t] => held'[g] = t
      BY <2>1, <2>2
    <3>2. g \notin Request[t] => held'[g] # t
      BY <2>1, <2>2, LeasesByWorker
    <3> QED
      BY <1>1, <2>2, <3>1, <3>2
  <2>3. CASE t # w[1]
    <3>1. held'[g] = t <=> held[g] = t
      BY <1>2, <2>1, <2>3, GpuLeasesAssumption DEF Acquire, CanAcquire, GpusFree
    <3>2. \A v \in Workers : v[1] = t => (UsesGpus(v)' <=> UsesGpus(v))
      BY <1>1, <2>3
    <3> QED
      BY <3>1, <3>2, LeasesByWorker
  <2> QED
    BY <2>2, <2>3
<1> QED
  BY <1>3, LeasesByWorker

\* When the only worker of a task releases, the task has no GPUs left.
LEMMA ReleaseAgrees ==
  ASSUME TypeOK, OneWorker, LeasesMatchWorkers, NEW w \in Workers, Lives(w),
         NEW label \in { "dropping", "ending" }, Goto(w, label), NEW S, Release(w[1], S)
  PROVE  LeasesMatchWorkers'
<1>1. ~ UsesGpus(w)' /\ \A v \in Workers : v # w => (UsesGpus(v)' <=> UsesGpus(v))
  BY GotoMoves DEF UsesGpus, Executes
<1>2. \A v \in Workers : v[1] = w[1] => ~ UsesGpus(v)'
  BY <1>1 DEF OneWorker, Lives, UsesGpus, Executes
<1>3. w[1] \in Tasks
  BY WorkerParts
<1>4. ASSUME NEW g \in Gpus, NEW t \in Tasks
      PROVE  held'[g] = t <=> g \in Request[t] /\ \E v \in Workers : v[1] = t /\ UsesGpus(v)'
  <2>1. held'[g] = t <=> held[g] = t /\ t # w[1]
    BY <1>3, GpuLeasesAssumption DEF Release, TypeOK, LeaseTypeOK
  <2>2. CASE t = w[1]
    BY <1>2, <2>1, <2>2
  <2>3. CASE t # w[1]
    <3>1. \A v \in Workers : v[1] = t => (UsesGpus(v)' <=> UsesGpus(v))
      BY <1>1, <2>3
    <3> QED
      BY <2>1, <2>3, <3>1, LeasesByWorker
  <2> QED
    BY <2>2, <2>3
<1> QED
  BY <1>4, LeasesByWorker

\* Workers of tasks that need no GPU do not matter to the books.
LEMMA NoGpusNoMatter ==
  ASSUME LeasesMatchWorkers, held' = held,
         \A v \in Workers : (UsesGpus(v)' <=> UsesGpus(v)) \/ Request[v[1]] = {}
  PROVE  LeasesMatchWorkers'
<1>1. ASSUME NEW g \in Gpus, NEW t \in Tasks
      PROVE  held'[g] = t <=> g \in Request[t] /\ \E v \in Workers : v[1] = t /\ UsesGpus(v)'
  <2>1. CASE Request[t] = {}
    BY <2>1, LeasesByWorker
  <2>2. CASE Request[t] # {}
    BY <2>2, LeasesByWorker
  <2> QED
    BY <2>1, <2>2
<1> QED
  BY <1>1, LeasesByWorker

\* No step parts the manager's books from the workers'.
LEMMA LeasesStay ==
  ASSUME TypeOK, OneWorker, LeasesMatchWorkers, [Next]_vars
  PROVE  LeasesMatchWorkers'
<1>1. ASSUME NEW t \in Tasks, SpawnWorker(t) PROVE LeasesMatchWorkers'
  <2>1. held' = held
    BY <1>1 DEF SpawnWorker, leaseVars
  <2>2. \A v \in Workers : UsesGpus(v)' <=> UsesGpus(v)
    <3>1. CASE t \in active
      BY <1>1, <3>1 DEF SpawnWorker, UsesGpus
    <3>2. CASE t \notin active
      BY <1>1, <3>2, SpawnTakesSeat, GotoMoves DEF UsesGpus, Executes
    <3> QED
      BY <3>1, <3>2
  <2> QED
    BY <2>1, <2>2, SameLeases
<1>2. ASSUME NEW w \in Workers, EnterRoot(w) \/ RootWaitStops(w) \/ GpuWake(w) \/ Drop(w) \/ EndWorker(w)
      PROVE  LeasesMatchWorkers'
  <2>1. /\ held' = held
        /\ pc[w] \in { "top", "rootwait", "gpuwait", "dropping", "ending" }
        /\ \E label \in { "gpu", "rootwait", "leaving", "top", "none" } : Goto(w, label)
    BY <1>2 DEF EnterRoot, RootWaitStops, GpuWake, Drop, EndWorker, leaseVars
  <2>2. \A v \in Workers : UsesGpus(v)' <=> UsesGpus(v)
    BY <2>1, GotoMoves DEF UsesGpus, Executes
  <2> QED
    BY <2>1, <2>2, SameLeases
<1>3. ASSUME NEW w \in Workers, RootGranted(w) PROVE LeasesMatchWorkers'
  <2>1. /\ held' = held /\ pc[w] = "rootwait"
        /\ Goto(w, "gpu") \/ (Request[w[1]] = {} /\ Goto(w, "resource"))
    BY <1>3 DEF RootGranted, leaseVars
  <2>2. \A v \in Workers : (UsesGpus(v)' <=> UsesGpus(v)) \/ Request[v[1]] = {}
    BY <2>1, GotoMoves DEF UsesGpus, Executes
  <2> QED
    BY <2>1, <2>2, NoGpusNoMatter
<1>4. ASSUME NEW w \in Workers, TryGpus(w) PROVE LeasesMatchWorkers'
  <2>1. CASE Acquire(w[1]) /\ Goto(w, "resource")
    BY <2>1, AcquireAgrees
  <2>2. CASE Goto(w, "gpuwait") /\ UNCHANGED leaseVars
    <3>1. \A v \in Workers : UsesGpus(v)' <=> UsesGpus(v)
      BY <1>4, <2>2, GotoMoves DEF TryGpus, UsesGpus, Executes
    <3> QED
      BY <2>2, <3>1, SameLeases DEF leaseVars
  <2> QED
    BY <1>4, <2>1, <2>2 DEF TryGpus
<1>5. ASSUME NEW w \in Workers, Leave(w) PROVE LeasesMatchWorkers'
  BY <1>5, ReleaseAgrees DEF Leave, Lives
<1>6. ASSUME NEW w \in Workers, ReleaseAll(w) PROVE LeasesMatchWorkers'
  <2>1. CASE Request[w[1]] # {}
    BY <1>6, <2>1, ReleaseAgrees DEF ReleaseAll, Lives
  <2>2. CASE Request[w[1]] = {}
    <3>1. held' = held /\ \A v \in Workers : (UsesGpus(v)' <=> UsesGpus(v)) \/ Request[v[1]] = {}
      BY <1>6, <2>2, GotoMoves DEF ReleaseAll, leaseVars, UsesGpus
    <3> QED
      BY <3>1, NoGpusNoMatter
  <2> QED
    BY <2>1, <2>2
<1>7. CASE Restart
  <2>1. \A g \in Gpus, t \in Tasks : held'[g] # t
    BY <1>7, GpuLeasesAssumption DEF Restart
  <2>2. \A v \in Workers : ~ UsesGpus(v)'
    BY <1>7 DEF Restart, UsesGpus, Executes
  <2> QED
    BY <2>1, <2>2, LeasesByWorker
<1>8. CASE UNCHANGED vars
  BY <1>8, SameLeases DEF vars, workerVars, leaseVars, UsesGpus
<1>9. ASSUME KeepsPlaces PROVE LeasesMatchWorkers'
  BY <1>9, SameLeases DEF KeepsPlaces
<1> QED
  BY <1>1, <1>2, <1>3, <1>4, <1>5, <1>6, <1>7, <1>8, <1>9, HandlersKeepPlaces, QuietStepsKeepPlaces
  DEF Next, Handles, Prepares, Settles, QuietStep

-----------------------------------------------------------------------------
(* The life of a task.                                                      *)

\* A status that is written is the task's, and nobody else's changes.
LEMMA BecomeMoves ==
  ASSUME TypeOK, NEW t \in Tasks, NEW s, Become(t, s)
  PROVE  status'[t] = s /\ \A u \in Tasks : u # t => status'[u] = status[u]
  BY DEF TypeOK, Become

\* The moves of a task's status: who makes them, and from where.
StatusMove(t) ==
  \/ CreateTask(t) /\ Become(t, "queued")
  \/ Is(t, Pausable) /\ Become(t, PauseTarget(status[t])) /\ NotifyWaiters(Subscribers(pc))
  \/ Is(t, Cancellable) /\ Become(t, CancelTarget(status[t])) /\ NotifyWaiters(Subscribers(pc))
  \/ Is(t, Resumable) /\ Become(t, "queued") /\ t \in spawning'
  \/ Is(t, { "failed" }) /\ Become(t, "queued") /\ t \in spawning' \cup storing'
  \/ Is(t, { "awaiting_confirmation" }) /\ Become(t, "queued") /\ t \in spawning' \cap confirmed'
  \/ Is(t, { "awaiting_confirmation" }) /\ Become(t, "running") /\ t \in orphaned' \cap confirmed'
  \/ Is(t, TerminalStatuses) /\ Become(t, "absent")
  \/ /\ Is(t, { "queued" }) /\ Become(t, "running")
     /\ \E w \in Workers : w[1] = t /\ pc[w] \in { "rootlost", "starting", "body" }
  \/ Is(t, Failable) /\ Become(t, "failed")
  \/ Is(t, { "running" }) /\ \E s \in { "completed", "failed", "awaiting_confirmation" } : Become(t, s)
  \/ Is(t, StopRequested) /\ Become(t, AckTarget(status[t]))

\* Every step but a restart moves one status in one of these ways, or none.
LEMMA OneStatusMoves ==
  ASSUME TypeOK, [Next]_vars, ~ Restart
  PROVE  status' = status \/ \E t \in Tasks : StatusMove(t)
<1>1. ASSUME NEW t \in Tasks, Controls(t) PROVE StatusMove(t)
  <2>1. CASE CreateTask(t) \/ PauseTask(t) \/ CancelTask(t) \/ DeleteTask(t)
    BY <2>1 DEF CreateTask, PauseTask, CancelTask, DeleteTask, StatusMove
  <2>2. CASE ResumeTask(t) \/ RetryTask(t)
    BY <2>2 DEF ResumeTask, RetryTask, StatusMove
  <2>3. CASE ConfirmTask(t) \/ DecideTask(t)
    BY <2>3 DEF ConfirmTask, DecideTask, StatusMove
  <2> QED
    BY <1>1, <2>1, <2>2, <2>3 DEF Controls
<1>2. ASSUME NEW t \in Tasks, Handles(t) PROVE status' = status \/ StatusMove(t)
  BY <1>2 DEF Handles, StoreItems, StoreItemsFails, SpawnWorker, taskVars, StatusMove
<1>3. ASSUME NEW w \in Workers, Prepares(w) PROVE status' = status \/ StatusMove(w[1])
  <2>1. CASE StartForRoot(w)
    BY <2>1 DEF StartForRoot, Startable, StatusMove
  <2>2. CASE FailForRoot(w)
    BY <2>2 DEF FailForRoot, StatusMove
  <2>3. CASE StartBody(w)
    BY <2>3 DEF StartBody, Startable, StatusMove
  <2>4. CASE ~ (StartForRoot(w) \/ FailForRoot(w) \/ StartBody(w))
    BY <1>3, <2>4 DEF Prepares, DrawTicket, Subscribe, EnterRoot, RootLookupFails, RootGranted,
       RootWaitStops, TryGpus, GpuCheckStops, GpuWake, Leave, Drop, taskVars
  <2> QED
    BY <2>1, <2>2, <2>3, <2>4
<1>4. ASSUME NEW w \in Workers, TakesSlot(w) \/ Results(w) \/ NoticeStop(w) \/ BodyStops(w) \/ ReportRestarts(w)
      PROVE  status' = status \/ StatusMove(w[1])
  <2>1. CASE TakesSlot(w) \/ NoticeStop(w) \/ BodyStops(w)
    BY <2>1 DEF TakesSlot, TakeClassSlot, TakeWorkerSlot, NoticeStop, BodyStops, taskVars
  <2>2. CASE Results(w)
    BY <2>2 DEF Results, BodyEnds, PlanTool, ApplyTool, taskVars, StatusMove
  <2>3. CASE ReportRestarts(w)
    BY <2>3 DEF ReportRestarts, Startable, StatusMove
  <2> QED
    BY <1>4, <2>1, <2>2, <2>3
<1>5. ASSUME NEW w \in Workers, Settles(w) PROVE status' = status \/ StatusMove(w[1])
  BY <1>5 DEF Settles, SettleComplete, SettleFail, RecordFailure, Acknowledge, ReleaseAll, EndWorker,
     taskVars, StatusMove
<1>6. CASE UNCHANGED vars
  BY <1>6 DEF vars, taskVars
<1> QED
  BY <1>1, <1>2, <1>3, <1>4, <1>5, <1>6, WorkerParts DEF Next

\* What a move makes of the status is a successor of what it was.
LEMMA MovesAreSuccessors ==
  ASSUME TypeOK, NEW t \in Tasks, Is(t, { "absent" }) \/ t \in created, StatusMove(t)
  PROVE  \A u \in Tasks : status'[u] # status[u] => status'[u] \in Lifecycle!Successors(status[u])
<1>a. status[t] \in Statuses \cup { "absent" }
  BY DEF TypeOK
<1>1. CASE CreateTask(t) /\ Become(t, "queued")
  BY <1>1, BecomeMoves DEF CreateTask, Is, Lifecycle!Successors
<1>2. CASE Is(t, Pausable) /\ Become(t, PauseTarget(status[t]))
  BY <1>2, BecomeMoves DEF Is, Pausable, PauseTarget, Lifecycle!Successors
<1>3. CASE Is(t, Cancellable) /\ Become(t, CancelTarget(status[t]))
  BY <1>3, BecomeMoves DEF Is, Cancellable, CancelTarget, Lifecycle!Successors
<1>4. CASE Is(t, Resumable \cup { "failed", "awaiting_confirmation" }) /\ Become(t, "queued")
  BY <1>4, BecomeMoves DEF Is, Resumable, Lifecycle!Successors
<1>5. CASE Is(t, { "queued", "awaiting_confirmation" }) /\ Become(t, "running")
  BY <1>5, BecomeMoves DEF Is, Lifecycle!Successors
<1>6. CASE Is(t, TerminalStatuses) /\ Become(t, "absent")
  BY <1>6, BecomeMoves DEF Is, TerminalStatuses, Lifecycle!Successors
<1>7. CASE Is(t, Failable) /\ Become(t, "failed")
  BY <1>7, BecomeMoves DEF Is, Failable, Lifecycle!Successors
<1>8. CASE Is(t, { "running" }) /\ \E s \in { "completed", "failed", "awaiting_confirmation" } : Become(t, s)
  BY <1>8, BecomeMoves DEF Is, Lifecycle!Successors
<1>9. CASE Is(t, StopRequested) /\ Become(t, AckTarget(status[t]))
  BY <1>9, BecomeMoves DEF Is, StopRequested, AckTarget, Lifecycle!Successors
<1> QED
  BY <1>1, <1>2, <1>3, <1>4, <1>5, <1>6, <1>7, <1>8, <1>9 DEF StatusMove, Is

\* A restart settles what executed and leaves the rest.
LEMMA RestartStatus ==
  ASSUME TypeOK, Restart, NEW t \in Tasks
  PROVE  /\ status'[t] = RecoveredStatus(status[t], Resumable_(t))
         /\ Is(t, Executing) => status'[t] \in { "paused", "cancelled", "failed" }
         /\ ~ Is(t, Executing) => status'[t] = status[t]
<1>1. status'[t] = RecoveredStatus(status[t], Resumable_(t))
  BY DEF Restart
<1>2. Resumable_(t) \in BOOLEAN
  BY DEF Resumable_
<1> HIDE DEF Resumable_
<1> QED
  BY <1>1, <1>2 DEF RecoveredStatus, Is, Executing, StopRequested

\* Whether a task has been created is on record.
CreatedOnRecord == \A t \in Tasks : Is(t, { "absent" }) \/ t \in created

\* Every step moves each status to a successor.
LEMMA StatusesFollow ==
  ASSUME TypeOK, CreatedOnRecord, [Next]_vars
  PROVE  \A u \in Tasks : status'[u] # status[u] => status'[u] \in Lifecycle!Successors(status[u])
<1>1. CASE Restart
  <2> SUFFICES ASSUME NEW u \in Tasks, status'[u] # status[u]
               PROVE  status'[u] \in Lifecycle!Successors(status[u])
    OBVIOUS
  <2>1. status'[u] = RecoveredStatus(status[u], Resumable_(u)) /\ Resumable_(u) \in BOOLEAN
    BY <1>1, RestartStatus DEF Resumable_
  <2> QED
    BY <2>1 DEF RecoveredStatus, Lifecycle!Successors
<1>2. CASE ~ Restart
  BY <1>2, OneStatusMoves, MovesAreSuccessors DEF CreatedOnRecord
<1> QED
  BY <1>1, <1>2

\* Created tasks stay on record, and so do their manifests and confirmations.
LEMMA RecordsGrow ==
  ASSUME [Next]_vars
  PROVE  created \subseteq created' /\ preview \subseteq preview' /\ confirmed \subseteq confirmed'
<1>1. ASSUME NEW t \in Tasks, Controls(t) \/ Handles(t)
      PROVE  created \subseteq created' /\ preview \subseteq preview' /\ confirmed \subseteq confirmed'
  BY <1>1 DEF Controls, CreateTask, PauseTask, CancelTask, ResumeTask, RetryTask, ConfirmTask, DecideTask,
     DeleteTask, Handles, StoreItems, StoreItemsFails, SpawnWorker, taskVars
<1>2. ASSUME NEW w \in Workers, Prepares(w) \/ TakesSlot(w)
      PROVE  UNCHANGED << created, preview, confirmed >>
  BY <1>2 DEF Prepares, DrawTicket, Subscribe, EnterRoot, RootLookupFails, StartForRoot, FailForRoot,
     RootGranted, RootWaitStops, TryGpus, GpuCheckStops, GpuWake, Leave, Drop, StartBody, TakesSlot,
     TakeClassSlot, TakeWorkerSlot, taskVars
<1>3. ASSUME NEW w \in Workers, Results(w) \/ Settles(w) \/ NoticeStop(w) \/ BodyStops(w) \/ ReportRestarts(w)
      PROVE  created \subseteq created' /\ preview \subseteq preview' /\ confirmed \subseteq confirmed'
  BY <1>3 DEF Results, BodyEnds, PlanTool, ApplyTool, Settles, SettleComplete, SettleFail,
     RecordFailure, Acknowledge,
     ReleaseAll, EndWorker, NoticeStop, BodyStops, ReportRestarts, taskVars
<1>4. CASE Restart
  BY <1>4 DEF Restart
<1>5. CASE UNCHANGED vars
  BY <1>5 DEF vars, taskVars
<1> QED
  BY <1>1, <1>2, <1>3, <1>4, <1>5 DEF Next

\* Nothing but a creation makes a task out of nothing.
LEMMA CreatedStays ==
  ASSUME TypeOK, CreatedOnRecord, [Next]_vars
  PROVE  CreatedOnRecord'
<1>1. CASE Restart
  BY <1>1, RestartStatus DEF CreatedOnRecord, Restart, Is, Executing, StopRequested
<1>2. CASE status' = status
  BY <1>2, RecordsGrow DEF CreatedOnRecord, Is
<1>3. ASSUME NEW t \in Tasks, StatusMove(t) PROVE CreatedOnRecord'
  <2>1. ASSUME NEW u \in Tasks, u # t PROVE Is(u, { "absent" })' \/ u \in created'
    BY <1>3, <2>1, BecomeMoves, RecordsGrow DEF StatusMove, CreatedOnRecord, Is
  <2>2. CASE CreateTask(t)
    BY <2>1, <2>2 DEF CreatedOnRecord, CreateTask
  <2>3. CASE ~ CreateTask(t)
    <3>1. ~ Is(t, { "absent" }) \/ Is(t, { "absent" })'
      BY <1>3, <2>3 DEF StatusMove, Is, Pausable, Cancellable, Resumable, TerminalStatuses, Failable, StopRequested
    <3> QED
      BY <2>1, <3>1, RecordsGrow DEF CreatedOnRecord
  <2> QED
    BY <2>2, <2>3
<1> QED
  BY <1>1, <1>2, <1>3, OneStatusMoves

-----------------------------------------------------------------------------
(* Manifests are applied after their confirmation.                          *)

\* The only step that makes a manifest.
LEMMA PreviewGrows ==
  ASSUME [Next]_vars
  PROVE  \/ preview' = preview
         \/ \E w \in Workers : /\ PlanTool(w) /\ Is(w[1], { "running" })
                               /\ preview' = preview \cup { w[1] }
                               /\ Become(w[1], "awaiting_confirmation")
<1>1. ASSUME NEW t \in Tasks, Controls(t) \/ Handles(t)
      PROVE  preview' = preview
  BY <1>1 DEF Controls, CreateTask, PauseTask, CancelTask, ResumeTask, RetryTask, ConfirmTask, DecideTask,
     DeleteTask, Handles, StoreItems, StoreItemsFails, SpawnWorker, taskVars
<1>2. ASSUME NEW w \in Workers, Prepares(w) \/ TakesSlot(w)
      PROVE  preview' = preview
  BY <1>2 DEF Prepares, DrawTicket, Subscribe, EnterRoot, RootLookupFails, StartForRoot, FailForRoot,
     RootGranted, RootWaitStops, TryGpus, GpuCheckStops, GpuWake, Leave, Drop, StartBody, TakesSlot,
     TakeClassSlot, TakeWorkerSlot, taskVars
<1>3. ASSUME NEW w \in Workers,
             BodyEnds(w) \/ ApplyTool(w) \/ Settles(w) \/ NoticeStop(w) \/ BodyStops(w) \/ ReportRestarts(w)
      PROVE  preview' = preview
  BY <1>3 DEF BodyEnds, ApplyTool, Settles, SettleComplete, SettleFail, RecordFailure, Acknowledge,
     ReleaseAll, EndWorker, NoticeStop, BodyStops, ReportRestarts, taskVars
<1>4. ASSUME NEW w \in Workers, PlanTool(w)
      PROVE  \/ preview' = preview
             \/ /\ Is(w[1], { "running" }) /\ preview' = preview \cup { w[1] }
                /\ Become(w[1], "awaiting_confirmation")
  BY <1>4 DEF PlanTool
<1>5. CASE Restart
  BY <1>5 DEF Restart
<1>6. CASE UNCHANGED vars
  BY <1>6 DEF vars, taskVars
<1> QED
  BY <1>1, <1>2, <1>3, <1>4, <1>5, <1>6 DEF Next, Results

\* The only step that starts to apply one.
LEMMA ApplyingStarts ==
  ASSUME TypeOK, [Next]_vars, NEW w \in Workers, (pc[w] = "applying")', pc[w] # "applying"
  PROVE  w[1] \in preview /\ Is(w[1], { "running" })
<1>1. ASSUME NEW v \in Workers, NEW label, Goto(v, label), label # "applying" PROVE FALSE
  BY <1>1, GotoMoves
<1>2. pc' # pc
  OBVIOUS
<1>3. ASSUME NEW t \in Tasks, Controls(t) \/ Handles(t) PROVE FALSE
  <2>1. pc' = pc \/ (SpawnWorker(t) /\ t \notin active)
    BY <1>3 DEF Controls, CreateTask, PauseTask, CancelTask, ResumeTask, RetryTask, ConfirmTask, DecideTask,
       DeleteTask, Handles, StoreItems, StoreItemsFails, SpawnWorker, workerVars
  <2> QED
    BY <1>1, <1>2, <2>1, SpawnTakesSeat
<1>4. ASSUME NEW v \in Workers, Prepares(v) \/ TakesSlot(v) PROVE FALSE
  BY <1>1, <1>4 DEF Prepares, DrawTicket, Subscribe, EnterRoot, RootLookupFails, StartForRoot, FailForRoot,
     RootGranted, RootWaitStops, TryGpus, GpuCheckStops, GpuWake, Leave, Drop, StartBody, TakesSlot,
     TakeClassSlot, TakeWorkerSlot
<1>5. ASSUME NEW v \in Workers,
             BodyEnds(v) \/ PlanTool(v) \/ Settles(v) \/ NoticeStop(v) \/ BodyStops(v) \/ ReportRestarts(v)
      PROVE  FALSE
  BY <1>1, <1>2, <1>5 DEF BodyEnds, PlanTool, Settles, SettleComplete, SettleFail, RecordFailure,
     Acknowledge,
     ReleaseAll, EndWorker, NoticeStop, BodyStops, ReportRestarts, workerVars
<1>6. ASSUME NEW v \in Workers, ApplyTool(v) PROVE v = w /\ w[1] \in preview /\ Is(w[1], { "running" })
  BY <1>6, GotoMoves DEF ApplyTool
<1>7. ~ Restart
  BY DEF Restart
<1>8. ~ UNCHANGED vars
  BY <1>2 DEF vars, workerVars
<1> QED
  BY <1>3, <1>4, <1>5, <1>6, <1>7, <1>8 DEF Next, Results

\* A manifest that no user has confirmed is at rest: its task awaits the
\* confirmation, or was cancelled, or is gone.
PlansAtRest ==
  /\ preview \subseteq created
  /\ \A t \in preview \ confirmed : Is(t, { "awaiting_confirmation", "cancelled", "absent" })

\* No step moves a task whose manifest nobody confirmed.
LEMMA PlansStayAtRest ==
  ASSUME TypeOK, CreatedOnRecord, PlansAtRest, [Next]_vars
  PROVE  PlansAtRest'
<1>1. preview' \subseteq created'
  <2>1. ASSUME NEW w \in Workers, Is(w[1], { "running" }) PROVE w[1] \in created
    BY <2>1, WorkerParts DEF CreatedOnRecord, Is
  <2> QED
    BY <2>1, PreviewGrows, RecordsGrow DEF PlansAtRest
<1>2. ASSUME NEW t \in preview' \ confirmed'
      PROVE  Is(t, { "awaiting_confirmation", "cancelled", "absent" })'
  <2>1. CASE t \notin preview
    <3>1. t \in Tasks /\ Become(t, "awaiting_confirmation")
      BY <1>2, <2>1, PreviewGrows, WorkerParts
    <3> QED
      BY <3>1, BecomeMoves DEF Is
  <2>2. CASE t \in preview
    <3>1. t \in Tasks /\ t \in created /\ t \notin confirmed
      BY <1>2, <2>2, RecordsGrow DEF PlansAtRest, TypeOK
    <3>2. Is(t, { "awaiting_confirmation", "cancelled", "absent" })
      BY <2>2, <3>1 DEF PlansAtRest
    <3>3. CASE Restart
      BY <3>1, <3>2, <3>3, RestartStatus DEF Is, Executing, StopRequested
    <3>4. CASE status' = status
      BY <3>2, <3>4 DEF Is
    <3>5. ASSUME NEW u \in Tasks, StatusMove(u)
          PROVE  Is(t, { "awaiting_confirmation", "cancelled", "absent" })'
      <4>1. CASE u # t
        BY <3>1, <3>2, <3>5, <4>1, BecomeMoves DEF StatusMove, Is
      <4>2. CASE u = t
        <5>1. ~ CreateTask(t)
          BY <3>1 DEF CreateTask
        <5>2. \/ Is(t, Cancellable) /\ Become(t, CancelTarget(status[t]))
              \/ Is(t, TerminalStatuses) /\ Become(t, "absent")
          BY <1>2, <3>2, <3>5, <4>2, <5>1
             DEF StatusMove, Is, Pausable, Resumable, Failable, StopRequested
        <5> QED
          BY <3>1, <3>2, <5>2, BecomeMoves DEF Is, CancelTarget
      <4> QED
        BY <4>1, <4>2
    <3> QED
      BY <3>3, <3>4, <3>5, OneStatusMoves
  <2> QED
    BY <2>1, <2>2
<1> QED
  BY <1>1, <1>2 DEF PlansAtRest

\* Who starts to apply a manifest finds it confirmed.
LEMMA AppliedStayConfirmed ==
  ASSUME TypeOK, PlansAtRest, AppliedWereConfirmed, [Next]_vars
  PROVE  AppliedWereConfirmed'
<1> SUFFICES ASSUME NEW w \in Workers, (pc[w] = "applying")' PROVE w[1] \in confirmed'
  BY DEF AppliedWereConfirmed
<1>1. CASE pc[w] = "applying"
  BY <1>1, RecordsGrow DEF AppliedWereConfirmed
<1>2. CASE pc[w] # "applying"
  <2>1. w[1] \in preview /\ Is(w[1], { "running" })
    BY <1>2, ApplyingStarts
  <2>2. w[1] \in confirmed
    BY <2>1 DEF PlansAtRest, Is
  <2> QED
    BY <2>2, RecordsGrow
<1> QED
  BY <1>1, <1>2

-----------------------------------------------------------------------------
(* No live task is forgotten.                                               *)

\* A worker or a handler has the task, or one of the four holes.
Kept(t) == t \in active \cup storing \cup spawning \cup orphaned

\* Whoever lets go of a queued task passes it on, or adds it to the holes.
LEMMA KeptIsPassedOn ==
  ASSUME TypeOK, [Next]_vars, NEW t \in Tasks, Kept(t), Is(t, { "queued" })'
  PROVE  Kept(t)'
<1>1. ASSUME NEW u \in Tasks, Controls(u) PROVE Kept(t)'
  BY <1>1 DEF Controls, CreateTask, PauseTask, CancelTask, ResumeTask, RetryTask, ConfirmTask, DecideTask,
     DeleteTask, handlerVars, workerVars, Kept
<1>2. ASSUME NEW u \in Tasks, Handles(u) PROVE Kept(t)'
  <2>1. CASE StoreItems(u) \/ SpawnWorker(u)
    BY <2>1 DEF StoreItems, SpawnWorker, workerVars, Kept
  <2>2. CASE StoreItemsFails(u)
    <3>1. t # u
      BY <2>2, BecomeMoves DEF StoreItemsFails, Is, Failable
    <3> QED
      BY <2>2, <3>1 DEF StoreItemsFails, workerVars, Kept
  <2> QED
    BY <1>2, <2>1, <2>2 DEF Handles
<1>3. ASSUME NEW w \in Workers, Prepares(w) PROVE Kept(t)'
  <2>1. CASE Leave(w)
    <3>1. status' = status
      BY <2>1 DEF Leave, taskVars
    <3> QED
      BY <2>1, <3>1 DEF Leave, handlerVars, Kept, Is
  <2>2. CASE StartBody(w)
    <3>1. t # w[1] \/ orphaned' = orphaned
      BY <2>2, BecomeMoves DEF StartBody, Is
    <3> QED
      BY <2>2, <3>1 DEF StartBody, handlerVars, Kept
  <2>3. CASE ~ (Leave(w) \/ StartBody(w))
    BY <1>3, <2>3 DEF Prepares, DrawTicket, Subscribe, EnterRoot, RootLookupFails, StartForRoot, FailForRoot,
       RootGranted, RootWaitStops, TryGpus, GpuCheckStops, GpuWake, Drop, handlerVars, Kept
  <2> QED
    BY <2>1, <2>2, <2>3
<1>4. ASSUME NEW w \in Workers,
             TakesSlot(w) \/ Results(w) \/ NoticeStop(w) \/ BodyStops(w) \/ ReportRestarts(w)
      PROVE  Kept(t)'
  BY <1>4 DEF TakesSlot, TakeClassSlot, TakeWorkerSlot, Results, BodyEnds, PlanTool, ApplyTool, NoticeStop,
     BodyStops, ReportRestarts, handlerVars, workerVars, Kept
<1>5. ASSUME NEW w \in Workers, Settles(w) PROVE Kept(t)'
  <2>1. CASE EndWorker(w)
    <3>1. status' = status
      BY <2>1 DEF EndWorker, taskVars
    <3>2. CASE Is(w[1], { "queued" })
      BY <2>1, <3>2 DEF EndWorker, handlerVars, Kept
    <3>3. CASE ~ Is(w[1], { "queued" })
      <4>1. t # w[1] /\ orphaned \subseteq orphaned'
        BY <2>1, <3>1, <3>3 DEF EndWorker, Is
      <4> QED
        BY <2>1, <3>3, <4>1 DEF EndWorker, handlerVars, Kept
    <3> QED
      BY <3>2, <3>3
  <2>2. CASE ~ EndWorker(w)
    BY <1>5, <2>2 DEF Settles, SettleComplete, SettleFail, RecordFailure, Acknowledge, ReleaseAll,
       handlerVars, Kept
  <2> QED
    BY <2>1, <2>2
<1>6. CASE Restart
  <2>1. status[t] = "queued"
    BY <1>6, RestartStatus DEF Is
  <2> QED
    BY <1>6, <2>1 DEF Restart, Kept
<1>7. CASE UNCHANGED vars
  BY <1>7 DEF vars, handlerVars, workerVars, Kept
<1> QED
  BY <1>1, <1>2, <1>3, <1>4, <1>5, <1>6, <1>7 DEF Next

\* Whoever queues a task keeps a worker for it, or asks for one.
LEMMA QueuedStaysKept ==
  ASSUME TypeOK, QueuedIsKept, [Next]_vars
  PROVE  QueuedIsKept'
<1> SUFFICES ASSUME NEW t \in Tasks, Is(t, { "queued" })' PROVE Kept(t)'
  BY DEF QueuedIsKept, Kept
<1>1. CASE Is(t, { "queued" })
  BY <1>1, KeptIsPassedOn DEF QueuedIsKept, Kept
<1>2. CASE ~ Is(t, { "queued" })
  <2>1. status' # status /\ ~ Restart
    BY <1>2, RestartStatus DEF Is
  <2>2. PICK u \in Tasks : StatusMove(u)
    BY <2>1, OneStatusMoves
  <2>3. u = t
    BY <1>2, <2>2, BecomeMoves DEF StatusMove, Is
  <2>4. CASE CreateTask(t)
    BY <2>4 DEF CreateTask, Kept
  <2>5. CASE ~ CreateTask(t)
    <3>1. \A s : Become(t, s) => s = "queued"
      BY BecomeMoves DEF Is
    <3>2. t \in spawning' \cup storing'
      BY <1>2, <2>2, <2>3, <2>5, <3>1 DEF StatusMove, PauseTarget, CancelTarget, AckTarget
    <3> QED
      BY <3>2 DEF Kept
  <2> QED
    BY <2>4, <2>5
<1> QED
  BY <1>1, <1>2

\* An executing task has a worker that answers for it, or fell into a hole.
Answered(t) == t \in orphaned \/ \E w \in Workers : w[1] = t /\ AnswersFor(w)

\* The same in terms of the workers, in this state and in the next.
LEMMA ExecutingByWorker ==
  /\ ExecutingIsKept <=> \A t \in Tasks : Is(t, Executing) => Answered(t)
  /\ ExecutingIsKept' <=> \A t \in Tasks : Is(t, Executing)' => Answered(t)'
<1>1. \A t \in Tasks : (\E i \in Seats : AnswersFor(<< t, i >>)) <=> \E w \in Workers : w[1] = t /\ AnswersFor(w)
  BY WorkerParts
<1>2. \A t \in Tasks : (\E i \in Seats : AnswersFor(<< t, i >>)') <=> \E w \in Workers : w[1] = t /\ AnswersFor(w)'
  BY WorkerParts
<1> QED
  BY <1>1, <1>2 DEF ExecutingIsKept, Answered

\* Whoever answers for a task lives, so it is the task's only worker.
LEMMA AnswererIsTheWorker ==
  ASSUME OneWorker, ExecutingIsKept, NEW w \in Workers, Lives(w), Is(w[1], Executing)
  PROVE  w[1] \in orphaned \/ AnswersFor(w)
<1>1. \A v \in Workers : AnswersFor(v) => Lives(v)
  BY DEF AnswersFor, Lives, Executes
<1>2. w[1] \in Tasks
  BY WorkerParts
<1>3. Answered(w[1])
  BY <1>2, ExecutingByWorker
<1> QED
  BY <1>1, <1>3 DEF Answered, OneWorker

\* A step of one worker concerns its own task: it is enough to look at the two.
LEMMA WorkerAnswers ==
  ASSUME OneWorker, ExecutingIsKept, NEW w \in Workers,
         \A v \in Workers : v # w => pc'[v] = pc[v] /\ (v \in stopSeen' <=> v \in stopSeen),
         \A t \in Tasks : t # w[1] => status'[t] = status[t] /\ (t \in orphaned => t \in orphaned'),
         Is(w[1], Executing)' => w[1] \in orphaned' \/ AnswersFor(w)'
  PROVE  ExecutingIsKept'
<1> SUFFICES ASSUME NEW t \in Tasks, Is(t, Executing)' PROVE Answered(t)'
  BY ExecutingByWorker
<1>1. CASE t = w[1]
  BY <1>1 DEF Answered
<1>2. CASE t # w[1]
  <2>1. Is(t, Executing)
    BY <1>2 DEF Is
  <2>2. Answered(t)
    BY <2>1, ExecutingByWorker
  <2>3. ASSUME NEW v \in Workers, v[1] = t, AnswersFor(v) PROVE AnswersFor(v)'
    BY <1>2, <2>3 DEF AnswersFor, Is
  <2> QED
    BY <1>2, <2>2, <2>3 DEF Answered
<1> QED
  BY <1>1, <1>2

\* Steps that change a status only while a worker keeps its place.
LEMMA HandlerAnswers ==
  ASSUME TypeOK, ExecutingIsKept, NEW t \in Tasks, Controls(t) \/ StoreItems(t) \/ StoreItemsFails(t)
  PROVE  ExecutingIsKept'
<1>1. UNCHANGED << pc, stopSeen >> /\ orphaned \subseteq orphaned'
  BY DEF Controls, CreateTask, PauseTask, CancelTask, ResumeTask, RetryTask, ConfirmTask, DecideTask,
     DeleteTask, StoreItems, StoreItemsFails, workerVars
<1>2. \A u \in Tasks : u # t => status'[u] = status[u]
  <2>1. status' = status \/ \E s : Become(t, s)
    BY DEF Controls, CreateTask, PauseTask, CancelTask, ResumeTask, RetryTask, ConfirmTask, DecideTask,
       DeleteTask, StoreItems, StoreItemsFails, taskVars
  <2> QED
    BY <2>1, BecomeMoves
<1>3. Is(t, Executing)' =>
        t \in orphaned' \/ (Is(t, Executing) /\ (status'[t] = status[t] \/ Is(t, StopRequested)'))
  <2>1. CASE PauseTask(t)
    <3>1. Is(t, Pausable) /\ status'[t] = PauseTarget(status[t])
      BY <2>1, BecomeMoves DEF PauseTask
    <3> QED
      BY <3>1 DEF PauseTarget, Pausable, Is, Executing, StopRequested
  <2>2. CASE CancelTask(t)
    <3>1. Is(t, Cancellable) /\ status'[t] = CancelTarget(status[t])
      BY <2>2, BecomeMoves DEF CancelTask
    <3> QED
      BY <3>1 DEF CancelTarget, Cancellable, Is, Executing, StopRequested
  <2>3. CASE CreateTask(t) \/ ResumeTask(t) \/ RetryTask(t) \/ ConfirmTask(t) \/ DeleteTask(t)
    <3>1. status'[t] \in { "queued", "absent" }
      BY <2>3, BecomeMoves DEF CreateTask, ResumeTask, RetryTask, ConfirmTask, DeleteTask
    <3> QED
      BY <3>1 DEF Is, Executing, StopRequested
  <2>4. CASE DecideTask(t)
    BY <2>4 DEF DecideTask
  <2>5. CASE StoreItems(t)
    BY <2>5 DEF StoreItems, taskVars, Is
  <2>6. CASE StoreItemsFails(t)
    <3>1. status' = status \/ status'[t] = "failed"
      BY <2>6, BecomeMoves DEF StoreItemsFails
    <3> QED
      BY <3>1 DEF Is, Executing, StopRequested
  <2> QED
    BY <2>1, <2>2, <2>3, <2>4, <2>5, <2>6 DEF Controls
<1> SUFFICES ASSUME NEW u \in Tasks, Is(u, Executing)' PROVE Answered(u)'
  BY ExecutingByWorker
<1>4. CASE u \in orphaned'
  BY <1>4 DEF Answered
<1>5. CASE u \notin orphaned'
  <2>1. Is(u, Executing) /\ (status'[u] = status[u] \/ Is(u, StopRequested)')
    BY <1>2, <1>3, <1>5 DEF Is
  <2>2. Answered(u)
    BY <2>1, ExecutingByWorker
  <2>3. ASSUME NEW v \in Workers, v[1] = u, AnswersFor(v) PROVE AnswersFor(v)'
    BY <1>1, <2>1, <2>3 DEF AnswersFor, Is
  <2> QED
    BY <1>1, <1>5, <2>2, <2>3 DEF Answered
<1> QED
  BY <1>4, <1>5

\* A worker on its way to the task body, or through it.
LEMMA PrepareAnswers ==
  ASSUME TypeOK, OneWorker, ExecutingIsKept, NEW w \in Workers, Prepares(w) \/ TakesSlot(w)
  PROVE  ExecutingIsKept'
<1> DEFINE t == w[1]
<1>a. t \in Tasks
  BY WorkerParts
<1>1. CASE StartForRoot(w)
  <2>1. /\ \A v \in Workers : v # w => pc'[v] = pc[v]
        /\ pc'[w] = "rootfailed" /\ stopSeen' = stopSeen /\ orphaned' = orphaned
        /\ \A u \in Tasks : u # t => status'[u] = status[u]
    BY <1>a, <1>1, GotoMoves, BecomeMoves DEF StartForRoot
  <2> QED
    BY <2>1, WorkerAnswers DEF AnswersFor
<1>2. CASE FailForRoot(w)
  <2>1. /\ \A v \in Workers : v # w => pc'[v] = pc[v]
        /\ stopSeen' = stopSeen /\ orphaned \subseteq orphaned'
        /\ \A u \in Tasks : u # t => status'[u] = status[u]
    BY <1>a, <1>2, GotoMoves, BecomeMoves DEF FailForRoot
  <2>2. Is(t, Executing)' => t \in orphaned'
    <3>1. CASE Is(t, Failable)
      <4>1. status'[t] = "failed"
        BY <1>a, <1>2, <3>1, BecomeMoves DEF FailForRoot
      <4> QED
        BY <4>1 DEF Is, Executing, StopRequested
    <3>2. CASE ~ Is(t, Failable)
      <4>1. status' = status /\ (Is(t, StopRequested) => t \in orphaned')
        BY <1>2, <3>2 DEF FailForRoot
      <4> QED
        BY <3>2, <4>1 DEF Is, Executing, Failable
    <3> QED
      BY <3>1, <3>2
  <2> QED
    BY <2>1, <2>2, WorkerAnswers
<1>3. CASE StartBody(w)
  <2>1. /\ \A v \in Workers : v # w => pc'[v] = pc[v]
        /\ pc'[w] \in { "body", "failing" } /\ stopSeen' = stopSeen \ { w }
        /\ orphaned \ { t } \subseteq orphaned'
        /\ \A u \in Tasks : u # t => status'[u] = status[u]
    BY <1>a, <1>3, GotoMoves, BecomeMoves DEF StartBody
  <2> QED
    BY <2>1, WorkerAnswers DEF AnswersFor, Executes
<1>4. CASE Drop(w)
  <2>1. /\ \A v \in Workers : v # w => pc'[v] = pc[v]
        /\ pc[w] = "dropping" /\ UNCHANGED << status, stopSeen, orphaned >>
    BY <1>4, GotoMoves DEF Drop, taskVars
  <2>2. ASSUME NEW v \in Workers, AnswersFor(v) PROVE AnswersFor(v)'
    BY <2>1, <2>2 DEF AnswersFor, Executes, Is
  <2> QED
    BY <2>1, <2>2, ExecutingByWorker DEF Answered, Is
<1>5. CASE ~ (StartForRoot(w) \/ FailForRoot(w) \/ StartBody(w) \/ Drop(w))
  <2>1. \E label : Goto(w, label)
    BY <1>5 DEF Prepares, DrawTicket, Subscribe, EnterRoot, RootLookupFails, RootGranted, RootWaitStops,
       TryGpus, GpuCheckStops, GpuWake, Leave, TakesSlot, TakeClassSlot, TakeWorkerSlot
  <2>2. /\ pc[w] \in (Preparing \cup { "leaving" }) \ { "rootfailed" }
        /\ UNCHANGED << status, stopSeen >> /\ orphaned \subseteq orphaned'
    BY <1>5 DEF Prepares, DrawTicket, Subscribe, EnterRoot, RootLookupFails, RootGranted, RootWaitStops,
       TryGpus, GpuCheckStops, GpuWake, Leave, TakesSlot, TakeClassSlot, TakeWorkerSlot, taskVars, Preparing
  <2>3. Lives(w) /\ ~ AnswersFor(w)
    BY <2>2 DEF Lives, AnswersFor, Preparing, Executes
  <2>4. Is(t, Executing)' => t \in orphaned'
    BY <2>2, <2>3, AnswererIsTheWorker DEF Is
  <2> QED
    BY <2>1, <2>2, <2>4, GotoMoves, WorkerAnswers
<1> QED
  BY <1>1, <1>2, <1>3, <1>4, <1>5

\* Within the body, and when it settles.
LEMMA BodyAnswers ==
  ASSUME TypeOK, OneWorker, ExecutingIsKept, NEW w \in Workers,
         Results(w) \/ NoticeStop(w) \/ BodyStops(w) \/ ReportRestarts(w)
  PROVE  ExecutingIsKept'
<1> DEFINE t == w[1]
<1>a. t \in Tasks
  BY WorkerParts
<1>1. CASE BodyEnds(w) \/ ApplyTool(w)
  <2>1. /\ \A v \in Workers : v # w => pc'[v] = pc[v]
        /\ pc'[w] \in { "applying", "completing", "failing" }
        /\ UNCHANGED << status, stopSeen, orphaned >>
    BY <1>1, GotoMoves DEF BodyEnds, ApplyTool, taskVars
  <2> QED
    BY <2>1, WorkerAnswers DEF AnswersFor, Executes
<1>2. CASE PlanTool(w)
  <2>1. /\ \A v \in Workers : v # w => pc'[v] = pc[v]
        /\ UNCHANGED << stopSeen, orphaned >>
        /\ \A u \in Tasks : u # t => status'[u] = status[u]
        /\ status'[t] = "awaiting_confirmation" \/ pc'[w] = "failing"
    BY <1>a, <1>2, GotoMoves, BecomeMoves DEF PlanTool
  <2> QED
    BY <2>1, WorkerAnswers DEF AnswersFor, Is, Executing, StopRequested
<1>3. CASE NoticeStop(w) \/ ReportRestarts(w)
  <2>1. /\ pc' = pc /\ pc[w] = "body" /\ orphaned' = orphaned
        /\ stopSeen' = stopSeen \/ stopSeen' = stopSeen \cup { w }
        /\ \A u \in Tasks : u # t => status'[u] = status[u]
    BY <1>a, <1>3, BecomeMoves DEF NoticeStop, ReportRestarts, workerVars, taskVars
  <2> QED
    BY <2>1, WorkerAnswers DEF AnswersFor, Executes
<1>4. CASE BodyStops(w)
  <2>1. /\ \A v \in Workers : v # w => pc'[v] = pc[v]
        /\ pc'[w] = "acking" /\ w \in stopSeen'
        /\ UNCHANGED << status, stopSeen, orphaned >>
    BY <1>4, GotoMoves DEF BodyStops, taskVars
  <2> QED
    BY <2>1, WorkerAnswers DEF AnswersFor
<1> QED
  BY <1>1, <1>2, <1>3, <1>4 DEF Results

\* A worker settles its own task: it executes no more.
LEMMA SettleAnswers ==
  ASSUME TypeOK, OneWorker, ExecutingIsKept, NEW w \in Workers, Settles(w)
  PROVE  ExecutingIsKept'
<1> DEFINE t == w[1]
<1>a. t \in Tasks
  BY WorkerParts
<1>b. Lives(w)
  BY DEF Settles, SettleComplete, SettleFail, RecordFailure, Acknowledge, ReleaseAll, EndWorker, Lives
<1>c. Is(t, Executing) => t \in orphaned \/ AnswersFor(w)
  BY <1>b, AnswererIsTheWorker
<1>1. CASE SettleComplete(w) \/ SettleFail(w) \/ RecordFailure(w)
  <2>1. /\ \A v \in Workers : v # w => pc'[v] = pc[v]
        /\ \A u \in Tasks : u # t => status'[u] = status[u]
        /\ UNCHANGED << stopSeen, orphaned >>
    BY <1>a, <1>1, GotoMoves, BecomeMoves DEF SettleComplete, SettleFail, RecordFailure, taskVars
  <2>2. \/ pc'[w] = "recording"
        \/ /\ pc'[w] = "acking"
           /\ \/ status'[t] \in { "completed", "failed" }
              \/ status'[t] = status[t] /\ ~ Is(t, { "running" })
    BY <1>a, <1>1, GotoMoves, BecomeMoves
       DEF SettleComplete, SettleFail, RecordFailure, taskVars, Is, Failable
  <2>3. Is(t, Executing)' => AnswersFor(w)'
    BY <2>2 DEF AnswersFor, Is, Executing, StopRequested
  <2> QED
    BY <2>1, <2>3, WorkerAnswers
<1>2. CASE Acknowledge(w)
  <2>1. /\ \A v \in Workers : v # w => pc'[v] = pc[v]
        /\ pc[w] = "acking" /\ pc'[w] = "releasing" /\ UNCHANGED << stopSeen, orphaned >>
        /\ \A u \in Tasks : u # t => status'[u] = status[u]
        /\ status'[t] \in { "paused", "cancelled" } \/ (status'[t] = status[t] /\ ~ Is(t, StopRequested))
    BY <1>a, <1>2, GotoMoves, BecomeMoves DEF Acknowledge, AckTarget
  <2>2. Is(t, Executing)' => Is(t, Executing) /\ ~ Is(t, StopRequested)
    BY <2>1 DEF Is, Executing, StopRequested
  <2>3. Is(t, Executing)' => t \in orphaned' \/ AnswersFor(w)'
    BY <1>c, <2>1, <2>2 DEF AnswersFor, Executes
  <2> QED
    BY <2>1, <2>3, WorkerAnswers
<1>3. CASE ReleaseAll(w)
  <2>1. /\ \A v \in Workers : v # w => pc'[v] = pc[v]
        /\ pc[w] = "releasing" /\ pc'[w] = "ending" /\ UNCHANGED << status, stopSeen, orphaned >>
    BY <1>3, GotoMoves DEF ReleaseAll, taskVars
  <2>2. Is(t, Executing)' => t \in orphaned' \/ AnswersFor(w)'
    BY <1>c, <2>1 DEF AnswersFor, Executes, Is
  <2> QED
    BY <2>1, <2>2, WorkerAnswers
<1>4. CASE EndWorker(w)
  <2>1. /\ \A v \in Workers : v # w => pc'[v] = pc[v]
        /\ pc[w] = "ending" /\ status' = status /\ stopSeen' = stopSeen \ { w }
        /\ orphaned \subseteq orphaned'
        /\ Is(t, { "queued" }) \/ (Is(t, Executing) /\ w \in stopSeen => t \in orphaned')
    BY <1>4, GotoMoves DEF EndWorker, taskVars
  <2>2. Is(t, Executing)' => t \in orphaned'
    BY <1>c, <2>1 DEF AnswersFor, Executes, Is, Executing, StopRequested
  <2> QED
    BY <2>1, <2>2, WorkerAnswers
<1> QED
  BY <1>1, <1>2, <1>3, <1>4 DEF Settles

\* A worker that is spawned answers for nothing yet.
LEMMA SpawnAnswers ==
  ASSUME TypeOK, ExecutingIsKept, NEW t \in Tasks, SpawnWorker(t)
  PROVE  ExecutingIsKept'
<1>1. UNCHANGED << status, stopSeen, orphaned >>
  BY DEF SpawnWorker, taskVars
<1>2. ASSUME NEW v \in Workers, AnswersFor(v) PROVE AnswersFor(v)'
  <2>1. CASE t \in active
    BY <1>1, <1>2, <2>1 DEF SpawnWorker, AnswersFor, Is
  <2>2. CASE t \notin active
    <3>1. PICK w \in Workers : pc[w] = "none" /\ Goto(w, "spawned")
      BY <2>2, SpawnTakesSeat
    <3>2. v # w
      BY <1>2, <3>1 DEF AnswersFor, Executes
    <3> QED
      BY <1>1, <1>2, <3>1, <3>2, GotoMoves DEF AnswersFor, Is
  <2> QED
    BY <2>1, <2>2
<1> QED
  BY <1>1, <1>2, ExecutingByWorker DEF Answered, Is

\* No step leaves an executing task without a worker that answers for it.
LEMMA ExecutingStaysKept ==
  ASSUME TypeOK, OneWorker, ExecutingIsKept, [Next]_vars
  PROVE  ExecutingIsKept'
<1>1. CASE Restart
  <2>1. \A t \in Tasks : ~ Is(t, Executing)'
    BY <1>1, RestartStatus DEF Is, Executing, StopRequested
  <2> QED
    BY <2>1, ExecutingByWorker
<1>2. CASE UNCHANGED vars
  BY <1>2 DEF vars, taskVars, workerVars, ExecutingIsKept, AnswersFor, Is
<1> QED
  BY <1>1, <1>2, HandlerAnswers, PrepareAnswers, BodyAnswers, SettleAnswers, SpawnAnswers DEF Next, Handles

-----------------------------------------------------------------------------
(* No worker sleeps on the leases for nothing.                              *)

\* A step concerns the leases in one of these ways.
LeaseMove ==
  \/ UNCHANGED leaseVars
  \/ NotifyWaiters(Subscribers(pc))
  \/ \E w \in Workers : pc[w] = "spawned" /\ RegisterWaiting(w[1])
  \/ \E w \in Workers : pc[w] = "gpu" /\ Acquire(w[1])
  \/ \E w \in Workers, S \in SUBSET Tasks :
       /\ pc[w] \in { "leaving", "releasing" }
       /\ Release(w[1], S)
       /\ \A v \in Workers : pc[v] = "gpuwait" /\ Request[v[1]] # {} => v[1] \in S
  \/ \E w \in Workers :
       /\ pc[w] \in { "fresh", "gpuwait" } /\ pc'[w] = "top"
       /\ woken' = woken \ { w[1] } /\ UNCHANGED << held, waiting, earlier >>

\* Every step but a restart concerns the leases in one of these ways.
LEMMA LeasesMove ==
  ASSUME TypeOK, [Next]_vars, ~ Restart
  PROVE  LeaseMove
<1>1. ASSUME NEW t \in Tasks, Controls(t) \/ Handles(t) PROVE LeaseMove
  BY <1>1 DEF Controls, CreateTask, PauseTask, CancelTask, ResumeTask, RetryTask, ConfirmTask, DecideTask,
     DeleteTask, Handles, StoreItems, StoreItemsFails, SpawnWorker, LeaseMove
<1>2. ASSUME NEW w \in Workers, DrawTicket(w) PROVE LeaseMove
  BY <1>2 DEF DrawTicket, LeaseMove
<1>3. ASSUME NEW w \in Workers, Subscribe(w) \/ GpuWake(w) PROVE LeaseMove
  <2>1. /\ pc[w] \in { "fresh", "gpuwait" } /\ Goto(w, "top")
        /\ woken' = woken \ { w[1] } /\ UNCHANGED << held, waiting, earlier >>
    BY <1>3 DEF Subscribe, GpuWake
  <2> QED
    BY <2>1, GotoMoves DEF LeaseMove
<1>4. ASSUME NEW w \in Workers, TryGpus(w) PROVE LeaseMove
  BY <1>4 DEF TryGpus, LeaseMove
<1>5. ASSUME NEW w \in Workers, Leave(w) PROVE LeaseMove
  <2> DEFINE S == Subscribers([ pc EXCEPT ![w] = "dropping" ])
  <2>1. S \in SUBSET Tasks /\ pc[w] = "leaving" /\ Release(w[1], S)
    BY <1>5 DEF Leave, Subscribers
  <2>2. ASSUME NEW v \in Workers, pc[v] = "gpuwait", Request[v[1]] # {} PROVE v[1] \in S
    <3>1. v # w /\ [ pc EXCEPT ![w] = "dropping" ][v] = "gpuwait"
      BY <2>1, <2>2 DEF TypeOK
    <3>2. [ pc EXCEPT ![w] = "dropping" ][v[1], v[2]] = "gpuwait"
      <4>1. v = << v[1], v[2] >>
        BY WorkerParts
      <4> DEFINE place == [ pc EXCEPT ![w] = "dropping" ]
      <4>2. place[v] = "gpuwait"
        BY <3>1
      <4> HIDE DEF place
      <4>3. place[<< v[1], v[2] >>] = "gpuwait"
        BY <4>1, <4>2
      <4> QED
        BY <4>3 DEF place
    <3> QED
      BY <2>2, <3>2, WorkerParts DEF Subscribers
  <2> HIDE DEF S
  <2> QED
    BY <2>1, <2>2 DEF LeaseMove
<1>6. ASSUME NEW w \in Workers, ReleaseAll(w) PROVE LeaseMove
  <2>1. CASE Request[w[1]] = {}
    BY <1>6, <2>1 DEF ReleaseAll, LeaseMove
  <2>2. CASE Request[w[1]] # {}
    <3> DEFINE S == Subscribers(pc)
    <3>1. S \in SUBSET Tasks /\ pc[w] = "releasing" /\ Release(w[1], S)
      BY <1>6, <2>2 DEF ReleaseAll, Subscribers
    <3>2. ASSUME NEW v \in Workers, pc[v] = "gpuwait", Request[v[1]] # {} PROVE v[1] \in S
      BY <3>2, WorkerParts DEF Subscribers
    <3> HIDE DEF S
    <3> QED
      BY <3>1, <3>2 DEF LeaseMove
  <2> QED
    BY <2>1, <2>2
<1>7. ASSUME NEW w \in Workers,
             \/ EnterRoot(w) \/ RootLookupFails(w) \/ StartForRoot(w) \/ FailForRoot(w)
             \/ RootGranted(w) \/ RootWaitStops(w) \/ GpuCheckStops(w) \/ Drop(w) \/ StartBody(w)
             \/ TakesSlot(w) \/ Results(w) \/ NoticeStop(w) \/ BodyStops(w) \/ ReportRestarts(w)
             \/ SettleComplete(w) \/ SettleFail(w) \/ RecordFailure(w) \/ Acknowledge(w) \/ EndWorker(w)
      PROVE  LeaseMove
  BY <1>7 DEF EnterRoot, RootLookupFails, StartForRoot, FailForRoot, RootGranted, RootWaitStops,
     GpuCheckStops, Drop, StartBody, TakesSlot, TakeClassSlot, TakeWorkerSlot, Results, BodyEnds, PlanTool,
     ApplyTool, NoticeStop, BodyStops, ReportRestarts, SettleComplete, SettleFail, RecordFailure,
     Acknowledge, EndWorker, LeaseMove
<1>8. CASE UNCHANGED vars
  BY <1>8 DEF vars, LeaseMove
<1> QED
  BY <1>1, <1>2, <1>3, <1>4, <1>5, <1>6, <1>7, <1>8 DEF Next, Prepares, Settles

\* The only step that puts a worker to sleep.
LEMMA SleepStarts ==
  ASSUME TypeOK, [Next]_vars, NEW w \in Workers, (pc[w] = "gpuwait")', pc[w] # "gpuwait"
  PROVE  ~ CanAcquire(w[1]) /\ Is(w[1], { "queued" }) /\ UNCHANGED << status, leaseVars >>
<1>1. ASSUME NEW v \in Workers, NEW label, Goto(v, label), label # "gpuwait" PROVE FALSE
  BY <1>1, GotoMoves
<1>2. pc' # pc
  OBVIOUS
<1>3. ASSUME NEW t \in Tasks, Controls(t) \/ Handles(t) PROVE FALSE
  <2>1. pc' = pc \/ (SpawnWorker(t) /\ t \notin active)
    BY <1>3 DEF Controls, CreateTask, PauseTask, CancelTask, ResumeTask, RetryTask, ConfirmTask, DecideTask,
       DeleteTask, Handles, StoreItems, StoreItemsFails, SpawnWorker, workerVars
  <2> QED
    BY <1>1, <1>2, <2>1, SpawnTakesSeat
<1>4. ASSUME NEW v \in Workers, Prepares(v) \/ TakesSlot(v), ~ TryGpus(v) PROVE FALSE
  BY <1>1, <1>4 DEF Prepares, DrawTicket, Subscribe, EnterRoot, RootLookupFails, StartForRoot, FailForRoot,
     RootGranted, RootWaitStops, GpuCheckStops, GpuWake, Leave, Drop, StartBody, TakesSlot,
     TakeClassSlot, TakeWorkerSlot
<1>5. ASSUME NEW v \in Workers,
             Results(v) \/ Settles(v) \/ NoticeStop(v) \/ BodyStops(v) \/ ReportRestarts(v)
      PROVE  FALSE
  BY <1>1, <1>2, <1>5 DEF Results, BodyEnds, PlanTool, ApplyTool, Settles, SettleComplete, SettleFail,
     RecordFailure,
     Acknowledge, ReleaseAll, EndWorker, NoticeStop, BodyStops, ReportRestarts, workerVars
<1>6. ASSUME NEW v \in Workers, TryGpus(v)
      PROVE  ~ CanAcquire(w[1]) /\ Is(w[1], { "queued" }) /\ UNCHANGED << status, leaseVars >>
  <2>1. v = w /\ Goto(v, "gpuwait")
    BY <1>1, <1>6, GotoMoves DEF TryGpus
  <2>2. pc'[w] = "gpuwait"
    OBVIOUS
  <2>3. ~ Goto(v, "resource")
    BY <2>1, <2>2, GotoMoves
  <2> QED
    BY <1>6, <2>1, <2>3 DEF TryGpus, taskVars
<1>7. ~ Restart
  BY DEF Restart
<1>8. ~ UNCHANGED vars
  BY <1>2 DEF vars, workerVars
<1> QED
  BY <1>3, <1>4, <1>5, <1>6, <1>7, <1>8 DEF Next

\* Only requests can be refused: whoever sleeps asked for some GPU.
SleeperAsks == \A w \in Workers : pc[w] = "gpuwait" => Request[w[1]] # {}

\* Who goes to sleep asked for some GPU.
LEMMA SleeperStillAsks ==
  ASSUME TypeOK, SleeperAsks, [Next]_vars
  PROVE  SleeperAsks'
<1> SUFFICES ASSUME NEW w \in Workers, (pc[w] = "gpuwait")' PROVE Request[w[1]] # {}
  BY DEF SleeperAsks
<1>1. CASE pc[w] = "gpuwait"
  BY <1>1 DEF SleeperAsks
<1>2. CASE pc[w] # "gpuwait"
  BY <1>2, SleepStarts DEF CanAcquire, GpusFree, NobodyAhead, Conflict
<1> QED
  BY <1>1, <1>2

\* SleeperIsBlocked, said of workers.
LEMMA SleepersByWorker ==
  /\ SleeperIsBlocked <=>
       \A w \in Workers : pc[w] = "gpuwait" /\ w[1] \notin woken =>
         ~ CanAcquire(w[1]) /\ Is(w[1], { "queued", "failed", "absent" })
  /\ SleeperIsBlocked' <=>
       \A w \in Workers : (pc[w] = "gpuwait")' /\ w[1] \notin woken' =>
         ~ CanAcquire(w[1])' /\ Is(w[1], { "queued", "failed", "absent" })'
<1> DEFINE Blocked(t) == ~ CanAcquire(t) /\ Is(t, { "queued", "failed", "absent" })
<1>1. SleeperIsBlocked <=>
        \A t \in Tasks, i \in Seats : pc[<< t, i >>] = "gpuwait" /\ t \notin woken => Blocked(t)
  BY DEF SleeperIsBlocked
<1>2. SleeperIsBlocked' <=>
        \A t \in Tasks, i \in Seats : pc'[<< t, i >>] = "gpuwait" /\ t \notin woken' => Blocked(t)'
  BY DEF SleeperIsBlocked
<1> HIDE DEF Blocked
<1>3. SleeperIsBlocked <=>
        \A w \in Workers : pc[w] = "gpuwait" /\ w[1] \notin woken => Blocked(w[1])
  BY <1>1, WorkerParts
<1>4. SleeperIsBlocked' <=>
        \A w \in Workers : pc'[w] = "gpuwait" /\ w[1] \notin woken' => Blocked(w[1])'
  BY <1>2, WorkerParts
<1> QED
  BY <1>3, <1>4 DEF Blocked

\* A worker that sleeps on is told of every change that matters to it, and no
\* other worker of its task takes the news away.
LEMMA SleepersStayBlocked ==
  ASSUME TypeOK, OneWorker, SleeperAsks, SleeperIsBlocked, [Next]_vars
  PROVE  SleeperIsBlocked'
<1> SUFFICES ASSUME NEW w \in Workers, (pc[w] = "gpuwait")', w[1] \notin woken'
             PROVE  ~ CanAcquire(w[1])' /\ Is(w[1], { "queued", "failed", "absent" })'
  BY SleepersByWorker
<1> DEFINE t == w[1]
<1>a. t \in Tasks /\ LeaseTypeOK
  BY WorkerParts DEF TypeOK
<1>b. ~ Restart
  BY DEF Restart
<1>1. CASE pc[w] # "gpuwait"
  <2>1. ~ CanAcquire(t) /\ Is(t, { "queued" }) /\ UNCHANGED << status, leaseVars >>
    BY <1>1, SleepStarts
  <2>2. ~ CanAcquire(t)'
    BY <1>a, <2>1, StillBlocked DEF leaseVars, Ahead
  <2> QED
    BY <2>1, <2>2 DEF Is
<1>2. CASE pc[w] = "gpuwait"
  <2>1. Request[t] # {} /\ t \in Subscribers(pc)
    BY <1>2, <1>a, WorkerParts DEF SleeperAsks, Subscribers
  <2>2. \A v \in Workers : v[1] = t /\ Lives(v) => v = w
    BY <1>2 DEF OneWorker, Lives
  <2>3. ~ NotifyWaiters(Subscribers(pc))
    BY <2>1 DEF NotifyWaiters
  <2>4. ASSUME NEW v \in Workers, pc[v] \in { "fresh", "gpuwait" }, pc'[v] = "top", v[1] = t PROVE FALSE
    BY <2>2, <2>4 DEF Lives
  <2>5. t \notin woken
    <3>1. ASSUME NEW v \in Workers, NEW S \in SUBSET Tasks, Release(v[1], S),
                 \A u \in Workers : pc[u] = "gpuwait" /\ Request[u[1]] # {} => u[1] \in S
          PROVE  t \notin woken
      BY <1>2, <2>1, <3>1 DEF Release
    <3>2. LeaseMove
      BY <1>b, LeasesMove
    <3> QED
      BY <2>3, <2>4, <3>1, <3>2 DEF LeaseMove, leaseVars, RegisterWaiting, Acquire
  <2>6. ~ CanAcquire(t) /\ Is(t, { "queued", "failed", "absent" })
    BY <1>2, <2>5, SleepersByWorker
  <2>7. ~ CanAcquire(t)'
    <3>1. CASE held' = held /\ waiting' = waiting /\ earlier' = earlier
      BY <1>a, <2>6, <3>1, StillBlocked DEF Ahead
    <3>2. ASSUME NEW v \in Workers, pc[v] = "spawned" /\ RegisterWaiting(v[1]) PROVE ~ CanAcquire(t)'
      <4>1. v[1] # t /\ v[1] \in Tasks
        BY <1>2, <2>2, <3>2, WorkerParts DEF Lives
      <4> QED
        BY <1>a, <2>6, <3>2, <4>1, RegisterKeepsBlocked
    <3>3. ASSUME NEW v \in Workers, pc[v] = "gpu" /\ Acquire(v[1]) PROVE ~ CanAcquire(t)'
      <4>1. v[1] # t /\ v[1] \in Tasks
        BY <1>2, <2>2, <3>3, WorkerParts DEF Lives
      <4> QED
        BY <1>a, <2>6, <3>3, <4>1, AcquireKeepsBlocked
    <3>4. ASSUME NEW v \in Workers, NEW S \in SUBSET Tasks, Release(v[1], S),
                 \A u \in Workers : pc[u] = "gpuwait" /\ Request[u[1]] # {} => u[1] \in S
          PROVE  ~ CanAcquire(t)'
      <4>1. t \in S /\ v[1] \in Tasks
        BY <1>2, <2>1, <3>4, WorkerParts
      <4> QED
        BY <1>a, <2>6, <3>4, <4>1, ReleaseWakesOrKeeps
    <3>5. LeaseMove
      BY <1>b, LeasesMove
    <3> QED
      BY <2>3, <3>1, <3>2, <3>3, <3>4, <3>5 DEF LeaseMove, leaseVars
  <2>8. Is(t, { "queued", "failed", "absent" })'
    <3>1. CASE status'[t] = status[t]
      BY <2>6, <3>1 DEF Is
    <3>2. CASE status'[t] # status[t]
      <4>1. PICK u \in Tasks : StatusMove(u)
        BY <1>b, <3>2, OneStatusMoves
      <4>2. u = t
        BY <1>a, <3>2, <4>1, BecomeMoves DEF StatusMove
      <4>3. \A v \in Workers : v[1] = t => pc[v] \notin { "rootlost", "starting", "body" }
        BY <1>2, <2>2 DEF Lives
      <4>4. \E s \in { "queued", "failed", "absent" } : Become(t, s)
        BY <2>3, <2>6, <4>1, <4>2, <4>3
           DEF StatusMove, CreateTask, Is, Pausable, Cancellable, Resumable, TerminalStatuses, Failable,
               StopRequested
      <4> QED
        BY <1>a, <4>4, BecomeMoves DEF Is
    <3> QED
      BY <3>1, <3>2
  <2> QED
    BY <2>7, <2>8
<1> QED
  BY <1>1, <1>2

-----------------------------------------------------------------------------
(* The theorems.                                                            *)

\* The inductive invariant.
IInv ==
  /\ TypeOK
  /\ OneWorker
  /\ RootQueue
  /\ RootIsOwned
  /\ LeasesMatchWorkers
  /\ QueuedIsKept
  /\ ExecutingIsKept
  /\ CreatedOnRecord
  /\ PlansAtRest
  /\ AppliedWereConfirmed
  /\ SleeperAsks
  /\ SleeperIsBlocked

\* The invariant holds when the process starts for the first time.
LEMMA InitInv == Init => IInv
<1> SUFFICES ASSUME Init PROVE IInv
  OBVIOUS
<1>1. rootQ = << >> /\ \A S : rootQ \in Seq(S)
  BY EmptySeq DEF Init
<1>2. TypeOK
  BY <1>1, TaskWorkersAssumption, GpuLeasesAssumption DEF Init, LeaseInit, TypeOK, LeaseTypeOK, PCs
<1>3. \A w \in Workers : pc[w] = "none"
  BY DEF Init
<1>4. \A w \in Workers : ~ Lives(w) /\ ~ UsesGpus(w) /\ ~ PastRoot(w)
  BY <1>3 DEF Lives, UsesGpus, PastRoot, Executes
<1>5. OneWorker
  BY <1>4, WorkerParts DEF Init, OneWorker
<1>6. RootQueue /\ RootIsOwned
  BY <1>1, <1>4 DEF RootQueue, RootIsOwned
<1>7. LeasesMatchWorkers
  BY <1>4, LeasesByWorker, GpuLeasesAssumption DEF Init, LeaseInit
<1>8. \A t \in Tasks : Is(t, { "absent" }) /\ ~ Is(t, { "queued" }) /\ ~ Is(t, Executing)
  BY DEF Init, Is, Executing, StopRequested
<1>9. QueuedIsKept /\ ExecutingIsKept /\ CreatedOnRecord
  BY <1>8 DEF QueuedIsKept, ExecutingIsKept, CreatedOnRecord
<1>10. PlansAtRest /\ AppliedWereConfirmed
  BY <1>3 DEF Init, PlansAtRest, AppliedWereConfirmed
<1>11. SleeperAsks /\ SleeperIsBlocked
  BY <1>3, SleepersByWorker DEF SleeperAsks
<1> QED
  BY <1>2, <1>5, <1>6, <1>7, <1>9, <1>10, <1>11 DEF IInv

\* Every step keeps it.
LEMMA NextInv == IInv /\ [Next]_vars => IInv'
<1> SUFFICES ASSUME IInv, [Next]_vars PROVE IInv'
  OBVIOUS
<1> USE DEF IInv
<1>1. RootSafe
  BY QueueOfWorkers DEF RootSafe
<1>2. RootSafe'
  BY <1>1, RootStays
<1>3. (rootQ \in Seq({ w \in Workers : pc[w] # "none" }))'
  BY <1>2, SafeQueueIsTyped
<1>4. TypeOK'
  BY <1>3, TypesStay DEF Typed, TypeOK
<1>5. RootQueue' /\ RootIsOwned'
  BY <1>2 DEF RootSafe
<1>6. OneWorker' /\ LeasesMatchWorkers'
  BY OneWorkerStays, LeasesStay
<1>7. QueuedIsKept' /\ ExecutingIsKept'
  BY QueuedStaysKept, ExecutingStaysKept
<1>8. CreatedOnRecord' /\ PlansAtRest' /\ AppliedWereConfirmed'
  BY CreatedStays, PlansStayAtRest, AppliedStayConfirmed
<1>9. SleeperAsks' /\ SleeperIsBlocked'
  BY SleeperStillAsks, SleepersStayBlocked
<1> QED
  BY <1>4, <1>5, <1>6, <1>7, <1>8, <1>9

\* The inductive invariant of the workers holds, whatever users do to the
\* tasks, in whatever order the workers go on, wherever the process dies.
THEOREM InvariantHolds == Spec => []IInv
<1> QED
  BY InitInv, NextInv, PTL DEF Spec

\* The variables have their types; in particular no worker that is gone is
\* left in the queue of the root's lock.
THEOREM TypeCorrect == Spec => []TypeOK
<1>1. IInv => TypeOK
  BY DEF IInv
<1> QED
  BY <1>1, InvariantHolds, PTL

\* No two workers execute the same task, two tasks of one media root, or two
\* tasks that share a GPU: the active set, the root's lock and the lease table
\* see to one each.
THEOREM BodiesAreExclusive == Spec => []BodiesExclusive
<1>1. IInv => BodiesExclusive
  <2> SUFFICES ASSUME IInv, NEW v \in Workers, NEW w \in Workers, InBody(v), InBody(w), v # w
               PROVE  /\ v[1] # w[1]
                      /\ ~ (NeedsRoot(v[1]) /\ NeedsRoot(w[1]))
                      /\ ~ Conflict(v[1], w[1])
    BY DEF BodiesExclusive
  <2>1. Lives(v) /\ Lives(w) /\ PastRoot(v) /\ PastRoot(w) /\ UsesGpus(v) /\ UsesGpus(w)
    BY DEF InBody, Lives, PastRoot, UsesGpus, Executes
  <2>2. v[1] # w[1]
    BY <2>1 DEF IInv, OneWorker
  <2>3. ~ (NeedsRoot(v[1]) /\ NeedsRoot(w[1]))
    BY <2>1 DEF IInv, RootIsOwned, RootOwner
  <2>4. ~ Conflict(v[1], w[1])
    <3> SUFFICES ASSUME NEW g \in Request[v[1]], g \in Request[w[1]] PROVE FALSE
      BY DEF Conflict
    <3>1. v[1] \in Tasks /\ w[1] \in Tasks /\ g \in Gpus
      BY WorkerParts, GpuLeasesAssumption
    <3>2. held[g] = v[1] /\ held[g] = w[1]
      BY <2>1, <3>1, LeasesByWorker DEF IInv
    <3> QED
      BY <2>2, <3>2
  <2> QED
    BY <2>2, <2>3, <2>4
<1> QED
  BY <1>1, InvariantHolds, PTL

\* A task is in the active set exactly while it has a worker that has not left,
\* and it never has two.
THEOREM ActiveAlwaysOneWorker == Spec => []ActiveHasOneWorker
<1>1. IInv => ActiveHasOneWorker
  <2> SUFFICES ASSUME IInv, NEW t \in Tasks
               PROVE  Cardinality({ i \in Seats : Lives(<< t, i >>) }) = IF t \in active THEN 1 ELSE 0
    BY DEF ActiveHasOneWorker, Lives
  <2> DEFINE seats == { i \in Seats : Lives(<< t, i >>) }
  <2>1. CASE t \in active
    <3>1. PICK i \in Seats : Lives(<< t, i >>)
      BY <2>1 DEF IInv, OneWorker
    <3>2. ASSUME NEW j \in Seats, Lives(<< t, j >>) PROVE j = i
      <4>1. << t, j >> = << t, i >>
        BY <3>1, <3>2, WorkerParts DEF IInv, OneWorker
      <4> QED
        BY <4>1
    <3>3. seats = { i }
      BY <3>1, <3>2
    <3> QED
      BY <2>1, <3>3, FS_Singleton
  <2>2. CASE t \notin active
    <3>1. seats = {}
      BY <2>2 DEF IInv, OneWorker
    <3> QED
      BY <2>2, <3>1, FS_EmptySet
  <2> QED
    BY <2>1, <2>2
<1> QED
  BY <1>1, InvariantHolds, PTL

\* A task that waits for execution, executes or is asked to stop has a worker,
\* or a handler that will spawn one, or fell into one of the four holes.
THEOREM LiveTaskAlwaysHasWorker == Spec => []LiveTaskHasWorker
<1>1. IInv => LiveTaskHasWorker
  <2> SUFFICES ASSUME IInv, NEW t \in Tasks, Is(t, { "queued" } \cup Executing)
               PROVE  t \in active \cup storing \cup spawning \cup orphaned
    BY DEF LiveTaskHasWorker
  <2>1. CASE Is(t, { "queued" })
    BY <2>1 DEF IInv, QueuedIsKept
  <2>2. CASE Is(t, Executing)
    <3>1. \A i \in Seats : AnswersFor(<< t, i >>) => Lives(<< t, i >>)
      BY DEF AnswersFor, Lives, Executes
    <3> QED
      BY <2>2, <3>1 DEF IInv, ExecutingIsKept, OneWorker
  <2> QED
    BY <2>1, <2>2 DEF Is
<1> QED
  BY <1>1, InvariantHolds, PTL

\* The lease table agrees with the workers.
THEOREM LeasesAlwaysMatch == Spec => []LeasesMatchWorkers
<1>1. IInv => LeasesMatchWorkers
  BY DEF IInv
<1> QED
  BY <1>1, InvariantHolds, PTL

\* No worker sleeps through a change of the leases that would let it go on, or
\* through the pause or the cancellation of its task.
THEOREM SleeperAlwaysBlocked == Spec => []SleeperIsBlocked
<1>1. IInv => SleeperIsBlocked
  BY DEF IInv
<1> QED
  BY <1>1, InvariantHolds, PTL

\* No tool moves a file before a user has confirmed its manifest.
THEOREM AppliedAlwaysConfirmed == Spec => []AppliedWereConfirmed
<1>1. IInv => AppliedWereConfirmed
  BY DEF IInv
<1> QED
  BY <1>1, InvariantHolds, PTL

\* What handlers, workers and restarts make of the statuses is what the life
\* cycle of a task allows.
THEOREM ImplementsLifecycle == Spec => LifecycleSpec
<1>1. Init => Lifecycle!Init
  BY DEF Init, Lifecycle!Init
<1>2. IInv /\ IInv' /\ [Next]_vars => [Lifecycle!Next]_status
  <2> SUFFICES ASSUME IInv, IInv', [Next]_vars PROVE Lifecycle!Next
    OBVIOUS
  <2>1. status' \in [ Tasks -> Statuses \cup { "absent" } ]
    BY DEF IInv, TypeOK
  <2>2. \A u \in Tasks : status'[u] # status[u] => status'[u] \in Lifecycle!Successors(status[u])
    BY StatusesFollow DEF IInv
  <2> QED
    BY <2>1, <2>2 DEF Lifecycle!Next, Lifecycle!Statuses, Statuses
<1> QED
  BY <1>1, <1>2, InvariantHolds, PTL DEF Spec, LifecycleSpec, Lifecycle!Spec
=============================================================================
