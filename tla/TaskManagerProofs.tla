-------------------------- MODULE TaskManagerProofs --------------------------
(***************************************************************************)
(* Proofs about the task records, for any tasks, any bounds and any number *)
(* of crashes: the snapshots always are the stored rows, a cancel request  *)
(* is never lost, no task claims to execute after a restart, the stored    *)
(* statuses follow TaskLifecycle; and, in the second half, the buffered    *)
(* events tell the stored state, and without deletions a restart numbers   *)
(* its events above all earlier ones.  Event numbers start from a sum over *)
(* all rows: what the second half needs of sums comes first in it.         *)
(***************************************************************************)
EXTENDS TaskManager, FiniteSetTheorems, WellFoundedInduction, TLAPS

\* The methods that save a changed snapshot of one task.
Method(t) ==
  \/ Start(t) \/ Pause(t) \/ Resume(t) \/ Cancel(t) \/ AcknowledgeStop(t)
  \/ Complete(t) \/ AwaitConfirmation(t) \/ Confirm(t) \/ ConfirmWithDecision(t)
  \/ Retry(t) \/ SetStage(t) \/ (\E r \in BOOLEAN : Fail(t, r)) \/ Reports(t)

\* A method saves a snapshot of the revision it found, whose status may follow
\* the one it found, and keeps a progress mark only on a running task.
Saves(t, row) ==
  /\ phase = "up"
  /\ cache[t].status \in Statuses
  /\ Commit(t, row)
  /\ row \in Row
  /\ row.revision = cache[t].revision
  /\ row.status \in Statuses
  /\ row.status # cache[t].status => row.status \in Lifecycle!Successors(cache[t].status)
  /\ cache[t].status = "cancelling" => row.status = "cancelled"
  /\ throttled' \subseteq throttled \cup { t }
  /\ t \in throttled' => row.status = "running" \/ (t \in throttled /\ cache[t].status # "running")

\* The strengthening: what the snapshots and the rows say of every task, of
\* the ids that were never handed out, of a process that is not up, and of the
\* tasks that execute while it recovers: the loop has still to reach them.
IInv ==
  /\ RecordsOK
  /\ StoreMirrorsCache
  /\ ThrottleOnlyRunning
  /\ \A t \in Tasks \ created : rows[t] = NoRow /\ cache[t] = NoRow
  /\ phase # "up" => throttled = {}
  /\ phase = "recovering" =>
       \A t \in Tasks : cache[t].status \in Executing => t \in unsettled

-----------------------------------------------------------------------------
\* Every method saves such a snapshot.
LEMMA MethodSaves ==
  ASSUME RecordsOK, NEW t \in Tasks, Method(t)
  PROVE  \E row : Saves(t, row)
<1> USE DEF RecordsOK, Row, Saves, Loaded, ClearThrottle, Statuses, Executing,
            StopRequested, Lifecycle!Successors
<1>1. CASE Start(t)
  <2> WITNESS [ cache[t] EXCEPT !.status = "running" ]
  <2> QED BY <1>1 DEF Start, Startable
<1>2. CASE Pause(t)
  <2> WITNESS [ cache[t] EXCEPT !.status = PauseTarget(@) ]
  <2> QED BY <1>2 DEF Pause, Pausable, PauseTarget
<1>3. CASE Resume(t)
  <2> WITNESS [ cache[t] EXCEPT !.status = "queued" ]
  <2> QED BY <1>3 DEF Resume, Resumable
<1>4. CASE Cancel(t)
  <2> WITNESS [ cache[t] EXCEPT !.status = CancelTarget(@) ]
  <2> QED BY <1>4 DEF Cancel, Cancellable, CancelTarget
<1>5. CASE AcknowledgeStop(t)
  <2> WITNESS [ cache[t] EXCEPT !.status = AckTarget(@) ]
  <2> QED BY <1>5 DEF AcknowledgeStop, AckTarget
<1>6. CASE Complete(t)
  <2> WITNESS [ cache[t] EXCEPT !.status = "completed", !.retryable = FALSE ]
  <2> QED BY <1>6 DEF Complete
<1>7. CASE AwaitConfirmation(t)
  <2> WITNESS [ cache[t] EXCEPT !.status = "awaiting_confirmation", !.preview = TRUE ]
  <2> QED BY <1>7 DEF AwaitConfirmation
<1>8. CASE Confirm(t)
  <2> WITNESS [ cache[t] EXCEPT !.status = "queued" ]
  <2> QED BY <1>8 DEF Confirm
<1>9. CASE ConfirmWithDecision(t)
  <2> WITNESS [ cache[t] EXCEPT !.status = "running", !.decision = TRUE ]
  <2> QED BY <1>9 DEF ConfirmWithDecision
<1>10. CASE Retry(t)
  <2> WITNESS [ cache[t] EXCEPT !.status = "queued", !.retryable = FALSE, !.moved = FALSE ]
  <2> QED BY <1>10 DEF Retry
<1>11. CASE SetStage(t)
  <2> WITNESS [ cache[t] EXCEPT !.staged = ~@ ]
  <2> QED BY <1>11 DEF SetStage
<1>12. ASSUME NEW r \in BOOLEAN, Fail(t, r) PROVE \E row : Saves(t, row)
  <2> WITNESS [ cache[t] EXCEPT !.status = "failed", !.retryable = r ]
  <2> QED BY <1>12 DEF Fail, Failable
<1>13. ASSUME NEW b \in BOOLEAN, StreamProgress(t, b) PROVE \E row : Saves(t, row)
  <2> WITNESS [ cache[t] EXCEPT !.moved = @ \/ b ]
  <2> QED BY <1>13 DEF StreamProgress
<1>14. ASSUME NEW b \in BOOLEAN, NEW i \in BOOLEAN, Progress(t, b, i)
       PROVE  \E row : Saves(t, row)
  <2> WITNESS [ cache[t] EXCEPT !.moved = b ]
  <2> QED BY <1>14 DEF Progress
<1> QED
  BY <1>1, <1>2, <1>3, <1>4, <1>5, <1>6, <1>7, <1>8, <1>9, <1>10, <1>11, <1>12,
     <1>13, <1>14 DEF Method, Reports

\* What recovery writes is a row again, of a task that executes no more.
LEMMA RecoveredIsRow ==
  ASSUME NEW row \in Row, row.status \in Executing
  PROVE  /\ Recovered(row) \in Row
         /\ Recovered(row).status \in { "paused", "cancelled", "failed" }
         /\ Recovered(row).status \in Lifecycle!Successors(row.status)
         /\ row.status = "cancelling" => Recovered(row).status = "cancelled"
<1> DEFINE s == RecoveredStatus(row.status, row.resumable)
<1>1. /\ s \in { "paused", "cancelled", "failed" }
      /\ s \in Lifecycle!Successors(row.status)
      /\ row.status = "cancelling" => s = "cancelled"
  BY DEF Row, Executing, StopRequested, RecoveredStatus, Lifecycle!Successors
<1>2. Recovered(row) = [ row EXCEPT !.status = s, !.retryable = FALSE ]
  BY DEF Recovered
<1> HIDE DEF s
<1> QED
  BY <1>1, <1>2 DEF Row, Statuses

\* Recovery leaves the revision to the save.
LEMMA RecoveredKeepsRevision ==
  ASSUME NEW row \in Row
  PROVE  Recovered(row).revision = row.revision
<1> DEFINE s == RecoveredStatus(row.status, row.resumable)
<1>1. Recovered(row) = [ row EXCEPT !.status = s, !.retryable = FALSE ]
  BY DEF Recovered
<1> HIDE DEF s
<1> QED
  BY <1>1 DEF Row

\* What is saved is a row with the next revision.
LEMMA RevisedIsRow ==
  ASSUME NEW row \in Row
  PROVE  /\ Revised(row) \in Row
         /\ Revised(row).status = row.status
         /\ Revised(row).revision = row.revision + 1
  BY DEF Row, Revised

\* Saving a snapshot keeps the snapshots and the rows together.
LEMMA SaveKeepsIInv ==
  ASSUME IInv, NEW t \in Tasks, NEW row, Saves(t, row)
  PROVE  IInv'
<1> USE DEF IInv, RecordsOK, Saves, Commit, Persist, history
<1>1. Revised(row) \in Row /\ Revised(row).status = row.status
  BY RevisedIsRow
<1>2. RecordsOK'
  BY <1>1
<1>3. StoreMirrorsCache'
  BY DEF StoreMirrorsCache, Serving
<1>4. ThrottleOnlyRunning'
  BY <1>1, <1>2 DEF ThrottleOnlyRunning
<1>5. t \in created
  BY DEF NoRow, Statuses
<1> QED
  BY <1>2, <1>3, <1>4, <1>5

\* A round of the recovery loop that settles a task.
Settles(t) ==
  /\ phase = "recovering"
  /\ unsettled' = unsettled \ { t }
  /\ cache[t].status \in Executing
  /\ Persist(t, Recovered(cache[t]))
  /\ UNCHANGED throttled

\* A round that passes a task by.
Passes(t) ==
  /\ phase = "recovering"
  /\ unsettled' = unsettled \ { t }
  /\ cache[t].status \notin Executing
  /\ UNCHANGED << phase, rows, cache, sequence, replay, published, history, throttled >>

\* A round does one or the other.
LEMMA RoundsOfRecovery ==
  ASSUME NEW t, RecoverTask(t)
  PROVE  Settles(t) \/ Passes(t)
  BY DEF RecoverTask, Settles, Passes

\* A round of the recovery loop keeps them together too.
LEMMA RecoverKeepsIInv ==
  ASSUME IInv, NEW t \in Tasks, Settles(t)
  PROVE  IInv'
<1> USE DEF IInv, RecordsOK, Settles, Persist, history
<1>1. /\ Revised(Recovered(cache[t])) \in Row
      /\ Revised(Recovered(cache[t])).status \notin Executing
  BY RecoveredIsRow, RevisedIsRow DEF Executing, StopRequested
<1>2. RecordsOK'
  BY <1>1
<1>3. StoreMirrorsCache'
  BY DEF StoreMirrorsCache, Serving
<1>4. ThrottleOnlyRunning'
  BY DEF ThrottleOnlyRunning
<1>5. t \in created
  BY DEF NoRow, Executing, StopRequested
<1>6. \A u \in Tasks : cache'[u].status \in Executing => u \in unsettled'
  BY <1>1
<1> QED
  BY <1>2, <1>3, <1>4, <1>5, <1>6

\* A new row is a row, and so is none.
LEMMA NewRowsAreRows ==
  /\ NoRow \in Row /\ NoRow.status = "absent"
  /\ \A r \in BOOLEAN : NewRow(r) \in Row /\ NewRow(r).resumable = r
<1>1. NoRow \in Row /\ NoRow.status = "absent"
  BY DEF Row, NoRow
<1>2. ASSUME NEW r \in BOOLEAN PROVE NewRow(r) \in Row /\ NewRow(r).resumable = r
  BY <1>2 DEF Row, NoRow, NewRow, Statuses
<1> QED
  BY <1>1, <1>2

\* The snapshots agree with the rows at every moment of a life and of a restart.
THEOREM InductiveInvariant == Spec => []IInv
<1>1. Init => IInv
  <2> SUFFICES ASSUME Init PROVE IInv
    OBVIOUS
  <2> QED
    BY NewRowsAreRows
    DEF Init, IInv, RecordsOK, StoreMirrorsCache, Serving, ThrottleOnlyRunning
<1>2. IInv /\ [Next]_vars => IInv'
  <2> SUFFICES ASSUME IInv, [Next]_vars PROVE IInv'
    OBVIOUS
  <2>1. ASSUME NEW t \in Tasks, Method(t) PROVE IInv'
    BY <2>1, MethodSaves, SaveKeepsIInv DEF IInv
  <2>2. ASSUME NEW t \in Tasks, RecoverTask(t) PROVE IInv'
    <3>1. CASE Settles(t)
      BY <3>1, RecoverKeepsIInv
    <3>2. CASE Passes(t)
      BY <3>2 DEF Passes, history, IInv, RecordsOK, StoreMirrorsCache, Serving, ThrottleOnlyRunning
    <3> QED
      BY <2>2, <3>1, <3>2, RoundsOfRecovery
  <2> USE NewRowsAreRows
      DEF IInv, RecordsOK, StoreMirrorsCache, Serving, ThrottleOnlyRunning, history
  <2>3. ASSUME NEW t \in Tasks, NEW r \in BOOLEAN, Create(t, r) PROVE IInv'
    <3>1. NewRow(r) \in Row
      BY NewRowsAreRows
    <3>2. RecordsOK' /\ StoreMirrorsCache'
      BY <2>3, <3>1 DEF Create
    <3>3. ThrottleOnlyRunning'
      BY <2>3 DEF Create
    <3> QED
      BY <2>3, <3>2, <3>3 DEF Create
  <2>4. ASSUME NEW t \in Tasks, NEW r \in BOOLEAN, CreateHalfWritten(t, r) PROVE IInv'
    <3>1. NewRow(r) \in Row /\ NewRow(r).resumable = r
      BY NewRowsAreRows
    <3>2. RecordsOK' /\ StoreMirrorsCache'
      BY <2>4, <3>1 DEF CreateHalfWritten
    <3> QED
      BY <2>4, <3>2 DEF CreateHalfWritten
  <2>5. ASSUME NEW t \in Tasks, DeleteTerminal(t) PROVE IInv'
    <3>1. t \in created
      BY <2>5 DEF DeleteTerminal, Loaded, NoRow, TerminalStatuses
    <3> QED
      BY <2>5, <3>1 DEF DeleteTerminal, Loaded, ClearThrottle
  <2>6. ASSUME NEW t \in Tasks, ThrottleElapses(t) PROVE IInv'
    BY <2>6 DEF ThrottleElapses, ClearThrottle
  <2>7. CASE Crash
    <3>1. RecordsOK' /\ StoreMirrorsCache' /\ ThrottleOnlyRunning'
      BY <2>7 DEF Crash
    <3> QED
      BY <2>7, <3>1 DEF Crash
  <2>8. CASE RecoverRows
    <3>1. \A t \in Tasks : rows[t].status = "running" => Revised(Recovered(rows[t])) \in Row
      BY RecoveredIsRow, RevisedIsRow DEF Executing
    <3>2. RecordsOK' /\ StoreMirrorsCache'
      BY <2>8, <3>1 DEF RecoverRows
    <3> QED
      BY <2>8, <3>2 DEF RecoverRows
  <2>9. CASE OpenManager
    <3>1. \A t \in Tasks : cache'[t].status \in Executing => t \in unsettled'
      BY <2>9 DEF OpenManager, Stored, Executing, StopRequested
    <3>2. RecordsOK' /\ StoreMirrorsCache' /\ ThrottleOnlyRunning'
      BY <2>9 DEF OpenManager, Stored
    <3> QED
      BY <2>9, <3>1, <3>2 DEF OpenManager
  <2>10. CASE RecoveryDone
    BY <2>10 DEF RecoveryDone
  <2>11. CASE UNCHANGED vars
    BY <2>11 DEF vars
  <2> QED
    BY <2>1, <2>2, <2>3, <2>4, <2>5, <2>6, <2>7, <2>8, <2>9, <2>10, <2>11
    DEF Next, Create_, Controls, Works, Restarts, Method
<1> QED
  BY <1>1, <1>2, PTL DEF Spec

\* The records always have the types the code gives them.
THEOREM RecordsCorrect == Spec => []RecordsOK
  BY InductiveInvariant, PTL DEF IInv

\* In a serving process every snapshot is the stored row; a row without a
\* snapshot is the leftover of a failed creation.
THEOREM SnapshotsAreRows == Spec => []StoreMirrorsCache
  BY InductiveInvariant, PTL DEF IInv

\* Progress marks exist for running tasks only.
THEOREM ThrottleIsOfThisRun == Spec => []ThrottleOnlyRunning
  BY InductiveInvariant, PTL DEF IInv

-----------------------------------------------------------------------------
\* One step of the records, seen from one task's row: it stays, or its status
\* becomes one that may follow.  CancelSticks and the refinement both rest on it.
LEMMA RowSteps ==
  ASSUME IInv, [Next]_vars, NEW u \in Tasks
  PROVE  LET old == rows[u].status
             new == rows'[u].status
         IN  /\ new # old => new \in Lifecycle!Successors(old)
             /\ old = "cancelling" => new \in { "cancelling", "cancelled" }
<1> USE NewRowsAreRows DEF IInv, RecordsOK
<1> DEFINE old == rows[u].status
           new == rows'[u].status
           Goal == /\ new # old => new \in Lifecycle!Successors(old)
                   /\ old = "cancelling" => new \in { "cancelling", "cancelled" }
<1>1. ASSUME NEW t \in Tasks, Method(t) PROVE Goal
  <2> PICK row : Saves(t, row)
    BY <1>1, MethodSaves
  <2>1. CASE u = t
    <3>1. rows[u] = cache[u]
      BY <2>1 DEF Saves, StoreMirrorsCache, Serving, Statuses
    <3>2. Revised(row).status = row.status
      BY RevisedIsRow DEF Saves
    <3> QED
      BY <2>1, <3>1, <3>2 DEF Saves, Commit, Persist
  <2>2. CASE u # t
    BY <2>2 DEF Saves, Commit, Persist
  <2> QED
    BY <2>1, <2>2
<1>2. ASSUME NEW t \in Tasks, Settles(t) PROVE Goal
  <2>1. CASE u = t
    <3>1. rows[u] = cache[u]
      BY <1>2, <2>1 DEF Settles, StoreMirrorsCache, Serving, Executing, StopRequested
    <3>2. /\ Revised(Recovered(cache[t])).status = Recovered(cache[t]).status
          /\ Recovered(cache[t]).status \in Lifecycle!Successors(cache[t].status)
          /\ cache[t].status = "cancelling" => Recovered(cache[t]).status = "cancelled"
      BY <1>2, RecoveredIsRow, RevisedIsRow DEF Settles
    <3> QED
      BY <1>2, <2>1, <3>1, <3>2 DEF Settles, Persist
  <2>2. CASE u # t
    BY <1>2, <2>2 DEF Settles, Persist
  <2> QED
    BY <2>1, <2>2
<1>3. ASSUME NEW t \in Tasks, NEW r \in BOOLEAN, Create(t, r) \/ CreateHalfWritten(t, r)
      PROVE  Goal
  <2>1. rows[t].status = "absent" /\ NewRow(r).status = "queued"
    BY <1>3 DEF Create, CreateHalfWritten, NewRow, NoRow
  <2> QED
    BY <1>3, <2>1 DEF Create, CreateHalfWritten, Lifecycle!Successors
<1>4. ASSUME NEW t \in Tasks, DeleteTerminal(t) PROVE Goal
  <2>1. rows[t] = cache[t] /\ cache[t].status \in TerminalStatuses
    BY <1>4 DEF DeleteTerminal, Loaded, StoreMirrorsCache, Serving, TerminalStatuses
  <2> QED
    BY <1>4, <2>1 DEF DeleteTerminal, TerminalStatuses, Lifecycle!Successors
<1>5. CASE RecoverRows
  <2>1. CASE rows[u].status = "running"
    <3>1. /\ Revised(Recovered(rows[u])).status = Recovered(rows[u]).status
          /\ Recovered(rows[u]).status \in Lifecycle!Successors(rows[u].status)
      BY <2>1, RecoveredIsRow, RevisedIsRow DEF Executing
    <3> QED
      BY <1>5, <2>1, <3>1 DEF RecoverRows
  <2>2. CASE rows[u].status # "running"
    BY <1>5, <2>2 DEF RecoverRows
  <2> QED
    BY <2>1, <2>2
<1>6. ASSUME UNCHANGED rows PROVE Goal
  BY <1>6
<1> QED
  BY <1>1, <1>2, <1>3, <1>4, <1>5, <1>6, RoundsOfRecovery
  DEF Next, Create_, Controls, Works, Restarts, Method, ThrottleElapses, Crash,
      OpenManager, Passes, RecoveryDone, vars

\* A cancel request that reached a running task ends in "cancelled", whatever
\* users, workers and crashes do next.
THEOREM CancelIsNeverLost == Spec => CancelSticks
<1>1. IInv /\ [Next]_vars
      => [\A t \in Tasks : rows[t].status = "cancelling" =>
            rows'[t].status \in { "cancelling", "cancelled" }]_vars
  BY RowSteps
<1> QED
  BY <1>1, InductiveInvariant, PTL DEF Spec, CancelSticks

\* One step of the records, seen from one task's row: it stays, it goes, or it
\* has the next revision.
LEMMA RevisionSteps ==
  ASSUME IInv, [Next]_vars, NEW u \in Tasks,
         rows'[u] # rows[u], rows'[u].status # "absent"
  PROVE  rows'[u].revision = rows[u].revision + 1
<1> USE NewRowsAreRows DEF IInv, RecordsOK
<1> DEFINE Goal == rows'[u].revision = rows[u].revision + 1
<1>1. ASSUME NEW t \in Tasks, Method(t) PROVE Goal
  <2> PICK row : Saves(t, row)
    BY <1>1, MethodSaves
  <2>1. u = t /\ rows'[u] = Revised(row)
    BY DEF Saves, Commit, Persist
  <2>2. rows[u] = cache[u]
    BY <2>1 DEF Saves, StoreMirrorsCache, Serving, Statuses
  <2>3. row.revision = cache[t].revision
    BY DEF Saves
  <2> QED
    BY <2>1, <2>2, <2>3, RevisedIsRow DEF Saves
<1>2. ASSUME NEW t \in Tasks, Settles(t) PROVE Goal
  <2>1. u = t /\ rows'[u] = Revised(Recovered(cache[u]))
    BY <1>2 DEF Settles, Persist
  <2>2. rows[u] = cache[u]
    BY <1>2, <2>1 DEF Settles, StoreMirrorsCache, Serving, Executing, StopRequested
  <2>3. Recovered(cache[u]).revision = cache[u].revision /\ Recovered(cache[u]) \in Row
    BY <1>2, <2>1, RecoveredIsRow, RecoveredKeepsRevision DEF Settles
  <2> QED
    BY <2>1, <2>2, <2>3, RevisedIsRow
<1>3. ASSUME NEW t \in Tasks, NEW r \in BOOLEAN, Create(t, r) \/ CreateHalfWritten(t, r)
      PROVE  Goal
  <2>1. rows[t] = NoRow
    BY <1>3 DEF Create, CreateHalfWritten
  <2>2. NoRow.revision = 0
    BY DEF NoRow
  <2>3. NewRow(r).revision = 1
    <3>1. NoRow \in Row
      OBVIOUS
    <3> QED
      BY <3>1 DEF NewRow, Row
  <2> QED
    BY <1>3, <2>1, <2>2, <2>3 DEF Create, CreateHalfWritten
<1>4. ASSUME NEW t \in Tasks, DeleteTerminal(t) PROVE Goal
  BY <1>4 DEF DeleteTerminal
<1>5. CASE RecoverRows
  <2>1. rows[u].status = "running" /\ rows'[u] = Revised(Recovered(rows[u]))
    BY <1>5 DEF RecoverRows
  <2>2. Recovered(rows[u]).revision = rows[u].revision /\ Recovered(rows[u]) \in Row
    BY <2>1, RecoveredIsRow, RecoveredKeepsRevision DEF Executing
  <2> QED
    BY <2>1, <2>2, RevisedIsRow
<1>6. ASSUME UNCHANGED rows PROVE FALSE
  BY <1>6
<1> QED
  BY <1>1, <1>2, <1>3, <1>4, <1>5, <1>6, RoundsOfRecovery
  DEF Next, Create_, Controls, Works, Restarts, Method, ThrottleElapses, Crash,
      OpenManager, Passes, RecoveryDone, vars

\* No two different contents of a row share a revision, not even across a crash.
THEOREM RevisionsAlwaysGrow == Spec => RevisionsGrow
<1>1. IInv /\ [Next]_vars
      => [\A t \in Tasks : rows'[t] # rows[t] /\ rows'[t].status # "absent"
            => rows'[t].revision = rows[t].revision + 1]_vars
  BY RevisionSteps
<1> QED
  BY <1>1, InductiveInvariant, PTL DEF Spec, RevisionsGrow

\* When a restarted process begins to serve, no row claims that its task still
\* executes: the loop has passed every task, and left none executing behind it.
THEOREM RestartSettlesEveryTask == Spec => RestartLeavesNoneExecuting
<1>1. IInv /\ [Next]_vars
      => [phase = "recovering" /\ phase' = "up"
            => \A t \in Tasks : rows'[t].status \notin Executing]_vars
  <2> SUFFICES ASSUME IInv, [Next]_vars, phase = "recovering", phase' = "up",
                      NEW t \in Tasks
               PROVE  rows'[t].status \notin Executing
    OBVIOUS
  <2>1. unsettled = {} /\ UNCHANGED rows
    <3>1. ASSUME NEW u \in Tasks, Method(u) PROVE FALSE
      BY <3>1, MethodSaves DEF IInv, Saves
    <3>2. ASSUME NEW u \in Tasks, RecoverTask(u) PROVE FALSE
      BY <3>2, RoundsOfRecovery DEF Settles, Passes, Persist
    <3>3. RecoveryDone
      BY <3>1, <3>2
      DEF Next, Create_, Controls, Works, Restarts, Method, ThrottleElapses, Crash,
          OpenManager, RecoverRows, Create, CreateHalfWritten, DeleteTerminal, Loaded, vars
    <3> QED
      BY <3>3 DEF RecoveryDone
  <2>2. cache[t].status \notin Executing
    BY <2>1 DEF IInv
  <2>3. CASE rows[t] = cache[t]
    BY <2>1, <2>2, <2>3
  <2>4. CASE rows[t] = NewRow(rows[t].resumable)
    <3>1. rows[t].status = "queued"
      BY <2>4 DEF NewRow, NoRow
    <3> QED
      BY <2>1, <3>1 DEF Executing, StopRequested
  <2> QED
    BY <2>3, <2>4 DEF IInv, StoreMirrorsCache, Serving
<1> QED
  BY <1>1, InductiveInvariant, PTL DEF Spec, RestartLeavesNoneExecuting

\* The stored statuses follow the life of a task that TaskLifecycle promises.
THEOREM ImplementsLifecycle == Spec => LifecycleSpec
<1> DEFINE status == [ t \in Tasks |-> rows[t].status ]
<1>1. Init => Lifecycle!Init
  BY NewRowsAreRows DEF Init, Lifecycle!Init
<1>2. IInv /\ IInv' /\ [Next]_vars => [Lifecycle!Next]_status
  <2> SUFFICES ASSUME IInv, IInv', [Next]_vars PROVE Lifecycle!Next
    OBVIOUS
  <2>1. status' \in [ Tasks -> Lifecycle!Statuses \cup { "absent" } ]
    BY DEF IInv, RecordsOK, Row, Statuses, Lifecycle!Statuses
  <2>2. ASSUME NEW t \in Tasks, status'[t] # status[t]
        PROVE  status'[t] \in Lifecycle!Successors(status[t])
    <3>1. rows'[t].status # rows[t].status
      BY <2>2
    <3>2. rows'[t].status \in Lifecycle!Successors(rows[t].status)
      BY <3>1, RowSteps
    <3> QED
      BY <3>2
  <2> QED
    BY <2>1, <2>2 DEF Lifecycle!Next
<1> QED
  BY <1>1, <1>2, InductiveInvariant, PTL DEF Spec, LifecycleSpec, Lifecycle!Spec

-----------------------------------------------------------------------------
(* Sums of revisions.                                                       *)

\* A set of numbers that is not empty has a least one.
LEMMA LeastNumber ==
  ASSUME NEW T \in SUBSET Nat, T # {}
  PROVE  \E n \in T : \A m \in T : n <= m
<1> DEFINE S == FiniteSubsetsOf(Nat)
           R == StrictSubsetOrdering(Nat)
           U == { 1 .. n : n \in T }
<1>1. IsWellFoundedOn(R, S) BY FS_StrictSubsetOrderingWellFounded
<1>2. U \subseteq S
  <2>1. ASSUME NEW n \in T PROVE 1 .. n \in S
    <3>1. n \in Int /\ 1 \in Int OBVIOUS
    <3>2. IsFiniteSet(1 .. n) BY <3>1, FS_Interval
    <3> QED BY <3>2 DEF FiniteSubsetsOf
  <2> QED BY <2>1
<1>3. U # {} OBVIOUS
<1> HIDE DEF S, R
<1>4. PICK x \in U : \A y \in U : ~ (<< y, x >> \in R)
  <2> HIDE DEF U
  <2> QED BY <1>1, <1>2, <1>3, WFMin
<1>5. PICK n \in T : x = 1 .. n BY <1>4
<1>6. ASSUME NEW m \in T PROVE n <= m
  <2>1. SUFFICES ASSUME ~ (n <= m) PROVE FALSE OBVIOUS
  <2>2. 1 .. m \in U OBVIOUS
  <2>3. (1 .. m) \subseteq (1 .. n) /\ (1 .. m) # (1 .. n)
    <3>1. n \in 1 .. n /\ n \notin 1 .. m BY <2>1
    <3> QED BY <2>1, <3>1
  <2>4. << 1 .. m, 1 .. n >> \in R
    BY <2>3 DEF R, StrictSubsetOrdering
  <2> QED BY <1>4, <1>5, <2>2, <2>4
<1> QED BY <1>6

\* Among some subsets of a finite set there is one none of whose members can be
\* left out; this is how the sums are reasoned about, instead of by induction.
LEMMA SmallestSet ==
  ASSUME NEW S, IsFiniteSet(S), NEW B \in SUBSET SUBSET S, B # {}
  PROVE  \E s \in B : \A x \in s : s \ { x } \notin B
<1> DEFINE F == FiniteSubsetsOf(S)
           R == StrictSubsetOrdering(S)
<1>1. IsWellFoundedOn(R, F) BY FS_StrictSubsetOrderingWellFounded
<1>2. B \subseteq F
  <2>1. ASSUME NEW s \in B PROVE s \in F
    <3>1. IsFiniteSet(s) BY FS_Subset
    <3> QED BY <3>1 DEF FiniteSubsetsOf
  <2> QED BY <2>1
<1> HIDE DEF F, R
<1>3. PICK s \in B : \A u \in B : ~ (<< u, s >> \in R)
  BY <1>1, <1>2, WFMin
<1>4. ASSUME NEW x \in s, s \ { x } \in B PROVE FALSE
  <2>1. << s \ { x }, s >> \in R
    <3>1. s \ {x} \subseteq s /\ s \ {x} # s OBVIOUS
    <3>2. s \in SUBSET S /\ s \ {x} \in SUBSET S OBVIOUS
    <3> QED BY <3>1, <3>2 DEF R, StrictSubsetOrdering
  <2> QED BY <1>3, <1>4, <2>1
<1> QED BY <1>4

\* g adds up the revisions r gives the members of every subset of S.
Sums(g, r, S) ==
  g = [ s \in SUBSET S |->
         IF s = {} THEN 0
         ELSE r[CHOOSE x \in s : TRUE].revision + g[s \ { CHOOSE x \in s : TRUE }] ]

\* Such a function exists: its values for the sets of one size come from those for
\* the smaller ones.
LEMMA SumsExist ==
  ASSUME NEW r, NEW S, IsFiniteSet(S)
  PROVE  \E g : Sums(g, r, S)
<1> DEFINE Up(n) == { s \in SUBSET S : Cardinality(s) <= n }
           G(g, n) == g = [ s \in Up(n) |->
                             IF s = {} THEN 0
                             ELSE r[CHOOSE x \in s : TRUE].revision
                                    + g[s \ { CHOOSE x \in s : TRUE }] ]
           T == { n \in Nat : ~ \E g : G(g, n) }
<1>c. \A s \in SUBSET S : IsFiniteSet(s) /\ Cardinality(s) \in Nat
  BY FS_Subset, FS_CardinalityType
<1>1. T = {}
  <2>1. SUFFICES ASSUME T # {} PROVE FALSE OBVIOUS
  <2>2. PICK n \in T : \A m \in T : n <= m
    BY <2>1, LeastNumber
  <2>3. n # 0
    <3>1. ASSUME NEW s \in Up(0) PROVE s = {}
      <4>1. Cardinality(s) = 0 BY <1>c
      <4> QED BY <4>1, <1>c, FS_EmptySet
    <3>2. G([ s \in Up(0) |-> 0 ], 0) BY <3>1
    <3> HIDE DEF G
    <3> QED BY <3>2
  <2>4. n - 1 \in Nat /\ n - 1 \notin T
    <3>1. T \subseteq Nat OBVIOUS
    <3> HIDE DEF T
    <3>2. n - 1 \in Nat BY <2>2, <2>3, <3>1
    <3> QED BY <2>2, <3>1, <3>2
  <2>5. PICK g : G(g, n - 1) BY <2>4
  <2> DEFINE h == [ s \in Up(n) |->
                             IF s = {} THEN 0
                             ELSE r[CHOOSE x \in s : TRUE].revision
                                    + g[s \ { CHOOSE x \in s : TRUE }] ]
  <2>6. ASSUME NEW s \in Up(n - 1) PROVE s \in Up(n) /\ h[s] = g[s]
    <3>1. s \in Up(n) BY <1>c, <2>4
    <3> QED BY <3>1, <2>5
  <2>7. ASSUME NEW s \in Up(n), s # {}
        PROVE s \ { CHOOSE x \in s : TRUE } \in Up(n - 1)
    <3> DEFINE y == CHOOSE x \in s : TRUE
    <3>1. y \in s BY <2>7
    <3> HIDE DEF y
    <3>2. Cardinality(s \ { y }) = Cardinality(s) - 1
      BY <1>c, <3>1, FS_RemoveElement
    <3>3. s \ { y } \in SUBSET S OBVIOUS
    <3>4. s \ { y } \in Up(n - 1) BY <1>c, <3>2, <3>3, <2>4
    <3> QED BY <3>4 DEF y
  <2>8. G(h, n)
    <3>1. ASSUME NEW s \in Up(n), s # {}
          PROVE  g[s \ { CHOOSE x \in s : TRUE }] = h[s \ { CHOOSE x \in s : TRUE }]
      <4> HIDE DEF h
      <4> QED BY <2>6, <2>7, <3>1
    <3> DEFINE A(s) == IF s = {} THEN 0
                       ELSE r[CHOOSE x \in s : TRUE].revision
                                    + g[s \ { CHOOSE x \in s : TRUE }]
               B(s) == IF s = {} THEN 0
                       ELSE r[CHOOSE x \in s : TRUE].revision
                                    + h[s \ { CHOOSE x \in s : TRUE }]
    <3>2. ASSUME NEW s \in Up(n) PROVE A(s) = B(s)
      <4>1. CASE s = {} BY <4>1
      <4>2. CASE s # {}
        <5>1. g[s \ { CHOOSE x \in s : TRUE }] = h[s \ { CHOOSE x \in s : TRUE }]
          BY <3>1, <4>2
        <5> HIDE DEF h
        <5> QED BY <5>1
      <4> QED BY <4>1, <4>2
    <3>3. h = [ s \in Up(n) |-> A(s) ] OBVIOUS
    <3> HIDE DEF A, B, Up, h
    <3>4. h = [ s \in Up(n) |-> B(s) ] BY <3>2, <3>3
    <3> QED BY <3>4 DEF B
  <2> HIDE DEF G, h
  <2> QED BY <2>8, <2>2
<1>2. Cardinality(S) \in Nat BY FS_CardinalityType
<1>3. PICK g : G(g, Cardinality(S)) BY <1>1, <1>2
<1>4. Up(Cardinality(S)) = SUBSET S
  <2> SUFFICES ASSUME NEW s \in SUBSET S PROVE s \in Up(Cardinality(S)) OBVIOUS
  <2> QED BY FS_Subset, <1>c
<1> QED BY <1>3, <1>4 DEF Sums

\* What g makes of one set: nothing, or one member and the rest.
LEMMA SumsStep ==
  ASSUME NEW r, NEW S, NEW g, Sums(g, r, S), NEW s \in SUBSET S
  PROVE  /\ s = {} => g[s] = 0
         /\ s # {} => LET y == CHOOSE x \in s : TRUE
                      IN  y \in s /\ g[s] = r[y].revision + g[s \ { y }]
<1>1. g[s] = IF s = {} THEN 0
             ELSE r[CHOOSE x \in s : TRUE].revision + g[s \ { CHOOSE x \in s : TRUE }]
  BY DEF Sums
<1> QED BY <1>1

\* The sums are numbers.
LEMMA SumsAreNat ==
  ASSUME NEW S, IsFiniteSet(S), NEW r, \A t \in S : r[t].revision \in Nat, NEW g, Sums(g, r, S)
  PROVE  \A s \in SUBSET S : g[s] \in Nat
<1> DEFINE B == { s \in SUBSET S : g[s] \notin Nat }
<1>1. SUFFICES ASSUME B # {} PROVE FALSE OBVIOUS
<1>2. PICK s \in B : \A x \in s : s \ { x } \notin B
  BY <1>1, SmallestSet
<1>3. s # {}
  <2>1. s = {} => g[s] = 0 BY SumsStep
  <2> QED BY <2>1
<1> DEFINE y == CHOOSE x \in s : TRUE
<1>4. y \in s /\ g[s] = r[y].revision + g[s \ { y }] BY <1>3, SumsStep
<1> HIDE DEF y
<1>5. g[s \ { y }] \in Nat BY <1>2, <1>4
<1>6. r[y].revision \in Nat BY <1>4
<1> QED BY <1>4, <1>5, <1>6

\* The sums of revisions that do not go down do not go down, and go up with any of
\* them.
LEMMA SumsGrow ==
  ASSUME NEW S, IsFiniteSet(S), NEW old, NEW new, NEW g, NEW h,
         \A t \in S : old[t].revision \in Nat /\ new[t].revision \in Nat,
         \A t \in S : old[t].revision <= new[t].revision,
         Sums(g, old, S), Sums(h, new, S)
  PROVE  \A s \in SUBSET S :
           /\ g[s] <= h[s]
           /\ \A t \in s : old[t].revision < new[t].revision => g[s] < h[s]
<1> DEFINE P(s) == /\ g[s] <= h[s]
                   /\ \A t \in s : old[t].revision < new[t].revision => g[s] < h[s]
           B == { s \in SUBSET S : ~ P(s) }
<1>n. \A s \in SUBSET S : g[s] \in Nat /\ h[s] \in Nat BY SumsAreNat
<1>1. SUFFICES ASSUME B # {} PROVE FALSE OBVIOUS
<1>2. PICK s \in B : \A x \in s : s \ { x } \notin B
  BY <1>1, SmallestSet
<1>3. s # {}
  <2>1. SUFFICES ASSUME s = {} PROVE P(s) OBVIOUS
  <2>2. g[s] = 0 /\ h[s] = 0 BY <2>1, SumsStep
  <2> QED BY <2>1, <2>2
<1> DEFINE y == CHOOSE x \in s : TRUE
           u == s \ { y }
<1>4. y \in s /\ g[s] = old[y].revision + g[u] BY <1>3, SumsStep
<1>5. h[s] = new[y].revision + h[u] BY <1>3, SumsStep
<1>6. u \in SUBSET S /\ y \in S BY <1>4
<1>7. P(u) BY <1>2, <1>4
<1> HIDE DEF y
<1>8. g[s] <= h[s]
  BY <1>4, <1>5, <1>6, <1>7, <1>n
<1>9. ASSUME NEW t \in s, old[t].revision < new[t].revision PROVE g[s] < h[s]
  <2>1. CASE t = y
    BY <1>4, <1>5, <1>6, <1>7, <1>9, <1>n, <2>1
  <2>2. CASE t # y
    <3>1. g[u] < h[u] BY <1>7, <1>9, <2>2
    <3> HIDE DEF u
    <3> QED BY <1>4, <1>5, <1>6, <1>n, <3>1
  <2> QED BY <2>1, <2>2
<1> QED BY <1>8, <1>9

\* What OpenManager takes for the number of the last event.
SumOf(r) == MapThenSumSet(LAMBDA t : r[t].revision, Tasks)

\* It is defined by a function like g.
LEMMA SumUnfolds ==
  ASSUME NEW r
  PROVE SumOf(r) =
    (CHOOSE g : g = [ s \in SUBSET Tasks |->
         IF s = {} THEN 0
         ELSE r[CHOOSE x \in s : TRUE].revision + g[s \ { CHOOSE x \in s : TRUE }] ])[Tasks]
BY DEF SumOf, MapThenSumSet, MapThenFoldSet

\* So it is what such a function gives for all tasks.
LEMMA SumIsSums ==
  ASSUME NEW r
  PROVE \E g : Sums(g, r, Tasks) /\ SumOf(r) = g[Tasks]
<1> DEFINE h == CHOOSE g : g = [ s \in SUBSET Tasks |->
         IF s = {} THEN 0
         ELSE r[CHOOSE x \in s : TRUE].revision + g[s \ { CHOOSE x \in s : TRUE }] ]
<1>1. IsFiniteSet(Tasks) BY TaskManagerAssumption
<1>5. \E g : Sums(g, r, Tasks) BY <1>1, SumsExist
<1>2. \E g : g = [ s \in SUBSET Tasks |->
         IF s = {} THEN 0
         ELSE r[CHOOSE x \in s : TRUE].revision + g[s \ { CHOOSE x \in s : TRUE }] ]
  BY <1>5 DEF Sums
<1>3. h = [ s \in SUBSET Tasks |->
         IF s = {} THEN 0
         ELSE r[CHOOSE x \in s : TRUE].revision + h[s \ { CHOOSE x \in s : TRUE }] ]
  BY <1>2
<1>4. SumOf(r) = h[Tasks] BY SumUnfolds
<1> HIDE DEF h
<1> QED BY <1>3, <1>4 DEF Sums

\* If no revision goes down the sum does not, and if one goes up the sum does.
LEMMA SumGrows ==
  ASSUME NEW old, NEW new,
         \A t \in Tasks : old[t].revision \in Nat /\ new[t].revision \in Nat,
         \A t \in Tasks : old[t].revision <= new[t].revision
  PROVE  /\ SumOf(old) \in Nat /\ SumOf(new) \in Nat
         /\ SumOf(old) <= SumOf(new)
         /\ \A t \in Tasks : old[t].revision < new[t].revision => SumOf(old) + 1 <= SumOf(new)
<1>1. IsFiniteSet(Tasks)
  BY TaskManagerAssumption
<1>2. PICK g : Sums(g, old, Tasks) /\ SumOf(old) = g[Tasks]
  BY SumIsSums
<1>3. PICK h : Sums(h, new, Tasks) /\ SumOf(new) = h[Tasks]
  BY SumIsSums
<1>4. g[Tasks] \in Nat /\ h[Tasks] \in Nat
  BY <1>1, <1>2, <1>3, SumsAreNat
<1>5. /\ g[Tasks] <= h[Tasks]
      /\ \A t \in Tasks : old[t].revision < new[t].revision => g[Tasks] < h[Tasks]
  BY <1>1, <1>2, <1>3, SumsGrow
<1> QED
  BY <1>2, <1>3, <1>4, <1>5
-----------------------------------------------------------------------------
\* What an emission does to the buffer: it keeps its order, loses at most its
\* oldest event, and ends with the new one.
LEMMA EmitShifts ==
  ASSUME EventsOK, NEW t \in Tasks, NEW row \in Row, row.status \in Statuses,
         NEW name \in { "created", "updated", "deleted" }, Emit(t, row, name)
  PROVE  /\ EventsOK'
         /\ sequence' = sequence + 1
         /\ published' = IF sequence + 1 > published THEN sequence + 1 ELSE published
         /\ Len(replay') \in Nat \ { 0 }
         /\ replay'[Len(replay')] =
              [ sequence |-> sequence + 1, task |-> t, revision |-> row.revision,
                event |-> name, status |-> row.status ]
         /\ \E k \in { 0, 1 } :
              /\ Len(replay') = Len(replay) + 1 - k
              /\ \A i \in 1 .. Len(replay') - 1 :
                   i + k \in DOMAIN replay /\ replay'[i] = replay[i + k]
<1> DEFINE event == [ sequence |-> sequence + 1, task |-> t, revision |-> row.revision,
                      event |-> name, status |-> row.status ]
           kept  == IF Len(replay) = ReplayCapacity THEN Tail(replay) ELSE replay
<1>1. /\ sequence \in Nat /\ published \in Nat /\ replay \in Seq(Event)
      /\ Len(replay) <= ReplayCapacity /\ ReplayCapacity \in Nat \ { 0 }
      /\ Len(replay) \in Nat
  BY TaskManagerAssumption DEF EventsOK
<1>2. event \in Event
  BY <1>1 DEF Event, Row
<1>3. /\ sequence' = sequence + 1 /\ replay' = Append(kept, event)
      /\ published' = IF sequence + 1 > published THEN sequence + 1 ELSE published
  BY DEF Emit
<1> HIDE DEF event
<1>4. PICK k \in { 0, 1 } :
        /\ kept \in Seq(Event)
        /\ Len(kept) = Len(replay) - k
        /\ Len(kept) < ReplayCapacity
        /\ \A i \in 1 .. Len(kept) : i + k \in DOMAIN replay /\ kept[i] = replay[i + k]
  <2>1. CASE Len(replay) = ReplayCapacity
    <3>1. replay # << >> BY <1>1, <2>1
    <3>2. kept = Tail(replay) BY <2>1
    <3> HIDE DEF kept
    <3>3. /\ kept \in Seq(Event) /\ Len(kept) = Len(replay) - 1
          /\ \A i \in 1 .. Len(kept) : i + 1 \in DOMAIN replay /\ kept[i] = replay[i + 1]
      BY <1>1, <3>1, <3>2
    <3>4. 1 \in { 0, 1 } OBVIOUS
    <3> QED BY <1>1, <2>1, <3>3, <3>4
  <2>2. CASE Len(replay) # ReplayCapacity
    <3>1. kept = replay BY <2>2
    <3> HIDE DEF kept
    <3>2. /\ Len(kept) = Len(replay) - 0
          /\ \A i \in 1 .. Len(kept) : i + 0 \in DOMAIN replay /\ kept[i] = replay[i + 0]
      BY <1>1, <3>1
    <3>3. Len(kept) < ReplayCapacity BY <1>1, <2>2, <3>1
    <3>4. 0 \in { 0, 1 } OBVIOUS
    <3> QED BY <1>1, <3>1, <3>2, <3>3, <3>4
  <2> QED BY <2>1, <2>2
<1> HIDE DEF kept
<1>5. Len(kept) \in Nat BY <1>4
<1>6. /\ replay' \in Seq(Event) /\ Len(replay') = Len(kept) + 1
      /\ replay'[Len(replay')] = event
      /\ \A i \in 1 .. Len(kept) : replay'[i] = kept[i]
  BY <1>2, <1>3, <1>4, <1>5
<1>7. Len(replay') <= ReplayCapacity BY <1>1, <1>4, <1>5, <1>6
<1>8. EventsOK'
  <2>1. sequence' \in Nat /\ published' \in Nat BY <1>1, <1>3
  <2> QED BY <1>6, <1>7, <2>1 DEF EventsOK
<1>9. /\ Len(replay') = Len(replay) + 1 - k
      /\ \A i \in 1 .. Len(replay') - 1 :
           i + k \in DOMAIN replay /\ replay'[i] = replay[i + k]
  <2>1. Len(replay') = Len(replay) + 1 - k BY <1>1, <1>4, <1>6
  <2>2. 1 .. Len(replay') - 1 = 1 .. Len(kept) BY <1>5, <1>6
  <2> QED BY <1>4, <1>6, <2>1, <2>2
<1>10. Len(replay') \in Nat \ { 0 } BY <1>5, <1>6
<1> QED BY <1>3, <1>6, <1>8, <1>9, <1>10 DEF event

\* The two halves of ReplayTellsState.
Numbered == \A i \in DOMAIN replay : replay[i].sequence = sequence - Len(replay) + i
LastOfItsTask(i) == \A j \in DOMAIN replay : j > i => replay[j].task # replay[i].task
TellsRow(e) ==
  IF e.event = "deleted" THEN rows[e.task] = NoRow
  ELSE rows[e.task].status = e.status /\ rows[e.task].revision = e.revision
Tells == \A i \in DOMAIN replay : LastOfItsTask(i) => TellsRow(replay[i])

\* What an emission about a task, whose row is now what the event says, leaves of
\* the two.
LEMMA EmitKeepsReplay ==
  ASSUME EventsOK, Numbered, Tells,
         NEW t \in Tasks, NEW row \in Row, row.status \in Statuses,
         NEW name \in { "created", "updated", "deleted" }, Emit(t, row, name),
         \A u \in Tasks \ { t } : rows'[u] = rows[u],
         IF name = "deleted" THEN rows'[t] = NoRow ELSE rows'[t] = row
  PROVE  Numbered' /\ Tells'
<1>1. PICK k \in { 0, 1 } :
        /\ Len(replay') = Len(replay) + 1 - k
        /\ \A i \in 1 .. Len(replay') - 1 :
             i + k \in DOMAIN replay /\ replay'[i] = replay[i + k]
  BY EmitShifts
<1> DEFINE n == Len(replay')
<1>2. /\ sequence \in Nat /\ sequence' = sequence + 1 /\ n \in Nat \ { 0 }
      /\ replay'[n] =
           [ sequence |-> sequence + 1, task |-> t, revision |-> row.revision,
             event |-> name, status |-> row.status ]
      /\ replay \in Seq(Event) /\ Len(replay) \in Nat
      /\ replay' \in Seq(Event)
  <2>1. /\ EventsOK'
        /\ sequence' = sequence + 1 /\ n \in Nat \ { 0 }
        /\ replay'[n] =
             [ sequence |-> sequence + 1, task |-> t, revision |-> row.revision,
               event |-> name, status |-> row.status ]
    BY EmitShifts
  <2>2. sequence \in Nat /\ replay \in Seq(Event) /\ Len(replay) \in Nat
    BY DEF EventsOK
  <2>3. replay' \in Seq(Event) BY <2>1 DEF EventsOK
  <2> QED BY <2>1, <2>2, <2>3
<1>3. DOMAIN replay' = 1 .. n /\ DOMAIN replay = 1 .. Len(replay)
  BY <1>2
<1>4. n = Len(replay) + 1 - k BY <1>1
<1>5. replay'[n].sequence = sequence + 1 /\ replay'[n].task = t
      /\ replay'[n].event = name /\ replay'[n].status = row.status
      /\ replay'[n].revision = row.revision
  BY <1>2
<1>6. \A i \in 1 .. n - 1 : i + k \in 1 .. Len(replay) /\ replay'[i] = replay[i + k]
  BY <1>1, <1>3
<1>t. \A i \in 1 .. Len(replay) : replay[i].task \in Tasks
  <2>1. ASSUME NEW i \in 1 .. Len(replay) PROVE replay[i] \in Event BY <1>2
  <2> QED BY <2>1 DEF Event
<1> HIDE DEF n
<1>7. ASSUME NEW i \in 1 .. n PROVE replay'[i].sequence = sequence' - n + i
  <2>1. CASE i = n BY <1>2, <1>5, <2>1
  <2>2. CASE i # n
    <3>1. i \in 1 .. n - 1 BY <1>2, <2>2
    <3>2. replay[i + k].sequence = sequence - Len(replay) + (i + k)
      BY <1>3, <1>6, <3>1 DEF Numbered
    <3>3. replay'[i] = replay[i + k] BY <1>6, <3>1
    <3> QED BY <1>2, <1>4, <3>2, <3>3
  <2> QED BY <2>1, <2>2
<1>8. ASSUME NEW i \in 1 .. n, LastOfItsTask(i)' PROVE TellsRow(replay[i])'
  <2>1. CASE i = n
    BY <1>5, <2>1 DEF TellsRow
  <2>2. CASE i # n
    <3>1. i \in 1 .. n - 1 /\ i < n /\ n \in 1 .. n BY <1>2, <2>2
    <3>2. replay'[i] = replay[i + k] /\ i + k \in 1 .. Len(replay) BY <1>6, <3>1
    <3>3. replay'[i].task # t
      BY <1>3, <1>5, <1>8, <3>1 DEF LastOfItsTask
    <3>4. LastOfItsTask(i + k)
      <4> SUFFICES ASSUME NEW j \in 1 .. Len(replay), j > i + k
                   PROVE  replay[j].task # replay[i + k].task
        BY <1>3 DEF LastOfItsTask
      <4>1. j - k \in 1 .. n - 1 /\ j - k > i /\ (j - k) + k = j
        BY <1>2, <1>4, <3>1
      <4>2. replay'[j - k] = replay[j] BY <1>6, <4>1
      <4>3. j - k \in 1 .. n BY <1>2, <4>1
      <4> QED BY <1>3, <1>8, <3>2, <4>1, <4>2, <4>3 DEF LastOfItsTask
    <3>5. TellsRow(replay[i + k]) BY <1>3, <3>2, <3>4 DEF Tells
    <3>6. replay[i + k].task \in Tasks \ { t } BY <1>t, <3>2, <3>3
    <3> QED BY <3>2, <3>5, <3>6 DEF TellsRow
  <2> QED BY <2>1, <2>2
<1>9. Numbered' BY <1>3, <1>7 DEF Numbered, n
<1>10. Tells' BY <1>3, <1>8 DEF Tells
<1> QED BY <1>9, <1>10

-----------------------------------------------------------------------------
\* The event numbers: what the buffer holds, and where the numbers stand between
\* the highest ever emitted and the sum of the revisions, from which a restart
\* goes on.
NInv ==
  /\ EventsOK
  /\ phase \in { "down", "migrated" } => replay = << >>
  /\ \A i \in DOMAIN replay : replay[i].task \in created
  /\ Serving => Numbered /\ Tells
  /\ deleted = {} => published <= SumOf(rows)
  /\ Serving /\ deleted = {} => published <= sequence /\ sequence <= SumOf(rows)

\* ReplayTellsState is its two halves.
LEMMA ReplayHalves ==
  (Serving => Numbered /\ Tells) => ReplayTellsState
BY DEF ReplayTellsState, Numbered, Tells, LastOfItsTask, TellsRow

\* An event about a created task leaves every buffered event about one.
LEMMA EmitKeepsCreated ==
  ASSUME EventsOK, NEW t \in Tasks, NEW row \in Row, row.status \in Statuses,
         NEW name \in { "created", "updated", "deleted" }, Emit(t, row, name),
         \A i \in DOMAIN replay : replay[i].task \in created,
         t \in created', created \subseteq created'
  PROVE  \A i \in DOMAIN replay' : replay'[i].task \in created'
<1>1. PICK k \in { 0, 1 } :
        \A i \in 1 .. Len(replay') - 1 :
          i + k \in DOMAIN replay /\ replay'[i] = replay[i + k]
  BY EmitShifts
<1>2. EventsOK' /\ Len(replay') \in Nat \ { 0 } /\ replay'[Len(replay')].task = t
  <2>1. /\ EventsOK' /\ Len(replay') \in Nat \ { 0 }
        /\ replay'[Len(replay')] =
              [ sequence |-> sequence + 1, task |-> t, revision |-> row.revision,
                event |-> name, status |-> row.status ]
    BY EmitShifts
  <2> QED
    BY <2>1
<1>3. DOMAIN replay' = 1 .. Len(replay')
  BY <1>2 DEF EventsOK
<1>4. ASSUME NEW i \in 1 .. Len(replay'), i # Len(replay')
      PROVE  replay'[i].task \in created'
  <2>1. i \in 1 .. Len(replay') - 1
    BY <1>2, <1>4
  <2> QED
    BY <1>1, <2>1
<1> QED
  BY <1>2, <1>3, <1>4

\* A change of one task that is stored and told with its next revision, or a
\* creation: the numbers keep their place.
LEMMA ChangeKeepsNInv ==
  ASSUME IInv, NInv, Serving, Serving', deleted' = deleted,
         NEW t \in Tasks, NEW row \in Row, row.status \in Statuses,
         rows' = [ rows EXCEPT ![t] = row ], row.revision = rows[t].revision + 1,
         NEW name \in { "created", "updated" }, Emit(t, row, name),
         t \in created', created \subseteq created'
  PROVE  NInv'
<1>1. /\ EventsOK' /\ sequence' = sequence + 1
      /\ published' = IF sequence + 1 > published THEN sequence + 1 ELSE published
  BY EmitShifts DEF NInv
<1>2. rows \in [ Tasks -> Row ]
  BY DEF IInv, RecordsOK
<1>3. /\ \A u \in Tasks \ { t } : rows'[u] = rows[u]
      /\ rows'[t] = row
  BY <1>2
<1>4. (Numbered /\ Tells)'
  BY <1>3, EmitKeepsReplay DEF NInv
<1>5. \A i \in DOMAIN replay' : replay'[i].task \in created'
  BY EmitKeepsCreated DEF NInv
<1>6. SumOf(rows) \in Nat /\ SumOf(rows') \in Nat /\ SumOf(rows) + 1 <= SumOf(rows')
  <2>1. \A u \in Tasks : rows[u].revision \in Nat
    BY <1>2 DEF Row
  <2>2. row.revision \in Nat
    BY DEF Row
  <2>3. \A u \in Tasks : /\ rows'[u].revision \in Nat
                         /\ rows[u].revision <= rows'[u].revision
    BY <1>3, <2>1, <2>2
  <2>4. rows[t].revision < rows'[t].revision
    BY <1>3, <2>1
  <2> QED
    BY <2>1, <2>3, <2>4, SumGrows
<1>7. deleted = {} => /\ published' <= sequence' /\ sequence' <= SumOf(rows')
                      /\ published' <= SumOf(rows')
  <2>1. sequence \in Nat /\ published \in Nat
    BY DEF NInv, EventsOK
  <2>2. deleted = {} => published <= sequence /\ sequence <= SumOf(rows)
    BY DEF NInv
  <2> QED
    BY <1>1, <1>6, <2>1, <2>2
<1>8. phase' \notin { "down", "migrated" }
  BY DEF Serving
<1> QED
  BY <1>1, <1>4, <1>5, <1>7, <1>8 DEF NInv

\* Every method that saves a snapshot does that, and so does the recovery loop.
LEMMA PersistKeepsNInv ==
  ASSUME IInv, NInv, Serving, NEW t \in Tasks, cache[t].status \in Statuses,
         NEW row \in Row, row.status \in Statuses, row.revision = cache[t].revision,
         Persist(t, row)
  PROVE  NInv'
<1>1. /\ Revised(row) \in Row /\ Revised(row).status \in Statuses
      /\ Revised(row).revision = cache[t].revision + 1
  BY RevisedIsRow
<1>2. cache[t] = rows[t]
  BY DEF IInv, StoreMirrorsCache, Statuses
<1>3. /\ rows' = [ rows EXCEPT ![t] = Revised(row) ] /\ Emit(t, Revised(row), "updated")
      /\ phase' = phase /\ created' = created /\ deleted' = deleted
  BY DEF Persist, history
<1>4. t \in created
  BY <1>2 DEF IInv, NoRow, Statuses
<1>5. Serving'
  BY <1>3 DEF Serving
<1> HIDE DEF IInv, NInv
<1> DEFINE new == Revised(row)
<1>6. new \in Row /\ new.status \in Statuses /\ new.revision = rows[t].revision + 1
  BY <1>1, <1>2
<1>7. rows' = [ rows EXCEPT ![t] = new ] /\ Emit(t, new, "updated")
  BY <1>3
<1> HIDE DEF new
<1> QED
  BY <1>3, <1>4, <1>5, <1>6, <1>7, ChangeKeepsNInv

\* A step that leaves the rows, the buffer and the numbers alone, and a process
\* serving or not.
LEMMA NumbersUntouched ==
  ASSUME NInv, UNCHANGED << rows, sequence, replay, published, created, deleted >>,
         Serving' = Serving, phase' = phase \/ (Serving /\ Serving')
  PROVE  NInv'
<1> QED
  BY DEF NInv, EventsOK, Serving, Numbered, Tells, LastOfItsTask, TellsRow

\* What the rows of a database give for a sum.
LEMMA SumIsNumber ==
  ASSUME RecordsOK
  PROVE  SumOf(rows) \in Nat
<1>1. \A t \in Tasks : rows[t].revision \in Nat /\ rows[t].revision <= rows[t].revision
  BY DEF RecordsOK, Row
<1> QED
  BY <1>1, SumGrows

\* The numbers keep their place at every moment of a life and of a restart.
THEOREM NumbersKeepTheirPlace == Spec => []NInv
<1>1. Init => NInv
  <2> SUFFICES ASSUME Init PROVE NInv
    OBVIOUS
  <2>1. RecordsOK
    BY NewRowsAreRows DEF Init, RecordsOK
  <2>2. SumOf(rows) \in Nat
    BY <2>1, SumIsNumber
  <2>3. EventsOK
    BY TaskManagerAssumption DEF Init, EventsOK
  <2> QED
    BY <2>2, <2>3 DEF Init, NInv, Serving, Numbered, Tells
<1>2. IInv /\ IInv' /\ NInv /\ [Next]_vars => NInv'
  <2> SUFFICES ASSUME IInv, IInv', NInv, [Next]_vars PROVE NInv'
    OBVIOUS
  <2>0. RecordsOK /\ RecordsOK'
    BY DEF IInv
  <2>1. ASSUME NEW t \in Tasks, Method(t) PROVE NInv'
    <3>1. PICK row : Saves(t, row)
      BY <2>0, <2>1, MethodSaves
    <3>2. Serving
      BY <3>1 DEF Saves, Serving
    <3> QED
      BY <3>1, <3>2, PersistKeepsNInv DEF Saves, Commit
  <2>2. ASSUME NEW t \in Tasks, RecoverTask(t) PROVE NInv'
    <3>0. CASE Passes(t)
      BY <3>0, NumbersUntouched DEF Passes, history, Serving
    <3>1. CASE Settles(t)
      <4>1. /\ Serving /\ cache[t] \in Row
            /\ cache[t].status \in Executing /\ cache[t].status \in Statuses
            /\ Persist(t, Recovered(cache[t]))
        BY <2>0, <3>1
        DEF Settles, Serving, RecordsOK, Executing, StopRequested, Statuses
      <4>2. /\ Recovered(cache[t]) \in Row
            /\ Recovered(cache[t]).status \in Statuses
            /\ Recovered(cache[t]).revision = cache[t].revision
        BY <4>1, RecoveredIsRow, RecoveredKeepsRevision DEF Statuses
      <4> QED
        BY <4>1, <4>2, PersistKeepsNInv
    <3> QED
      BY <2>2, <3>0, <3>1, RoundsOfRecovery
  <2>3. ASSUME NEW t \in Tasks, NEW r \in BOOLEAN, Create(t, r) PROVE NInv'
    <3>1. /\ NewRow(r) \in Row /\ NewRow(r).status \in Statuses /\ NewRow(r).revision = 1
      <4>1. NoRow \in Row
        BY NewRowsAreRows
      <4> QED
        BY <4>1 DEF NewRow, Row, Statuses
    <3>2. rows[t].revision = 0
      BY <2>3 DEF IInv, Create, NoRow
    <3>3. /\ Serving /\ Serving' /\ deleted' = deleted /\ Emit(t, NewRow(r), "created")
          /\ rows' = [ rows EXCEPT ![t] = NewRow(r) ]
          /\ t \in created' /\ created \subseteq created'
      BY <2>3 DEF Create, Serving
    <3> DEFINE new == NewRow(r)
    <3>4. /\ new \in Row /\ new.status \in Statuses /\ new.revision = rows[t].revision + 1
          /\ Emit(t, new, "created") /\ rows' = [ rows EXCEPT ![t] = new ]
      BY <3>1, <3>2, <3>3
    <3> HIDE DEF new
    <3> QED
      BY <3>3, <3>4, ChangeKeepsNInv
  <2>4. ASSUME NEW t \in Tasks, NEW r \in BOOLEAN, CreateHalfWritten(t, r) PROVE NInv'
    <3>1. /\ phase = "up" /\ t \notin created /\ created \subseteq created'
          /\ rows' = [ rows EXCEPT ![t] = NewRow(r) ]
          /\ UNCHANGED << phase, sequence, replay, published, deleted >>
      BY <2>4 DEF CreateHalfWritten
    <3>2. rows[t].revision = 0
      BY <3>1 DEF IInv, NoRow
    <3>3. \A u \in Tasks : u # t => rows'[u] = rows[u]
      BY <2>0, <3>1 DEF RecordsOK
    <3>4. SumOf(rows) \in Nat /\ SumOf(rows') \in Nat /\ SumOf(rows) <= SumOf(rows')
      <4>1. \A u \in Tasks : rows[u].revision \in Nat /\ rows'[u].revision \in Nat
        BY <2>0 DEF RecordsOK, Row
      <4>2. \A u \in Tasks : rows[u].revision <= rows'[u].revision
        BY <3>2, <3>3, <4>1
      <4> QED
        BY <4>1, <4>2, SumGrows
    <3>5. EventsOK' /\ (\A i \in DOMAIN replay' : replay'[i].task \in created')
      BY <3>1 DEF NInv, EventsOK
    <3>6. (Numbered /\ Tells)'
      <4>1. Numbered /\ Tells
        BY <3>1 DEF NInv, Serving
      <4>2. \A i \in DOMAIN replay : replay[i].task # t /\ replay[i].task \in Tasks
        BY <2>0, <3>1 DEF NInv, RecordsOK
      <4>3. Numbered'
        BY <3>1, <4>1 DEF Numbered
      <4>4. Tells'
        BY <3>1, <3>3, <4>1, <4>2 DEF Tells, LastOfItsTask, TellsRow
      <4> QED
        BY <4>3, <4>4
    <3>7. deleted = {} => published <= sequence /\ sequence <= SumOf(rows)
      BY <3>1 DEF NInv, Serving
    <3>8. sequence \in Nat /\ published \in Nat
      BY DEF NInv, EventsOK
    <3>9. deleted' = {} => /\ published' <= sequence' /\ sequence' <= SumOf(rows')
                           /\ published' <= SumOf(rows')
      BY <3>1, <3>4, <3>7, <3>8
    <3> QED
      BY <3>1, <3>5, <3>6, <3>9 DEF NInv
  <2>5. ASSUME NEW t \in Tasks, DeleteTerminal(t) PROVE NInv'
    <3>1. /\ phase = "up" /\ phase' = phase /\ cache[t].status \in TerminalStatuses
          /\ rows' = [ rows EXCEPT ![t] = NoRow ]
          /\ Emit(t, cache[t], "deleted")
          /\ deleted' = deleted \cup { t } /\ created' = created
      BY <2>5 DEF DeleteTerminal, Loaded
    <3>2. cache[t] \in Row /\ cache[t].status \in Statuses
      BY <2>0, <3>1 DEF RecordsOK, TerminalStatuses, Statuses
    <3>3. t \in created
      BY <3>1 DEF IInv, NoRow, TerminalStatuses
    <3>4. EventsOK'
      BY <3>1, <3>2, EmitShifts DEF NInv
    <3>5. \A i \in DOMAIN replay' : replay'[i].task \in created'
      BY <3>1, <3>2, <3>3, EmitKeepsCreated DEF NInv
    <3>6. rows'[t] = NoRow /\ (\A u \in Tasks \ { t } : rows'[u] = rows[u])
      BY <2>0, <3>1 DEF RecordsOK
    <3>7. (Numbered /\ Tells)'
      BY <3>1, <3>2, <3>6, EmitKeepsReplay DEF NInv, Serving
    <3>8. deleted' # {}
      BY <3>1
    <3> QED
      BY <3>1, <3>4, <3>5, <3>7, <3>8 DEF NInv
  <2>6. ASSUME NEW t \in Tasks, ThrottleElapses(t) PROVE NInv'
    BY <2>6, NumbersUntouched DEF ThrottleElapses, history, Serving
  <2>7. CASE Crash
    <3>1. /\ phase' = "down" /\ sequence' = 0 /\ replay' = << >>
          /\ UNCHANGED << rows, created, deleted, published >>
      BY <2>7 DEF Crash
    <3>2. EventsOK'
      BY <3>1, TaskManagerAssumption DEF NInv, EventsOK
    <3> QED
      BY <3>1, <3>2 DEF NInv, Serving
  <2>8. CASE RecoverRows
    <3>1. /\ phase = "down" /\ phase' = "migrated"
          /\ rows' = [ t \in Tasks |->
                IF rows[t].status = "running" THEN Revised(Recovered(rows[t])) ELSE rows[t] ]
          /\ UNCHANGED << sequence, replay, published, created, deleted >>
      BY <2>8 DEF RecoverRows, history
    <3>2. \A t \in Tasks : rows[t].revision \in Nat /\ rows'[t].revision \in Nat
      BY <2>0 DEF RecordsOK, Row
    <3>3. ASSUME NEW t \in Tasks PROVE rows[t].revision <= rows'[t].revision
      <4>1. CASE rows[t].status = "running"
        <5>1. /\ Recovered(rows[t]).revision = rows[t].revision
              /\ Recovered(rows[t]) \in Row
          BY <2>0, <4>1, RecoveredIsRow, RecoveredKeepsRevision DEF Executing, RecordsOK
        <5>2. rows'[t].revision = rows[t].revision + 1
          BY <3>1, <4>1, <5>1, RevisedIsRow
        <5> QED
          BY <3>2, <5>2
      <4>2. CASE rows[t].status # "running"
        BY <3>1, <3>2, <4>2
      <4> QED
        BY <4>1, <4>2
    <3>4. SumOf(rows) \in Nat /\ SumOf(rows') \in Nat /\ SumOf(rows) <= SumOf(rows')
      BY <3>2, <3>3, SumGrows
    <3>5. published \in Nat /\ (deleted = {} => published <= SumOf(rows))
      BY DEF NInv, EventsOK
    <3>6. deleted' = {} => published' <= SumOf(rows')
      BY <3>1, <3>4, <3>5
    <3>7. EventsOK'
      BY <3>1 DEF NInv, EventsOK
    <3>8. replay' = << >> /\ ~ Serving'
      BY <3>1 DEF NInv, Serving
    <3> QED
      BY <3>6, <3>7, <3>8 DEF NInv
  <2>9. CASE OpenManager
    <3>1. /\ phase = "migrated" /\ phase' = "recovering" /\ sequence' = SumOf(rows)
          /\ UNCHANGED << rows, replay, published, created, deleted >>
      BY <2>9 DEF OpenManager, history, SumOf
    <3>2. SumOf(rows) \in Nat
      BY <2>0, SumIsNumber
    <3>3. EventsOK'
      BY <3>1, <3>2 DEF NInv, EventsOK
    <3>4. replay' = << >>
      BY <3>1 DEF NInv
    <3>5. (Numbered /\ Tells)'
      BY <3>4 DEF Numbered, Tells
    <3>6. deleted' = {} => /\ published' <= sequence' /\ sequence' <= SumOf(rows')
                           /\ published' <= SumOf(rows')
      BY <3>1, <3>2 DEF NInv
    <3> QED
      BY <3>1, <3>3, <3>4, <3>5, <3>6 DEF NInv
  <2>10. CASE RecoveryDone
    BY <2>10, NumbersUntouched DEF RecoveryDone, history, Serving
  <2>11. CASE UNCHANGED vars
    BY <2>11, NumbersUntouched DEF vars, Serving
  <2> QED
    BY <2>1, <2>2, <2>3, <2>4, <2>5, <2>6, <2>7, <2>8, <2>9, <2>10, <2>11
    DEF Next, Create_, Controls, Works, Restarts, Method
<1> QED
  BY <1>1, <1>2, InductiveInvariant, PTL DEF Spec

\* Every variable always has its type.
THEOREM TypeCorrect == Spec => []TypeOK
<1>1. IInv /\ NInv => TypeOK
  BY DEF IInv, NInv, TypeOK
<1> QED
  BY <1>1, InductiveInvariant, NumbersKeepTheirPlace, PTL

\* A follower that applies the buffered events ends with the stored state.
THEOREM ReplayAlwaysTellsState == Spec => []ReplayTellsState
<1>1. NInv => ReplayTellsState
  BY ReplayHalves DEF NInv
<1> QED
  BY <1>1, NumbersKeepTheirPlace, PTL

\* Without deletions a restarted manager numbers its events above all those
\* handed out before.
THEOREM SequenceAlwaysAboveHistory == Spec => []SequenceAboveHistory
<1>1. NInv => SequenceAboveHistory
  BY DEF NInv, SequenceAboveHistory, EventsOK
<1> QED
  BY <1>1, NumbersKeepTheirPlace, PTL
=============================================================================
