----------------------------- MODULE TaskManager -----------------------------
(***************************************************************************)
(* backend/src/tasks.rs: the durable record of every background task, the  *)
(* in-memory snapshots the process answers from, and the numbered events   *)
(* other parts follow.  Every method takes the "mutations" lock for its    *)
(* whole body, so one method is one action.  A method whose store call     *)
(* fails returns before it changes the snapshots or emits an event.  The   *)
(* store call then changed nothing, except in two places.  "create" makes  *)
(* two writes, and the first alone may last: CreateHalfWritten.  The others*)
(* update the row, then read it back: should the reading fail after the    *)
(* update, the row is a revision ahead of its snapshot.  That case is left *)
(* out: an update here succeeds or leaves the row alone.                   *)
(* The module also has what happens to the records when the process dies   *)
(* and starts again: the SQL transaction of Database, then                 *)
(* TaskManager::new, then recover_interrupted task by task.                *)
(*                                                                         *)
(* Left out: payloads, results, messages, counts and speeds.  Of the       *)
(* progress figures the module keeps whether any byte was transferred,     *)
(* because that decides whether an update is published.                    *)
(*                                                                         *)
(* Names of the form Fault_X are faulty variants of X, used to show that a *)
(* property notices the fault; no specification uses them.                 *)
(***************************************************************************)
EXTENDS TaskStatus, Naturals, Sequences, FiniteSets, FiniteSetsExt

CONSTANTS
  Tasks,          \* the task ids, UUIDs (a deleted id is never created again)
  MaxRevision,    \* bound: no task is changed once it has this revision
  MaxCrashes,     \* bound: the process dies at most this often
  ReplayCapacity  \* events the replay buffer keeps (4096 in the code)

ASSUME TaskManagerAssumption ==
  /\ IsFiniteSet(Tasks)
  /\ MaxRevision \in Nat \ { 0 }
  /\ MaxCrashes \in Nat
  /\ ReplayCapacity \in Nat \ { 0 }

VARIABLES
  phase,      \* "up", or how far a restart has come: "down", "migrated", "recovering"
  rows,       \* rows[t]: the tasks table; its status is "absent" where there is no row
  cache,      \* cache[t]: TaskManager.snapshots, same shape
  sequence,   \* TaskManager.sequence: the number of the last event
  replay,     \* TaskManager.replay: the last ReplayCapacity events
  unsettled,  \* tasks the loop of a restart has still to pass
  throttled,  \* tasks whose last published progress is younger than the interval
  created,    \* history: ids handed out so far
  ghosts,     \* history: ids whose creation failed after the first write
  deleted,    \* history: ids deleted so far
  published,  \* history: the highest event number ever emitted
  crashes     \* history: how often the process died

vars == << phase, rows, cache, sequence, replay, unsettled, throttled,
           created, ghosts, deleted, published, crashes >>

history == << created, ghosts, deleted, crashes >>

-----------------------------------------------------------------------------
(* Records and events.                                                      *)

Row == [ status    : Statuses \cup { "absent" },
         revision  : Nat,
         resumable : BOOLEAN,    \* the kind is download, training or reindex_library
         preview   : BOOLEAN,    \* a manifest to confirm has been stored
         decision  : BOOLEAN,    \* confirm_decision is set
         retryable : BOOLEAN,    \* the stored error says "retryable"
         moved     : BOOLEAN,    \* bytes_processed > 0
         staged    : BOOLEAN ]   \* the stage differs from the initial one

NoRow == [ status |-> "absent", revision |-> 0, resumable |-> FALSE, preview |-> FALSE,
           decision |-> FALSE, retryable |-> FALSE, moved |-> FALSE, staged |-> FALSE ]

NewRow(resumable) ==
  [ NoRow EXCEPT !.status = "queued", !.revision = 1, !.resumable = resumable ]

Event == [ sequence : Nat, task : Tasks, revision : Nat,
           event : { "created", "updated", "deleted" }, status : Statuses ]

\* Every stored change moves the revision up by one.
Revised(row) == [ row EXCEPT !.revision = @ + 1 ]

\* One more event: it takes the next number, and the oldest one may fall out.
Emit(t, row, name) ==
  LET event == [ sequence |-> sequence + 1, task |-> t, revision |-> row.revision,
                 event |-> name, status |-> row.status ]
      kept  == IF Len(replay) = ReplayCapacity THEN Tail(replay) ELSE replay
  IN  /\ sequence' = sequence + 1
      /\ replay' = Append(kept, event)
      /\ published' = IF sequence + 1 > published THEN sequence + 1 ELSE published

\* Fault: the event carries the snapshot from before the change.
Fault_Persist(t, row) ==
  LET next == Revised(row)
  IN  /\ rows' = [ rows EXCEPT ![t] = next ]
      /\ cache' = [ cache EXCEPT ![t] = next ]
      /\ Emit(t, cache[t], "updated")
      /\ UNCHANGED << phase, history >>

\* persist_task and emit: store first, then the snapshots, then the event.
Persist(t, row) ==
  LET next == Revised(row)
  IN  /\ rows' = [ rows EXCEPT ![t] = next ]
      /\ cache' = [ cache EXCEPT ![t] = next ]
      /\ Emit(t, next, "updated")
      /\ UNCHANGED << phase, history >>

\* How the methods end, which run in a process that has recovered.
Commit(t, row) == Persist(t, row) /\ UNCHANGED unsettled

\* load_task: the snapshots answer, the methods below then look at the status.
Loaded(t, statuses) ==
  /\ phase = "up"
  /\ cache[t].status \in statuses

\* Bound: what a method may still change.
Changeable(t) == cache[t].revision < MaxRevision

ClearThrottle(t) == throttled' = throttled \ { t }

-----------------------------------------------------------------------------
(* The methods.                                                             *)

\* create: insert writes the row, then the full snapshot.
Create(t, resumable) ==
  /\ phase = "up"
  /\ t \notin created
  /\ created' = created \cup { t }
  /\ rows' = [ rows EXCEPT ![t] = NewRow(resumable) ]
  /\ cache' = [ cache EXCEPT ![t] = NewRow(resumable) ]
  /\ Emit(t, NewRow(resumable), "created")
  /\ UNCHANGED << phase, unsettled, throttled, ghosts, deleted, crashes >>

\* create when the second write of insert fails: the caller gets an error, no
\* snapshot and no event exist, and the row stays.
CreateHalfWritten(t, resumable) ==
  /\ phase = "up"
  /\ t \notin created
  /\ created' = created \cup { t }
  /\ ghosts' = ghosts \cup { t }
  /\ rows' = [ rows EXCEPT ![t] = NewRow(resumable) ]
  /\ UNCHANGED << phase, cache, sequence, replay, unsettled, throttled, deleted,
                  published, crashes >>

\* Fault: the snapshot of a deleted task stays.
Fault_DeleteTerminal(t) ==
  /\ Loaded(t, TerminalStatuses)
  /\ rows' = [ rows EXCEPT ![t] = NoRow ]
  /\ ClearThrottle(t)
  /\ Emit(t, cache[t], "deleted")
  /\ deleted' = deleted \cup { t }
  /\ UNCHANGED << phase, cache, unsettled, created, ghosts, crashes >>

DeleteTerminal(t) ==
  /\ Loaded(t, TerminalStatuses)
  /\ rows' = [ rows EXCEPT ![t] = NoRow ]
  /\ cache' = [ cache EXCEPT ![t] = NoRow ]
  /\ ClearThrottle(t)
  /\ Emit(t, cache[t], "deleted")
  /\ deleted' = deleted \cup { t }
  /\ UNCHANGED << phase, unsettled, created, ghosts, crashes >>

Start(t) ==
  /\ Loaded(t, Startable)
  /\ Changeable(t)
  /\ Commit(t, [ cache[t] EXCEPT !.status = "running" ])
  /\ ClearThrottle(t)

Pause(t) ==
  /\ Loaded(t, Pausable)
  /\ Changeable(t)
  /\ Commit(t, [ cache[t] EXCEPT !.status = PauseTarget(@) ])
  /\ ClearThrottle(t)

Resume(t) ==
  /\ Loaded(t, Resumable)
  /\ Changeable(t)
  /\ Commit(t, [ cache[t] EXCEPT !.status = "queued" ])
  /\ ClearThrottle(t)

Cancel(t) ==
  /\ Loaded(t, Cancellable)
  /\ Changeable(t)
  /\ Commit(t, [ cache[t] EXCEPT !.status = CancelTarget(@) ])
  /\ ClearThrottle(t)

AcknowledgeStop(t) ==
  /\ Loaded(t, StopRequested)
  /\ Changeable(t)
  /\ Commit(t, [ cache[t] EXCEPT !.status = AckTarget(@) ])
  /\ ClearThrottle(t)

\* progress: dropped without a trace while the last one is recent, else stored;
\* a report of nothing done yet leaves the next report unthrottled.
Progress(t, moved, items) ==
  /\ Loaded(t, { "running" })
  /\ Changeable(t)
  /\ t \notin throttled
  /\ Commit(t, [ cache[t] EXCEPT !.moved = moved ])
  /\ throttled' = IF items \/ moved THEN throttled \cup { t } ELSE throttled \ { t }

\* stream_progress: as above, but bytes never go back and the first bytes of
\* a transfer are always published.
StreamProgress(t, moved) ==
  /\ Loaded(t, { "running" })
  /\ Changeable(t)
  /\ t \notin throttled \/ (~cache[t].moved /\ moved)
  /\ Commit(t, [ cache[t] EXCEPT !.moved = @ \/ moved ])
  /\ throttled' = throttled \cup { t }

\* The persist interval since the last published progress has passed.
ThrottleElapses(t) ==
  /\ t \in throttled
  /\ ClearThrottle(t)
  /\ UNCHANGED << phase, rows, cache, sequence, replay, unsettled, published, history >>

\* Fault: a result is accepted although a stop was requested meanwhile.
Fault_Complete(t) ==
  /\ Loaded(t, Executing)
  /\ Changeable(t)
  /\ Commit(t, [ cache[t] EXCEPT !.status = "completed", !.retryable = FALSE ])
  /\ ClearThrottle(t)

Complete(t) ==
  /\ Loaded(t, { "running" })
  /\ Changeable(t)
  /\ Commit(t, [ cache[t] EXCEPT !.status = "completed", !.retryable = FALSE ])
  /\ ClearThrottle(t)

Fail(t, retryable) ==
  /\ Loaded(t, Failable)
  /\ Changeable(t)
  /\ Commit(t, [ cache[t] EXCEPT !.status = "failed", !.retryable = retryable ])
  /\ ClearThrottle(t)

Retry(t) ==
  /\ Loaded(t, { "failed" })
  /\ Changeable(t)
  /\ cache[t].retryable
  /\ Commit(t, [ cache[t] EXCEPT !.status = "queued", !.retryable = FALSE, !.moved = FALSE ])
  /\ ClearThrottle(t)

AwaitConfirmation(t) ==
  /\ Loaded(t, { "running" })
  /\ Changeable(t)
  /\ Commit(t, [ cache[t] EXCEPT !.status = "awaiting_confirmation", !.preview = TRUE ])
  /\ ClearThrottle(t)

Confirm(t) ==
  /\ Loaded(t, { "awaiting_confirmation" })
  /\ Changeable(t)
  /\ Commit(t, [ cache[t] EXCEPT !.status = "queued" ])
  /\ UNCHANGED throttled

ConfirmWithDecision(t) ==
  /\ Loaded(t, { "awaiting_confirmation" })
  /\ Changeable(t)
  /\ Commit(t, [ cache[t] EXCEPT !.status = "running", !.decision = TRUE ])
  /\ ClearThrottle(t)

SetStage(t) ==
  /\ Loaded(t, { "running" })
  /\ Changeable(t)
  /\ Commit(t, [ cache[t] EXCEPT !.staged = ~@ ])
  /\ UNCHANGED throttled

-----------------------------------------------------------------------------
(* The process dies and starts again.                                       *)

Crash ==
  /\ phase # "down"
  /\ crashes < MaxCrashes
  /\ phase' = "down"
  /\ cache' = [ t \in Tasks |-> NoRow ]
  /\ sequence' = 0
  /\ replay' = << >>
  /\ unsettled' = {}
  /\ throttled' = {}
  /\ crashes' = crashes + 1
  /\ UNCHANGED << rows, created, ghosts, deleted, published >>

Recovered(row) ==
  [ row EXCEPT !.status = RecoveredStatus(@, row.resumable), !.retryable = FALSE ]

\* Database::recover_interrupted_tasks: one transaction over the running rows.
RecoverRows ==
  /\ phase = "down"
  /\ phase' = "migrated"
  /\ rows' = [ t \in Tasks |->
                IF rows[t].status = "running" THEN Revised(Recovered(rows[t])) ELSE rows[t] ]
  /\ UNCHANGED << cache, sequence, replay, unsettled, throttled, published, history >>

\* The tasks recover_interrupted goes over: those with a row when it starts.
Stored == { t \in Tasks : rows[t].status # "absent" }

\* Fault: numbering goes on from the highest stored revision.
Fault_OpenManager ==
  /\ phase = "migrated"
  /\ phase' = "recovering"
  /\ cache' = rows
  /\ unsettled' = Stored
  /\ sequence' = Max({ rows[t].revision : t \in Tasks })
  /\ UNCHANGED << rows, replay, throttled, published, history >>

\* TaskManager::new: numbering goes on from the sum of the stored revisions.
OpenManager ==
  /\ phase = "migrated"
  /\ phase' = "recovering"
  /\ cache' = rows
  /\ unsettled' = Stored
  /\ sequence' = MapThenSumSet(LAMBDA t : rows[t].revision, Tasks)
  /\ UNCHANGED << rows, replay, throttled, published, history >>

\* Fault: the loop passes over the tasks that were being cancelled.
Fault_RecoverTask(t) ==
  /\ phase = "recovering"
  /\ t \in unsettled
  /\ unsettled' = unsettled \ { t }
  /\ \/ /\ cache[t].status \in Executing \ { "cancelling" }
        /\ Persist(t, Recovered(cache[t]))
     \/ /\ cache[t].status \notin Executing \ { "cancelling" }
        /\ UNCHANGED << phase, rows, cache, sequence, replay, published, history >>
  /\ UNCHANGED throttled

\* One round of the loop of TaskManager::recover_interrupted, which goes over a
\* copy of the snapshots: a task that executes is settled, others are passed.
RecoverTask(t) ==
  /\ phase = "recovering"
  /\ t \in unsettled
  /\ unsettled' = unsettled \ { t }
  /\ \/ /\ cache[t].status \in Executing
        /\ Persist(t, Recovered(cache[t]))
     \/ /\ cache[t].status \notin Executing
        /\ UNCHANGED << phase, rows, cache, sequence, replay, published, history >>
  /\ UNCHANGED throttled

\* The loop is through, whatever it did: the process begins to serve.
RecoveryDone ==
  /\ phase = "recovering"
  /\ unsettled = {}
  /\ phase' = "up"
  /\ UNCHANGED << rows, cache, sequence, replay, unsettled, throttled, published, history >>

-----------------------------------------------------------------------------
Init ==
  /\ phase = "up"
  /\ rows = [ t \in Tasks |-> NoRow ]
  /\ cache = [ t \in Tasks |-> NoRow ]
  /\ sequence = 0
  /\ replay = << >>
  /\ unsettled = {}
  /\ throttled = {}
  /\ created = {}
  /\ ghosts = {}
  /\ deleted = {}
  /\ published = 0
  /\ crashes = 0

Create_(t) == \E r \in BOOLEAN : Create(t, r) \/ CreateHalfWritten(t, r)
Reports(t) == \E b \in BOOLEAN : StreamProgress(t, b) \/ \E i \in BOOLEAN : Progress(t, b, i)
Controls(t) == Pause(t) \/ Resume(t) \/ Cancel(t) \/ Retry(t) \/ Confirm(t)
                 \/ ConfirmWithDecision(t) \/ DeleteTerminal(t)
Works(t) == Start(t) \/ AcknowledgeStop(t) \/ Complete(t) \/ AwaitConfirmation(t)
              \/ SetStage(t) \/ \E r \in BOOLEAN : Fail(t, r)
Restarts == Crash \/ RecoverRows \/ OpenManager \/ RecoveryDone
              \/ \E t \in Tasks : RecoverTask(t)

Next ==
  \/ \E t \in Tasks : \/ Create_(t)
                       \/ Controls(t)
                       \/ Works(t)
                       \/ Reports(t)
                       \/ ThrottleElapses(t)
  \/ Restarts

Spec == Init /\ [][Next]_vars

-----------------------------------------------------------------------------
(* Properties.                                                              *)

RecordsOK ==
  /\ phase \in { "up", "down", "migrated", "recovering" }
  /\ rows \in [ Tasks -> Row ]
  /\ cache \in [ Tasks -> Row ]
  /\ unsettled \subseteq Tasks
  /\ throttled \subseteq Tasks
  /\ created \subseteq Tasks
  /\ ghosts \subseteq created
  /\ deleted \subseteq created
  /\ crashes \in Nat

EventsOK ==
  /\ sequence \in Nat
  /\ published \in Nat
  /\ replay \in Seq(Event)
  /\ Len(replay) <= ReplayCapacity

TypeOK == RecordsOK /\ EventsOK

Serving == phase \in { "up", "recovering" }

\* Whichever of its writes a creation fails in, and whenever the process
\* restarts, the snapshots a serving process answers from are the stored rows;
\* a row without a snapshot is the leftover of a failed creation, and no snapshot
\* is ever without its row.  (An update whose reading back fails is left out.)
StoreMirrorsCache ==
  Serving => \A t \in Tasks :
    \/ cache[t] = rows[t]
    \/ t \in ghosts /\ cache[t].status = "absent" /\ rows[t] = NewRow(rows[t].resumable)

\* A follower that applies the buffered events in order ends with the stored
\* state: event numbers have no holes, and the last buffered event of a task
\* carries the status and the revision of its row, or says it is gone.
ReplayTellsState ==
  Serving =>
    /\ \A i \in DOMAIN replay : replay[i].sequence = sequence - Len(replay) + i
    /\ \A i \in DOMAIN replay :
         LET e == replay[i]
             last == \A j \in DOMAIN replay : j > i => replay[j].task # e.task
         IN  last => IF e.event = "deleted"
                     THEN rows[e.task] = NoRow
                     ELSE /\ rows[e.task].status = e.status
                          /\ rows[e.task].revision = e.revision

\* Only a running task has a fresh progress mark, so the first report after a
\* pause, a retry or a confirmation is never swallowed by the throttle of the
\* run before it.
ThrottleOnlyRunning == \A t \in throttled : cache[t].status = "running"

\* As long as no task was ever deleted, a restarted manager numbers its events
\* above every event number handed out before the restart.
SequenceAboveHistory == Serving /\ deleted = {} => sequence >= published

\* What the test manager_restart_keeps_event_sequences_above_persisted_history
\* says of every restart.
RestartKeepsSequencesAboveHistory == Serving => sequence >= published

\* A cancel request that reached a running task is never lost: whatever the
\* user, the worker or a crash does next, the status that follows is cancelled.
CancelSticks ==
  [][\A t \in Tasks : rows[t].status = "cancelling" =>
       rows'[t].status \in { "cancelling", "cancelled" }]_vars

\* No two different contents of a row share a revision, not even across a
\* crash: every change of a row moves its revision up by one.
RevisionsGrow ==
  [][\A t \in Tasks : rows'[t] # rows[t] /\ rows'[t].status # "absent"
       => rows'[t].revision = rows[t].revision + 1]_vars

\* When a restarted process begins to serve, no task still claims to be
\* executing: every worker died with the old process.  Recovery has settled
\* each of them, in the transaction over the running rows or in the loop over
\* the snapshots, also when the process dies again in the middle of either.
RestartLeavesNoneExecuting ==
  [][phase = "recovering" /\ phase' = "up"
       => \A t \in Tasks : rows'[t].status \notin Executing]_vars

\* The stored status follows the promised life of a task, restarts included.
Lifecycle == INSTANCE TaskLifecycle WITH status <- [ t \in Tasks |-> rows[t].status ]
LifecycleSpec == Lifecycle!Spec
=============================================================================
