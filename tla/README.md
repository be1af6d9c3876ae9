# Danbooru Download Tool: a verification project

TLA+ models of the task system of the Danbooru download tool (`backend/src`, the store of
its page in `frontend/src/stores`, and what it runs for a training), the TLC configurations
that check them on small instances, and TLAPS proofs of what matters most for every
instance. The source is the reference: `PROJECT.json` maps every definition to
the lines it was translated from.

## 1. The system

The program is a local workbench: one Rust process (axum, tokio, SQLite) and a Vue client.
Its own logic is in how it runs background work; most of the rest is validation, file I/O,
image work and presentation.

| Part | Source | State | Operations | Talks to |
|---|---|---|---|---|
| Task manager | `tasks.rs`, task tables of `database.rs` | rows in SQLite, snapshots in memory, throttle marks, event counter and replay buffer | create, start, pause, resume, cancel, acknowledge_stop, progress, stream_progress, complete, fail, retry, await_confirmation, confirm, confirm_with_decision, set_stage, delete_terminal, recover_interrupted | called by handlers and workers; emits events |
| GPU lease manager | `training.rs` | holders of GPUs, waiting tasks with tickets, a watch channel | register_waiting, try_acquire, release, notify_waiters | workers, the pause and cancel handlers |
| Task workers and task API | `routes/api.rs` | active set, per-root scheduling locks, class slots, worker slots | create, control, delete; spawn_task_worker and the task bodies | all of the above |
| Event feed, client store | `tasks.rs`, `routes/api.rs`, `stores/tasks.ts` | event streams; in the page its tasks, the last event's number, held-back updates, one snapshot request | stream, replay, resynchronise, poll, merge, control, reconnect | task manager |
| vLLM runtime | `routes/api.rs`, `services/vllm.rs` | generation, leases, pending acquires, starting/stopping flags | acquire, release, unload | vLLM and augmentation bodies |
| CL tagger runtime | `routes/api.rs`, `services/cl_tagger.rs` | loaded model | load, use, unload | handlers, augmentation |
| Downloads | `routes/api.rs`, `services/danbooru_client.rs`, `database.rs` | task items, `.part` files, media files and captions, registered posts | transfer, rename, caption, register, roll back, abort, sweep | task manager, root write lock |
| Training run | `routes/api.rs`, `telemetry_launcher.py`, `train_network.py`, `sdxl_train.py` | `control.json`, `resume_state`, checkpoints; step and epoch counters of the trainer | launch, request a stop, kill, observe a log, save, rotate, resume | task manager; a child process |
| Quarantine tools | `services/image_processor.rs`, `routes/api.rs` | manifest, quarantined files and their rows | plan, apply, roll back, restore | task manager, database |
| The rest | see `PROJECT.json` | | | |

What is hard in it: users act on tasks while workers come and go; a worker takes five
things in turn (root, GPUs, class slot, worker slot, the task's status) and can be told
to stop at each; the process can die at any point; and clients follow all of it through
numbered events. What makes each part correct:

* task manager: store, snapshots and events agree, whatever fails; a restart leaves nothing
  "executing"; a cancellation is never lost; event numbers and revisions grow;
* GPU leases: exclusive and all at once, no lost wake-up, no starvation of older requests;
* workers: one per task, no two on the same root or GPU, no task left without one, every
  stop request answered, no file moved before a confirmation;
* feed and client: after the last event the client shows what the server has;
* vLLM and CL tagger: not unloaded while in use, not left half started, loaded once;
* downloads: no partial file is registered, none that a transfer writes is removed, what is
  registered is on the disk, completed means done;
* training: a pause loses no step, a resumed trainer goes on with the right data, the last
  checkpoints are always there, a stop is answered;
* quarantine: a rolled-back batch leaves the catalogue and the disk as they were.

`PROJECT.json` lists the hazards one by one, at their lines.

## 2. The modules

| Module | Models |
|---|---|
| `TaskStatus` | the statuses and which of them each method accepts |
| `TaskLifecycle` | abstract: which status may follow which |
| `TaskManager` | `tasks.rs` with its store, a half-failed creation, crash and recovery |
| `TaskManagerProofs` | theorems about it |
| `ExclusiveUse` | abstract: exclusive, all-or-nothing use of resources |
| `GpuLeases` | `GpuLeaseManager`, one operator per method |
| `GpuLeasesProofs` | lemmas about its methods, for the proofs about the two modules that use it |
| `GpuQueue` | the lease manager with the workers that wait at it, and nothing else |
| `GpuQueueProofs` | theorems about it |
| `TaskWorkers` | the task handlers and `spawn_task_worker`, with leases, root lock and slots |
| `TaskWorkersProofs` | theorems about it |
| `SharedResource` | abstract: a resource started, used by many, stopped when nobody uses it |
| `VllmRuntime` | the coordinator of the vLLM server, with the calls that start, share and stop it |
| `VllmRuntimeProofs` | theorems about it |
| `TaskFeed` | events from their emission to the page: buffer, channel, stream, snapshot, merge |
| `TaskFeedProofs` | theorems about it |
| `Downloads` | the bodies of download tasks and their transfers, into one directory |
| `DownloadsProofs` | theorems about it |
| `TrainingRun` | a training task, the bridge around its trainer, the trainer's loop and files |
| `TrainingRunProofs` | theorems about it |
| `MC*` | constants for TLC |

`TaskManager` and `TaskWorkers` both implement `TaskLifecycle`: the first keeps the records
and abstracts from who calls, the second keeps the callers and abstracts from the records.
`GpuQueue` and `TaskWorkers` share `GpuLeases`. `GpuLeases` promises `ExclusiveUse`,
`VllmRuntime` promises `SharedResource`; to `TaskWorkers` the latter is part of a task body.
`Downloads` and `TrainingRun` open two of the bodies that `TaskWorkers` keeps closed, and take
their statuses from `TaskStatus` as it does; `TaskFeed` takes over where `TaskManager` has
emitted an event.

### How the models correspond to the code

*TaskManager.* Every method of `TaskManager` holds the `mutations` lock for its whole body,
so one method is one action. `Commit` is `persist_task`, then the snapshot, then `emit`. A
method whose store call fails before it wrote returns before it changes anything, so it is a
step that does not happen. Two calls can fail half-way: `insert`, which is two SQL statements
(`CreateHalfWritten`), and `update_task_snapshot`, which reads the row back after its UPDATE
(`database.rs:2524-2548`): if that fails, the row has changed and the snapshot has not, and no
event is sent. The second is left out. `start` and `resume` clear their progress mark just after they gave
the lock back; the model does it in the same step. A restart is `Crash`, the SQL transaction
(`RecoverRows`), `TaskManager::new` (`OpenManager`) and the loop of `recover_interrupted` over
the snapshots: `unsettled` is what the loop has still to pass, `RecoverTask` passes a task and
settles it if its status is one the loop looks for, `RecoveryDone` is the end of the loop,
whatever it passed over. The process can die again between any two of these. Payloads, counts, speeds and
messages are left out; of the bytes transferred the model keeps whether there are any, since
that decides whether a report is published. `take_confirm_decision` is called by nothing and
is left out.

*GpuLeases, GpuQueue.* One method, one action: each runs under one lock. Tickets are kept as
the order they induce. `woken` is the set of tasks whose watch receiver has an unseen change.

*TaskWorkers.* A worker is a pair of a task and a seat, so that two workers of one task can
be represented. Its program counter names the waits of `spawn_task_worker`:

| `pc` | where the worker is |
|---|---|
| `spawned`, `fresh` | ticket not drawn yet; receiver not subscribed yet |
| `top`, `rootwait`, `rootlost`, `rootfailed` | in `acquire_queued_task_root_schedule` and its error branch |
| `gpu`, `gpuwait` | at `try_acquire`; in `changed().await` |
| `resource`, `slot`, `starting` | at the class slot, the worker slot, `TaskManager::start` |
| `body`, `applying` | in the task body; moving the files of a confirmed manifest |
| `completing`, `failing`, `recording`, `acking`, `releasing`, `ending` | after the body, step by step |
| `leaving`, `dropping` | one of the two early exits |

Of a task body the model keeps what it does to the status: when it looks for a stop request,
that its progress report starts a task it finds queued, which bodies go on reporting after a
part of them has seen a stop, and how it ends. Merged into one action each: storing a pause
and telling the GPU waiters; reading the status and completing or acknowledging, since the
manager refuses what no longer fits (a failure is two steps, `failing` and `recording`: `fail`
also accepts a task that was paused and resumed in between, and fails it); releasing the leases and leaving the active set at an early exit. The
second root lock, `root_writes`, is not modelled: a body takes it under the scheduling lock.
Semaphores grant in order of arrival; the model grants in any order, under strong fairness.

`orphaned` is a history variable: the tasks that fell into one of four holes the code has
(finding 1, `RunningHasWorker` below, a confirmation with a decision, a stop request between
the two steps of a failing root look-up). The invariant `LiveTaskHasWorker` says there is no
fifth: of the four themselves it says nothing.

*VllmRuntime.* `rt` is `VllmRuntimeState`, field by field (the failure kept for the waiters is
only whether there is one; the generation is a 64-bit number that will not wrap). A call is
one use of `acquire_vllm_runtime` and `release_vllm_runtime`, or of the handler `vllm_unload`,
and is made once. Its program counter:

| `pc` | where the call is |
|---|---|
| `entry` | at the lock, at the top of the loop |
| `waiting` | in `changed.await`, for a start or a stop |
| `probe`, `launch`, `poll`, `cleanup` | the leader's start: is a server there, start one, poll it, stop it again |
| `found`, `launched`, `notlaunched`, `cleaned`, `notcleaned` | the start is over, the result not recorded |
| `using` | has a lease |
| `stop` | the handler `vllm_unload`, at the lock |
| `unloading`, `unloaded`, `notunloaded` | waits for the stop script; its result not recorded |
| `cancelling` | the task that `PendingVllmAcquire::drop` spawns |

A stop script runs in a blocking thread of its own, apart from the call that waits for it:
`script` says of each call whether its script runs. When the wait is given up after thirty seconds
(`ScriptTimesOut`) the script is `overdue` and runs on (`StrayScriptEnds`, or never), while the
coordinator takes the stop for failed and hands out leases again; when the handler is dropped it
runs on as well. `StopsNobody` says that no script runs while anybody has a lease, except an
overdue one. What a script does to the server is not modelled: `OwnedIsUnloaded` and
`ResourceSpec` are statements about the coordinator's flags, the first up to a failed unload.
`found` and `loads` are history variables, where the server comes from and which users' loads
had a lease of it; `KeptLoadedStays` is stated with them and not with the flags the code decides
by.

The server and its scripts are other processes and answer anything at any time. The handlers
`vllm_load` and `vllm_unload` are dropped at any await when their client goes away
(`Disconnect`); task workers are not. `leaked` and `stuck` are history variables for what the
code does not undo: leases of augmentations that failed (see `VllmRuntimeLast.cfg` below) or
of dropped handlers, and starts and stops whose handler was dropped.

*TaskFeed.* On the server an emission is two steps, as in the code: the event gets its number
(`Number`, with the snapshot, under the mutation lock), then goes into the buffer and the
channel (`SendEvent`). A stream is its program counter in `task_events`: `opening`, `replay`
(before `replay_after` reads the latest number), `locked` (before it has the buffer), `receive`.
A receiver that lags falls back to the buffer; a position the buffer no longer has is answered
with a resync frame, unless the buffer is overrun between the two reads of `replay_after`: then
the number read first still fits, the events do not, and the stream goes on with the oldest
event there is, without a word. `overrun`, in the stream's record, is a history of where that
happened, and `StreamGapless` names it; with 4096 events of buffer it takes as many emissions
between two statements. Of the buffer `ReplayAfter` keeps the events above a number; since
numbers go up by one, that is the buffer from where it begins, or from behind that number. In
the page every callback is one action: `ReceiveSnapshot`, `ReadEvent`, `FlushProgress`,
`ReceiveAnswer`, `SourceFails`, `Connect`, `Poll`. `known`, `lastId`, `pending` and `sync` are
its `tasks`, `lastEventId`, `pendingProgressEvents` and `syncing`. Of a task the module keeps
the revision and one of three moods. `holes` is a history variable: the four ways the page has
to lose track, each with the number of the first snapshot that mends it:

| Hole | How the page loses track |
|---|---|
| `resync` | the resync frame is a named event, and the page has a handler for unnamed ones only |
| `gap` | an event is missing, the page asks for a snapshot, and one is in flight already that is older |
| `overwritten` | the answer to a control request replaces a newer task, or brings back a deleted one |
| `renumbered` | after a restart the server's numbers are below the page's position (`TaskManagerSequence.cfg`) |

`CatchesUp` says there is no fifth: in the end the page shows every task as it is, unless it has
a hole left and does not poll, because it shows no active task, or polls in vain, because it is
ahead of the server. Tasks deleted while the page was away stay on it: a merge keeps them.
`NeverBackwards` speaks of deletions the page has followed up to (`Followed`): past a gap or a
renumbering it may have a number above a deletion it never read, and an update of that task held
back, which the next flush shows. An error message that
a dropped snapshot leaves standing is in the model (`error`) and in no property. Left out:
`disconnect`, which the application never calls while it is open.

*Downloads.* A task is its worker (`pc`: waiting for the root, in the body, ended, settling,
leaving), the positions still to fetch and its counters; a transfer is a record per task and
post: `asking` the site, `writing` the part file, `renamed`, `registering`, `done`. Downloads,
registration and its rollback are step by step, and a caption that cannot be written takes the
new media file back; `abort_all` drops a transfer wherever it is, but
a registration that has begun goes on (`orphans`). The history variables name what this leads to:

| Variable | What happened |
|---|---|
| `cut` | a transfer was dropped between its rename and its caption; the next run takes the file for one that was there and writes no caption |
| `undone` | a registration that outlived its run rolls back, and removes the file the next run has registered |
| `late` | a registration that outlived its run settles its item after the next run has read its counters |
| `unswept` | the task ended without a worker: cancelled while paused or queued, or in a restart |

Each is necessary: without it TLC finds the property that names it violated. Abstracted: a post
is one file (no pairs of an animation and its frames); all tasks write into one directory and
name a post alike; posts come from a list of ids, not from a query; `keep_sidecar_txt` and
`skip_existing` are on; the scheduling lock and the write lock of the root are one; of a file
only whether it is there. Writes of the blocking file pool that land after an abort, and files
a user deletes, are not modelled.

*TrainingRun.* `worker` is `run_training_task`: `launching`, `watching` the child, or `joining`
the threads that read its output. `control`, `disk` and `run` are `control.json`,
the files of the run directory and the trainer. The trainer's `pc` and `todo` are where its loop
is and which files it has to write or remove before it goes on; `current_step`, `global_step`,
`initial_step` and `epoch` are the script's own counters, and `trained` is how often it really
took an optimizer step. A write is two steps, so that a kill or crash leaves half a file. The
trainer may fail or hang anywhere, or find no data and exit with code 0.

The trainer is a child of the launcher, and may outlive its worker. `tree` in the request says
what a kill does: it ends the whole process tree, as on Windows, or only the launcher
(`api.rs:12551-12556`), and then the worker waits for the trainer to close its output, without a
limit; `StopAnswered` names that wait. An error while the worker watches ends the worker and not
the trainer (`WatchFails`), and so may a crash of the program. The next launch looks for no
trainer: `beside` is a history variable, that one was started beside another. From then on the
model follows the newer one, and the older one tears files the newer one needs (`StrayWrites`);
what else the older one writes, to `control.json` too, is left out, and `KeepsLast`,
`CompletedIsTrained` and `PauseLosesNothing` speak of runs without it. A training under WSL is
counted as a tree that a kill reaches, though whether `taskkill` on `wsl.exe` does so is not in
the source.

`PauseLosesNothing` has two cases. A request without a state of its own goes on where the
announced pause was. One that names a state starts from that again at every resumption, and the
state saved by the pause is passed over (`api.rs:12099-12112`): every step since is lost, and the
property says so. Abstracted: batches are steps (no gradient accumulation),
checkpoints are saved by steps, training states by the bridge only; the result is settled in one
step, which `TaskWorkers` has in detail. `Miscounted` is a fact of the
code (`train_network.py:1352-1355`): a state saved at the first log, before any step, says one
step has been taken.

## 3. The runs

| Run | Instance | Shows |
|---|---|---|
| `task_manager` | 2 tasks, revisions to 5, 1 crash, buffer of 2 | consistency of store, snapshots, events; recovery; life cycle |
| `gpu_queue` | 3 tasks, 2 GPUs, one task wants both | exclusion, wake-ups, no starvation of a ticket |
| `task_workers_files` | a download and a tool on one root, 2 seats, 2 worker slots, 3 user actions, 1 restart | one worker per task, exclusion, no lost task, confirmation |
| `task_workers_gpu` | augmentation and vLLM tagging, one root, one shared GPU, 3 user actions, 1 restart | leases follow workers, nobody sleeps through a chance |
| `task_workers_live` | download and tool, 3 user actions, no GPU | stops acknowledged; queued tasks served at the root and the slots |
| `task_workers_queued` | download and tool | finding 1 |
| `task_workers_ticket` | augmentation and vLLM tagging, no user action | finding 2 |
| `vllm_runtime` | 2 tasks and a manual load on one model, a task with another model, a manual unload | counters, no stop in use but by an overdue script, unload after the last, nobody waits for ever, `SharedResource` |
| `task_feed` | 2 tasks, 3 changes, buffer and channel of 1, 1 failure or restart | streams without gaps but after an overrun, no going back, catching up, reconnecting |
| `downloads` | 2 tasks that share one of 3 posts, 2 transfers at a time, 3 user actions, 2 failures or crashes | part files, registered files, counts, sweeping |
| `training_run` | 7 kinds of request, epochs of 4 batches, 6 steps, a checkpoint every 2, the last 2 kept, 3 user actions, 2 failures or crashes | rotation, data order, completeness, pauses, stops answered |
| `training_run_stop` | the same requests, no failure | finding 3 |

Why the bounds are enough. Two tasks are what it takes to meet at a root, a GPU, a slot or in
the event log; with a third only the order in a queue gets longer, and `gpu_queue`, where
order is the point, has three. Two user actions stop and resume a task, which is what every
known hole needs; the third stops it again, confirms it, or acts on the other task. With two
worker slots the slots separate no two bodies, so that only the root lock can. A second seat
is free whenever a task has a worker, so a second worker would show. One restart at any point,
of any state, is the general case: a restart leaves no memory but the statuses. A replay buffer
of two events overflows and still holds an order. At the vLLM runtime, three calls on one model
are a leader and two waiters with reservations, the fourth conflicts with them and the fifth stops.

In the feed, three changes overflow a buffer of one event, also between the two reads of
`replay_after`, and lag a channel of one, with a task left over to be created, changed or deleted
while the page is away (with a buffer of two, three changes are too few for the overrun, and
`StreamGapless` holds without naming it: the proof for every capacity is what found it, and the
case of `NeverBackwards` above, which takes more changes); one failure is a lost connection,
a failed request or a restart, and the page recovers from each in the same way. In the
downloads, two tasks and a shared post are what it takes to sweep a directory somebody writes
into; the first task wants two of its three posts, so that one may fail or be skipped; three user
actions are pause, resume and pause again, or cancel; two faults let a registration fail after
the abort of an earlier run. In the training run, six steps in epochs of four end in the middle
of an epoch and rotate checkpoints twice; three user actions stop, resume and stop again; two
faults are a trainer that outlives its worker and a file it tears under the next one, or a failure
of a pause and of the run after it; the seven requests are the combinations that reach different
code: a whole model that a kill reaches and one it does not, one without trackers, one from a state
of the user's, an adapter, and adapters that resume with and without skipping.

Bounds: `MaxRevision`, `MaxCrashes`, `MaxControls`, `MaxRestarts`, `MaxChanges`, `MaxFaults`,
`NumTasks`, `MaxSteps`, `Seats`, and one handler at a time between a task's status and its
worker (`NoHandler`).

Deadlock is not checked where the system may stop: all tasks ended and the bounds used up.

Fairness. Handlers and workers are tokio tasks that run whenever they can (weak fairness per
task or worker). Slots come from first-in-first-out semaphores (strong fairness on taking
one). A body looks for stop requests in every round and ends by itself (weak fairness); so do
the polls of vLLM and the waits for its stop script, which have time limits; a script nobody waits
for need not end. In the feed timers fire, requests
are answered or fail, and the stream's task and the page run on (weak fairness); a snapshot is
answered between two emissions, whose lock is granted in order of arrival (strong fairness). In
the training run only the worker is fair: it looks for stop requests and for the child's end in
a loop, and kills the child after thirty seconds; the trainer may hang, also when the kill
reached its launcher only. `downloads` has safety
properties only and needs no fairness. No fairness is put on users, crashes, failures, a late
progress report, a dropped handler or a waiter of vLLM that gives up. In a
fair run users act finitely often, because of `MaxControls`, and every call to vLLM is made
once.

The type invariants of `TaskManager`, `GpuQueue`, `TaskFeed`, `TrainingRun`, `VllmRuntime` and
`Downloads` are in no run: they are proved, as is that of `TaskWorkers`, which a run checks.

## 4. The findings

Each has a run that finds it and an entry in `PROJECT.json` with the text it contradicts.

1. *Queued with no worker* (`api.rs:11518`). The early exits do not look again under the lock
   of the active set, as the regular one does.
2. *A GPU wait that holds the root* (`api.rs:11553`). It deadlocks with an older ticket that
   waits for the root.
3. *A stop request that is never removed* (`api.rs:12447`). A trainer that ended without
   answering, killed or by itself, leaves `control.json` behind, and the trainer that resumes the
   task stops for it.

More counterexamples, kept as configurations to be run by hand:

| Configuration | Property | What TLC finds |
|---|---|---|
| `TaskManagerSequence.cfg` | `RestartKeepsSequencesAboveHistory` | event numbers go on from the sum of the stored revisions, and a deletion takes its task's revisions out of the sum (`tasks.rs:376`) |
| `GpuQueueRestart.cfg` | `OlderRequestServed` | a restarted round has no ticket: `register_waiting` is before the loop (`api.rs:11507`) |
| `TaskWorkersRunning.cfg` | `RunningHasWorker` | a late report starts the resumed task; its worker has stopped and leaves it running (`api.rs:12475`) |
| `VllmRuntimeLast.cfg` | `LastTaskUnloads` | an augmentation that fails while it retags keeps its lease; the model stays loaded and a manual unload is refused (`api.rs:13875`) |
| `TaskFeedResync.cfg` | `ResyncHeard` | the resync frame is lost on the page (`routes/api.rs`, `stores/tasks.ts`) |

## 5. The proofs

The proof modules assume only the named assumptions of the modules: bounds are natural numbers,
capacities, slots and the lengths of an epoch, of a training and between checkpoints are
positive, requests are sets of GPUs and a download or a tool asks for none, "no task" is not a
task, tasks, calls and posts are finitely many, no task asks for a post twice. They hold for any number of tasks, GPUs, seats, slots, calls,
posts, events, steps, crashes and revisions. Every inductive invariant was an invariant of a TLC run on
the instances of section 3 before it was proved.

*TaskManagerProofs.* `StoreMirrorsCache` alone is not inductive: a crash empties the snapshots
and recovery rebuilds them from rows that the SQL transaction changes first. `IInv` adds the
types, what snapshots are in each phase of a restart, that no half-created task has a snapshot
or is executing, that throttled tasks run, and that during recovery every executing task is still
ahead of the loop: it leaves none of them executing behind. One lemma (`MethodSaves`) says that every method
but creation, deletion and the reports is a `Commit` of one row; the invariant and the row
steps (`RowSteps`, `RevisionSteps`) follow from it once, not twenty times. From these follow
`SnapshotsAreRows`, `ThrottleIsOfThisRun`, `CancelIsNeverLost`, `RestartSettlesEveryTask`,
`RevisionsAlwaysGrow` and the refinement `ImplementsLifecycle`. `RevisionsGrow` is in no run:
the page's merge and the event numbers rest on it, and the proof covers every instance.

Its second half is about the event numbers. `NInv` says that the buffer is numbered without a
hole up to the sequence and that the last event of each task in it tells the stored row
(`Numbered`, `Tells`), and, as long as nothing was deleted, that the highest number ever
published is at most the sequence, and that at most the sum of all stored revisions: a method
adds one to each, and a restart takes the sum for the sequence. Without the upper end a restart
could not be shown to go on above the history. The sum is a fold over a set, of which the
library has no usable induction: `SumsExist` builds it from the sets of one size to the next,
with the least size that fails as a contradiction, and `SumGrows` takes a smallest set that
fails (`SmallestSet`), both from the library's fact that the finite sets are well-founded. From
`NInv` follow `ReplayAlwaysTellsState`, `SequenceAlwaysAboveHistory` and `TypeCorrect`, events
included.

*GpuQueueProofs.* `TypeOK` is inductive; `LeasesMatchWorkers` needs only it; exclusion
(`LeasesAreExclusive`, a refinement of `ExclusiveUse`) follows from what the lease table says
when `try_acquire` returns true. `NoLostWakeup` is inductive with them: taking GPUs or drawing
a ticket never makes a blocked task able to run (`AcquireKeepsBlocked`), and whatever can is a
release that wakes every receiver or changes nothing (`ReleaseWakesOrKeeps`). The lemmas about
the lease table are in *GpuLeasesProofs*, because *TaskWorkersProofs* needs them as well.

*TaskWorkersProofs.* No property of the run is inductive alone. That two bodies exclude each
other at a root needs that whoever goes on has the head of the queue (`RootIsOwned`), which
needs that nobody is queued twice or behind its time (`RootQueue`), which needs that a task has
one worker that lives (`OneWorker`); at the GPUs it needs `LeasesMatchWorkers`, and that again
`OneWorker`. That no task is forgotten is split into the queued ones, which are active, about to
be or in a hole (`QueuedIsKept`), and the executing ones, whose worker is not yet past the point
where it last looks at the status (`ExecutingIsKept`); `LiveTaskHasWorker` follows, and only
this split makes it inductive. A manifest nobody has confirmed is at rest (`PlansAtRest`): its
task awaits the confirmation, was cancelled or is gone, and no step moves it; that a task that
is gone does not come back is `CreatedOnRecord`. `SleeperIsBlocked` needs that only those sleep
who asked for a GPU (`SleeperAsks`), and the lease lemmas. `LeaveRoot` takes the worker's first
occurrence out of the queue; `RootQueue` is why that is its only one. The refinement of
`TaskLifecycle` goes by actions (`StatusesFollow`).

*TrainingRunProofs.* What the trainer has counted, trained and passed of its data is tied
together at each place of its loop: `Before` is the batches up to where it stands, `Position`
bounds its step counter by them and by `max_train_steps`, `Ordered` says the trained steps are
exactly those batches when the data were not skipped or repeated, `Trained` that they keep up
with them but for the one step that a state counts too many (`StateCounts`), until the last
model is saved with enough of them. `SavedSteps` and `Rotated` are `KeepsLast` with the
checkpoint that is about to be removed; that a rotation removes at most one needs that
checkpoints are at multiples of `SaveEvery` and none is missed. `PauseIsKept` says of every
place between the stop request and the next load that the state on the disk is the announced
one, as long as no trainer was started beside another; `PauseLosesNothing` is a step of it.
`Watched` says that a completed task has no worker and no trainer left. The arithmetic of epochs (quotients and products of
constants) is in lemmas of its own.

*VllmRuntimeProofs.* `StopsNobody` and `CountsRight` need each other: a lease protects its holder
only as long as it is counted, and the count is right only as long as no start and no stop
clears it under a holder. `VInv` joins them: the flags exclude one another (`Modes`), a start or
a stop is one call's business and of this generation (`Owners`), so is every lease (`Holding`).
With the counters equal to cardinalities, every step is one of two kinds: those that leave the
coordinator's state alone are handled by one lemma (`QuietKeeps`); the ten that change it have
a lemma each, with the counters by the cardinality facts of `FiniteSetTheorems`. From
`VInv` follow the invariants of the run, that a start or a stop others wait for is some call's
business, and step by step the refinement of `SharedResource`. Two more facts are inductive beside
it: `Scripts`, that a script is overdue, waited for, or was waited for by a dropped handler whose
start or stop nobody ends any more, from which `StopsNobody` follows; and `Origins`, that the
coordinator's flags tell rightly where the server comes from, from which `KeptLoadedStays` does.

*DownloadsProofs.* Four layers, each resting on the one before. `RootInv`: only the holder of the
root has transfers, the positions it has left are those it has not started, and a new file is
always on its way to being registered. `MakerInv`, with `PartsStay`: a post has one maker of its
file, a transfer or a registration that outlived its run; the sweep of one task cannot meet a
transfer of another because a sweep is done by the holder of the root. `WholeInv`: a
registered post has its media file, unless it is `undone`. `CaptionInv`: the same of captions,
with what transfers and orphans are about to write or remove. The steps of a transfer are first
reduced to what each does to its own post (`TransferKinds`), so that the layers are proved from
fewer cases.

The second half is about counts and the sweep. `PartInv`: while no task has ended without a
sweep, a part file has a task that is not over or still has its worker; a worker that waits for
the root is of a task that is not over, and one that leaves after the end has swept. `CountInv`:
what a body counts lies between the files made in time and all files made, and with its
transfers stays within the target; `AtMostTarget` is its first line, which is not inductive
without the counter in between. `DoneInv`: each post of a running body is still on its list,
with a transfer, or settled in a way the body has counted, so that when nothing is left the
status `completed` is deserved. The cardinalities are handled by one lemma for each way a set
grows or shrinks by one.

*TaskFeedProofs.* Eight facts besides the types. `Numbered` and `Ordered`: the log has no hole,
and the events of a task are in the order of its revisions, with its deletion last.
`FramesAreEvents` and `StreamStands`: what is on the wire comes from the log, ends where the
stream thinks it is, and a stream that listens to the channel is not behind its receiver; with
them every frame sent continues the last one (`StreamGapless`), or `Overrun` holds.
`SyncCovers`: a snapshot on its way has every event up to its number, and none of the tasks
whose deletion that includes. `PageStands`: the page is not ahead of the server unless
renumbered, and holds nothing back of a task whose deletion it followed. With `PositionCovered`
itself they are inductive, restarts included (`RestartDoes`: a new log of the moved tasks,
numbered above the page's position unless it is renumbered). `NeverGoesBackwards` is then proved
for the four callbacks that change what the page shows. Two properties changed under the proof:
each was true only because TLC's instance was small (section 3).

Every invariant, action property and refinement that a passing run checks is proved. Only
model-checked are the liveness properties (`TicketServed`, `StopAcknowledged`, `QueuedIsServed`,
`CallsEnd`, `CatchesUp`, `Reconnects`, `StopAnswered`): they need fairness, and with it ENABLED,
which is out of the prover's reach. What fails, the findings and the configurations of section 4,
is shown by counterexamples.

## 6. Not modelled, and the plan

What could be proved next: that the fairness of a run is enough for single steps of its liveness
properties (that a step which should lead on is possible, without ENABLED: its guard follows
from the invariant); that the holes of `orphaned`, `cut`, `undone`, `late` and `holes` are
entered by the steps that name them and no others.

Hazards that no property covers, each with its note in `PROJECT.json`: a store that fails while
a worker settles its result or that cannot be read at start-up; a tool that applies its manifest
a second time; the deletion of a training task beside its worker.

Left out of the modelled parts: an update of a task's row whose reading back fails; what a stop
script of vLLM does to the server; what a trainer that outlived its worker writes beside the next
one, but for the files it tears.

What could be modelled next: quarantine (plan, apply with its rollback, restore, a crash between
file and row); the CL tagger, which is `VllmRuntime` without reservations and time-outs; the
clean-up of training directories.

Left out for good: HTTP clients, image decoding and hashing, the catalogue's SQL, settings
and secrets, path checks, tag text processing, training presets and launch files, and views:
sequential, or I/O.

The repository also vendors a release of kohya sd-scripts, which is almost all of its
Python and by far the largest part of its lines: models of neural networks, samplers,
conversion scripts, data sets. It is third-party numerical code that the program starts as a
child process. Of it the models have the loops that decide what a stopped and resumed training
does (`train_network.py`, `sdxl_train.py`, `checkpoint_io.py`, `args.py`), beside the program's
own `telemetry_launcher.py`. As a share of all lines in the repository, or of all its Python,
what is modelled is therefore small; it is the program's own coordination, which is in Rust and
TypeScript, that the models are meant to cover.
