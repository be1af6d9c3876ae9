------------------------------- MODULE Downloads -------------------------------
(***************************************************************************)
(* Download tasks that write into one directory: the body of their worker  *)
(* and the transfers it runs at a time (run_download_task and              *)
(* download_post_to_destination, backend/src/routes/api.rs), the part      *)
(* files (download_with_control, services/danbooru_client.rs), the items   *)
(* and the registered posts (database.rs), and the sweep at the end        *)
(* (cleanup_terminal_download_part_files).                                 *)
(*                                                                         *)
(* TaskWorkers has how a worker gets its slot and its root, and the races  *)
(* of its exits; here a worker waits for the root and settles in one step. *)
(* A post is one file, all tasks name it alike, and posts are given by id. *)
(* Names Fault_X are faulty variants of X; no specification uses them.     *)
(***************************************************************************)
EXTENDS Naturals, Sequences, FiniteSets, SequencesExt, TaskStatus

CONSTANTS
  Tasks, Posts,
  NoTask,       \* not a task
  PostIds,      \* task -> the different posts it asks for, in order
  Target,       \* task -> how many new files it wants
  Concurrency,  \* task -> how many transfers it may run at a time
  MaxControls,  \* bound: pauses, resumptions, cancellations and retries
  MaxFaults     \* bound: failed requests and writes, and crashes

ASSUME DownloadsAssumption ==
  /\ NoTask \notin Tasks
  /\ IsFiniteSet(Posts)
  /\ PostIds \in [ Tasks -> Seq(Posts) ]
  /\ \A t \in Tasks : IsInjective(PostIds[t])
  /\ Target \in [ Tasks -> Nat ] /\ Concurrency \in [ Tasks -> Nat \ { 0 } ]
  /\ MaxControls \in Nat /\ MaxFaults \in Nat

VARIABLES
  status,    \* task -> its status
  retryable, \* task -> its failure may be retried
  items,     \* task_items: task -> post -> status; a failure with its retryable flag
  worker,    \* task -> its worker
  root,      \* who has the root: its scheduling lock, and within it its write lock
  transfers, \* task -> post -> the transfer its worker has spawned
  orphans,   \* transfers that finish their registration after they were aborted
  disk,      \* post -> which of its files are in the directory
  located,   \* downloaded_post_locations: posts registered for the directory
  cut, undone, unswept, late, \* history, see RegisteredIsWhole, NoPartLeft, AtMostTarget
  controls, faults            \* history: what the bounds count

files   == << disk, located >>
history == << cut, undone, unswept, late >>
bounds  == << controls, faults >>
vars    == << status, retryable, items, worker, root, transfers, orphans, files, history, bounds >>

ItemStatuses == { "none", "queued", "completed", "skipped", "failed", "retryable" }
FileKinds == { "part", "media", "caption" }

\* todo: the positions in PostIds that are still to be fetched.
Worker == [ pc : { "none", "waiting", "ready", "body", "ended", "settled", "leaving" },
            outcome : { "none", "stopped", "complete", "failed", "retryable" },
            downloaded : Nat, failed : { "none", "failed", "retryable" }, todo : SUBSET Nat ]
NoWorker == [ pc |-> "none", outcome |-> "none", downloaded |-> 0, failed |-> "none",
              todo |-> {} ]

\* new: the transfer made the media file; made: it made the caption as well.
Transfer == [ pc : { "none", "asking", "writing", "renamed", "registering", "done" },
              new : BOOLEAN, made : BOOLEAN,
              result : { "none", "downloaded", "skipped", "stopped", "failed", "retryable" } ]
NoTransfer == [ pc |-> "none", new |-> FALSE, made |-> FALSE, result |-> "none" ]
Idle == [ p \in Posts |-> NoTransfer ]

Fault == faults < MaxFaults /\ faults' = faults + 1
NoFault == UNCHANGED faults

-----------------------------------------------------------------------------
(* The user.                                                                *)

\* spawn_task_worker: nothing to do for a task that has a worker.
SpawnWorker(t) ==
  worker' = IF worker[t].pc = "none" THEN [ worker EXCEPT ![t].pc = "waiting" ] ELSE worker

Control(t, from, target) ==
  /\ controls < MaxControls
  /\ status[t] \in from
  /\ status' = [ status EXCEPT ![t] = target ]
  /\ controls' = controls + 1
  /\ UNCHANGED << root, transfers, orphans, files, cut, undone, late, faults >>

\* Nobody is left who would sweep up after t.
Sweepless(t) == worker[t].pc \in { "none", "waiting", "leaving" }

PauseTask(t) ==
  /\ Control(t, Pausable, PauseTarget(status[t]))
  /\ UNCHANGED << retryable, items, worker, unswept >>

ResumeTask(t) ==
  /\ Control(t, Resumable, "queued")
  /\ SpawnWorker(t)
  /\ UNCHANGED << retryable, items, unswept >>

\* A task that does not run is cancelled by the handler.
CancelTask(t) ==
  /\ Control(t, Cancellable, CancelTarget(status[t]))
  /\ unswept' = IF status'[t] = "cancelled" /\ Sweepless(t) THEN unswept \cup { t } ELSE unswept
  /\ UNCHANGED << retryable, items, worker >>

\* requeue_retryable_task_items
RetryTask(t) ==
  /\ retryable[t]
  /\ Control(t, { "failed" }, "queued")
  /\ retryable' = [ retryable EXCEPT ![t] = FALSE ]
  /\ items' = [ items EXCEPT ![t] =
                  [ p \in Posts |-> IF @[p] = "retryable" THEN "queued" ELSE @[p] ] ]
  /\ SpawnWorker(t)
  /\ UNCHANGED unswept

-----------------------------------------------------------------------------
(* The worker: into the body.                                               *)

WorkerOnly == UNCHANGED << items, transfers, orphans, files, history, bounds >>

\* acquire_queued_task_root_schedule
EnterRoot(t) ==
  /\ worker[t].pc = "waiting"
  /\ status[t] = "queued"
  /\ root = NoTask
  /\ root' = t
  /\ worker' = [ worker EXCEPT ![t].pc = "ready" ]
  /\ UNCHANGED << status, retryable >>
  /\ WorkerOnly

StopsWaiting(t) ==
  /\ worker[t].pc = "waiting"
  /\ status[t] # "queued"
  /\ worker' = [ worker EXCEPT ![t] = NoWorker ]
  /\ UNCHANGED << status, retryable, root >>
  /\ WorkerOnly

Having(t, ss) == { p \in Posts : items[t][p] \in ss }

\* task_item_counts: where earlier runs have got to.  An old failure counts and
\* is not the last failure.
Counts(t) == [ downloaded |-> Cardinality(Having(t, { "completed" })),
               failed |-> IF Having(t, { "failed", "retryable" }) = {} THEN "none" ELSE "failed" ]

\* The task is started, the counters and the queued items are read.
StartBody(t) ==
  /\ worker[t].pc = "ready"
  /\ IF status[t] = "queued"
     THEN /\ status' = [ status EXCEPT ![t] = "running" ]
          /\ worker' = [ worker EXCEPT ![t] =
               [ pc |-> "body", outcome |-> "none", downloaded |-> Counts(t).downloaded,
                 failed |-> Counts(t).failed,
                 todo |-> { i \in DOMAIN PostIds[t] : items[t][PostIds[t][i]] = "queued" } ] ]
     ELSE /\ worker' = [ worker EXCEPT ![t].pc = "ended", ![t].outcome = "stopped" ]
          /\ UNCHANGED status
  /\ UNCHANGED << retryable, root >>
  /\ WorkerOnly

-----------------------------------------------------------------------------
(* The body: run_download_task.                                             *)

Busy(t) == { p \in Posts : transfers[t][p].pc # "none" }

\* Fault: transfers under way do not count.
Fault_CanSpawn(t) ==
  /\ worker[t].todo # {}
  /\ Cardinality(Busy(t)) < Concurrency[t]
  /\ worker[t].downloaded < Target[t]

\* No more transfers than could still be wanted.
CanSpawn(t) ==
  /\ worker[t].todo # {}
  /\ Cardinality(Busy(t)) < Concurrency[t]
  /\ worker[t].downloaded + Cardinality(Busy(t)) < Target[t]

SpawnTransfer(t) ==
  /\ worker[t].pc = "body"
  /\ CanSpawn(t)
  /\ \E i \in worker[t].todo :
       /\ \A j \in worker[t].todo : i <= j
       /\ transfers' = [ transfers EXCEPT ![t][PostIds[t][i]].pc = "asking" ]
       /\ worker' = [ worker EXCEPT ![t].todo = @ \ { i } ]
  /\ UNCHANGED << status, retryable, items, root, orphans, files, history, bounds >>

\* abort_all drops a transfer where it waits; one that is registering its file
\* waits for nothing and goes on.
Orphaned(t) ==
  { [ task |-> t, post |-> p, new |-> transfers[t][p].new, made |-> transfers[t][p].made ] :
      p \in { q \in Posts : transfers[t][q].pc = "registering" } }

AbortAll(t) ==
  /\ worker' = [ worker EXCEPT ![t].pc = "ended", ![t].outcome = "stopped" ]
  /\ transfers' = [ transfers EXCEPT ![t] = Idle ]
  /\ orphans' = orphans \cup Orphaned(t)
  /\ cut' = cut \cup { p \in Posts : transfers[t][p].pc = "renamed" }

\* join_next: a new file is reported, and a report starts a task that was
\* resumed meanwhile.
JoinTransfer(t, p) ==
  LET result == transfers[t][p].result
      joined == /\ transfers' = [ transfers EXCEPT ![t][p] = NoTransfer ]
                /\ UNCHANGED << orphans, cut >>
  IN
  /\ worker[t].pc = "body"
  /\ ~ CanSpawn(t)
  /\ transfers[t][p].pc = "done"
  /\ CASE result = "downloaded" /\ status[t] \in { "running", "queued" } ->
            /\ status' = [ status EXCEPT ![t] = "running" ]
            /\ worker' = [ worker EXCEPT ![t].downloaded = @ + 1 ]
            /\ joined
       [] result = "skipped" ->
            UNCHANGED << status, worker >> /\ joined
       [] result \in { "failed", "retryable" } ->
            /\ worker' = [ worker EXCEPT ![t].failed = result ]
            /\ UNCHANGED status
            /\ joined
       [] OTHER -> AbortAll(t) /\ UNCHANGED status
  /\ UNCHANGED << retryable, items, root, files, undone, unswept, late, bounds >>

\* Fault: a failed item does not fail the task.
Fault_Verdict(t) == IF status[t] # "running" THEN "stopped" ELSE "complete"

Verdict(t) ==
  CASE status[t] # "running" -> "stopped"
    [] status[t] = "running" /\ worker[t].downloaded < Target[t] /\ worker[t].failed # "none" ->
         worker[t].failed
    [] OTHER -> "complete"

EndBody(t) ==
  /\ worker[t].pc = "body"
  /\ ~ CanSpawn(t)
  /\ Busy(t) = {}
  /\ worker' = [ worker EXCEPT ![t].pc = "ended", ![t].outcome = Verdict(t) ]
  /\ UNCHANGED << status, retryable, root >>
  /\ WorkerOnly

-----------------------------------------------------------------------------
(* A transfer: download_post_id and download_with_control.                  *)

TransferOnly == UNCHANGED << status, retryable, worker, root, orphans, undone, unswept, late, controls >>

\* finish_task_item: only a queued item changes.
Finished(t, p, result) ==
  [ items EXCEPT ![t][p] = IF @ = "queued" THEN result ELSE @ ]

Done(t, p, result) ==
  transfers' = [ transfers EXCEPT ![t][p] = [ NoTransfer EXCEPT !.pc = "done", !.result = result ] ]

At(t, p, pc) == transfers[t][p].pc = pc

NoticeStop(t, p) ==
  /\ At(t, p, "asking") /\ status[t] # "running"
  /\ Done(t, p, "stopped")
  /\ UNCHANGED << items, disk, located, cut, faults >>
  /\ TransferOnly

\* The post cannot be had, or not now.
AskFails(t, p) ==
  /\ At(t, p, "asking")
  /\ Fault
  /\ \E result \in { "failed", "retryable" } :
       Done(t, p, result) /\ items' = Finished(t, p, result)
  /\ UNCHANGED << disk, located, cut >>
  /\ TransferOnly

SkipPost(t, p) ==
  /\ At(t, p, "asking") /\ status[t] = "running"
  /\ located[p]
  /\ Done(t, p, "skipped")
  /\ items' = Finished(t, p, "skipped")
  /\ UNCHANGED << disk, located, cut, faults >>
  /\ TransferOnly

\* already_present: a file of that name is good, and nothing is written.
TakeFile(t, p) ==
  /\ At(t, p, "asking") /\ status[t] = "running"
  /\ ~ located[p] /\ disk[p].media
  /\ transfers' = [ transfers EXCEPT ![t][p] = [ @ EXCEPT !.pc = "registering" ] ]
  /\ UNCHANGED << items, disk, located, cut, faults >>
  /\ TransferOnly

\* download_path_lock: one transfer of a file at a time.
OpenPart(t, p) ==
  /\ At(t, p, "asking") /\ status[t] = "running"
  /\ ~ located[p] /\ ~ disk[p].media
  /\ \A u \in Tasks : transfers[u][p].pc \notin { "writing", "renamed" }
  /\ transfers' = [ transfers EXCEPT ![t][p].pc = "writing" ]
  /\ disk' = [ disk EXCEPT ![p].part = TRUE ]
  /\ UNCHANGED << items, located, cut, faults >>
  /\ TransferOnly

\* Seen before the request and after each chunk.
StopTransfer(t, p) ==
  /\ At(t, p, "writing") /\ status[t] # "running"
  /\ Done(t, p, "stopped")
  /\ disk' = [ disk EXCEPT ![p].part = @ /\ status[t] # "cancelling" ]
  /\ UNCHANGED << items, located, cut, faults >>
  /\ TransferOnly

\* The network fails and the part stays; or it is not what it should be and goes.
TransferFails(t, p) ==
  /\ At(t, p, "writing")
  /\ Fault
  /\ \E result \in { "failed", "retryable" }, kept \in BOOLEAN :
       /\ Done(t, p, result)
       /\ items' = Finished(t, p, result)
       /\ disk' = [ disk EXCEPT ![p].part = @ /\ kept ]
  /\ UNCHANGED << located, cut >>
  /\ TransferOnly

\* The part is complete and renamed; the transfer has yet to hear of it.
CommitPart(t, p) ==
  /\ At(t, p, "writing")
  /\ transfers' = [ transfers EXCEPT ![t][p].pc = "renamed" ]
  /\ disk' = [ disk EXCEPT ![p].part = FALSE, ![p].media = TRUE ]
  /\ UNCHANGED << items, located, cut, faults >>
  /\ TransferOnly

\* write_download_sidecars: from here to the end nothing waits.
WriteCaption(t, p) ==
  /\ At(t, p, "renamed")
  /\ transfers' = [ transfers EXCEPT ![t][p] = [ @ EXCEPT !.pc = "registering", !.new = TRUE,
                                                           !.made = ~ disk[p].caption ] ]
  /\ disk' = [ disk EXCEPT ![p].caption = TRUE ]
  /\ UNCHANGED << items, located, cut, faults >>
  /\ TransferOnly

\* The caption cannot be written, and the new file is taken back.
CaptionFails(t, p) ==
  /\ At(t, p, "renamed")
  /\ Fault
  /\ \E result \in { "failed", "retryable" } :
       Done(t, p, result) /\ items' = Finished(t, p, result)
  /\ disk' = [ disk EXCEPT ![p].media = FALSE ]
  /\ UNCHANGED << located, cut >>
  /\ TransferOnly

Registered(t, p, new) ==
  /\ items[t][p] = "queued"
  /\ located' = [ located EXCEPT ![p] = TRUE ]
  /\ items' = [ items EXCEPT ![t][p] = IF new THEN "completed" ELSE "skipped" ]
  /\ UNCHANGED disk

\* Fault: the record stays when the files are taken back.
Fault_RolledBack(t, p, new, made) ==
  /\ disk' = [ disk EXCEPT ![p].media = @ /\ ~ new, ![p].caption = @ /\ ~ made ]
  /\ located' = [ located EXCEPT ![p] = TRUE ]
  /\ items' = Finished(t, p, "failed")

\* The transaction fails, and the files this transfer made go again.
RolledBack(t, p, new, made) ==
  /\ disk' = [ disk EXCEPT ![p].media = @ /\ ~ new, ![p].caption = @ /\ ~ made ]
  /\ items' = Finished(t, p, "failed")
  /\ UNCHANGED located

\* register_downloaded_post_and_finish_task_item
Register(t, p) ==
  LET x == transfers[t][p] IN
  /\ At(t, p, "registering")
  /\ \/ Registered(t, p, x.new) /\ Done(t, p, IF x.new THEN "downloaded" ELSE "skipped") /\ NoFault
     \/ RolledBack(t, p, x.new, x.made) /\ Done(t, p, "failed")
        /\ IF items[t][p] = "queued" THEN Fault ELSE NoFault
  /\ UNCHANGED cut
  /\ TransferOnly

\* The same when the worker has gone on without it.
RegisterOrphan(x) ==
  /\ x \in orphans
  /\ orphans' = orphans \ { x }
  /\ late' = late \cup { << x.task, x.post >> }
  /\ \/ /\ Registered(x.task, x.post, x.new)
        /\ UNCHANGED undone
        /\ NoFault
     \/ /\ RolledBack(x.task, x.post, x.new, x.made)
        /\ undone' = IF x.new THEN undone \cup { x.post } ELSE undone
        /\ IF items[x.task][x.post] = "queued" THEN Fault ELSE NoFault
  /\ UNCHANGED << status, retryable, worker, root, transfers, cut, unswept, controls >>

-----------------------------------------------------------------------------
(* The worker: out of the body.                                             *)

\* The outcome, and the acknowledgement of a stop.
Settled(t) ==
  CASE status[t] = "running" /\ worker[t].outcome = "complete" -> "completed"
    [] status[t] = "running" /\ worker[t].outcome \in { "failed", "retryable" } -> "failed"
    [] status[t] \in StopRequested -> AckTarget(status[t])
    [] OTHER -> status[t]

\* Fault: the root is free before the sweep.
Fault_Settle(t) ==
  /\ worker[t].pc = "ended"
  /\ status' = [ status EXCEPT ![t] = Settled(t) ]
  /\ retryable' = [ retryable EXCEPT ![t] = worker[t].outcome = "retryable" /\ status'[t] = "failed" ]
  /\ worker' = [ worker EXCEPT ![t].pc = "settled" ]
  /\ root' = NoTask
  /\ WorkerOnly

Settle(t) ==
  /\ worker[t].pc = "ended"
  /\ status' = [ status EXCEPT ![t] = Settled(t) ]
  /\ retryable' = [ retryable EXCEPT ![t] = worker[t].outcome = "retryable" /\ status'[t] = "failed" ]
  /\ worker' = [ worker EXCEPT ![t].pc = "settled" ]
  /\ UNCHANGED root
  /\ WorkerOnly

\* Fault: nothing is swept up after a cancellation.
Fault_Sweeps(t) == status[t] \in { "completed", "failed" }

Sweeps(t) == status[t] \in { "completed", "failed", "cancelled" }

\* cleanup_terminal_download_part_files: every part file of the directory.
SweepParts(t) ==
  /\ worker[t].pc = "settled"
  /\ worker' = [ worker EXCEPT ![t].pc = "leaving" ]
  /\ disk' = IF Sweeps(t) THEN [ p \in Posts |-> [ disk[p] EXCEPT !.part = FALSE ] ] ELSE disk
  /\ UNCHANGED << status, retryable, items, root, transfers, orphans, located, history, bounds >>

\* A task that was queued meanwhile gets another round.
Leave(t) ==
  /\ worker[t].pc = "leaving"
  /\ root' = NoTask
  /\ worker' = [ worker EXCEPT ![t] =
                   IF status[t] = "queued" THEN [ NoWorker EXCEPT !.pc = "waiting" ] ELSE NoWorker ]
  /\ UNCHANGED << status, retryable >>
  /\ WorkerOnly

-----------------------------------------------------------------------------
\* The program dies; the next one settles the tasks and spawns their workers.
Crash ==
  LET after == [ t \in Tasks |-> RecoveredStatus(status[t], TRUE) ] IN
  /\ Fault
  /\ status' = after
  /\ worker' = [ t \in Tasks |-> IF after[t] = "queued"
                                 THEN [ NoWorker EXCEPT !.pc = "waiting" ] ELSE NoWorker ]
  /\ root' = NoTask
  /\ transfers' = [ t \in Tasks |-> Idle ]
  /\ orphans' = {}
  /\ cut' = cut \cup { p \in Posts : \E t \in Tasks : At(t, p, "renamed") }
  /\ unswept' = unswept \cup { t \in Tasks : after[t] \in TerminalStatuses
                                        /\ (status[t] # after[t] \/ worker[t].pc # "none") }
  /\ UNCHANGED << retryable, items, files, undone, late, controls >>

Init ==
  /\ status = [ t \in Tasks |-> "queued" ]
  /\ retryable = [ t \in Tasks |-> FALSE ]
  /\ items = [ t \in Tasks |-> [ p \in Posts |->
                 IF Contains(PostIds[t], p) THEN "queued" ELSE "none" ] ]
  /\ worker = [ t \in Tasks |-> [ NoWorker EXCEPT !.pc = "waiting" ] ]
  /\ root = NoTask
  /\ transfers = [ t \in Tasks |-> Idle ]
  /\ orphans = {}
  /\ disk = [ p \in Posts |-> [ f \in FileKinds |-> FALSE ] ]
  /\ located = [ p \in Posts |-> FALSE ]
  /\ cut = {} /\ undone = {} /\ unswept = {} /\ late = {}
  /\ controls = 0 /\ faults = 0

UserStep(t) == PauseTask(t) \/ ResumeTask(t) \/ CancelTask(t) \/ RetryTask(t)

WorkerStep(t) ==
  \/ EnterRoot(t) \/ StopsWaiting(t) \/ StartBody(t)
  \/ SpawnTransfer(t) \/ EndBody(t) \/ \E p \in Posts : JoinTransfer(t, p)
  \/ Settle(t) \/ SweepParts(t) \/ Leave(t)

\* What a transfer does while nothing fails.
TransferStep(t, p) ==
  \/ NoticeStop(t, p) \/ SkipPost(t, p) \/ TakeFile(t, p) \/ OpenPart(t, p)
  \/ StopTransfer(t, p) \/ CommitPart(t, p) \/ WriteCaption(t, p) \/ Register(t, p)

TransferFault(t, p) == AskFails(t, p) \/ TransferFails(t, p) \/ CaptionFails(t, p)

Next ==
  \/ \E t \in Tasks : UserStep(t) \/ WorkerStep(t)
  \/ \E t \in Tasks, p \in Posts : TransferStep(t, p) \/ TransferFault(t, p)
  \/ \E x \in orphans : RegisterOrphan(x)
  \/ Crash

Spec == Init /\ [][Next]_vars

-----------------------------------------------------------------------------
TypeOK ==
  /\ status \in [ Tasks -> Statuses ]
  /\ retryable \in [ Tasks -> BOOLEAN ]
  /\ items \in [ Tasks -> [ Posts -> ItemStatuses ] ]
  /\ worker \in [ Tasks -> Worker ]
  /\ root \in Tasks \cup { NoTask }
  /\ transfers \in [ Tasks -> [ Posts -> Transfer ] ]
  /\ orphans \subseteq [ task : Tasks, post : Posts, new : BOOLEAN, made : BOOLEAN ]
  /\ disk \in [ Posts -> [ FileKinds -> BOOLEAN ] ]
  /\ located \in [ Posts -> BOOLEAN ]
  /\ cut \subseteq Posts /\ undone \subseteq Posts /\ unswept \subseteq Tasks
  /\ late \subseteq Tasks \X Posts
  /\ controls \in 0 .. MaxControls /\ faults \in 0 .. MaxFaults

\* Nobody takes away the part file a transfer is writing, or has renamed before
\* it is done: the sweep of one task removes every part file of the directory,
\* and other tasks download into it.
PartsStay ==
  \A t \in Tasks, p \in Posts :
    /\ At(t, p, "writing") => disk[p].part
    /\ At(t, p, "renamed") => disk[p].media /\ ~ disk[p].part

\* A post that is registered for the directory has its file there and its
\* caption, whatever was aborted, rolled back or interrupted.  There are two
\* holes: a file that was renamed while its transfer was dropped is later taken
\* for one that was there before, which gets no caption ("cut"); and an aborted
\* registration that comes after the one of the next run takes back the file
\* that one has registered ("undone").
RegisteredIsWhole ==
  \A p \in Posts : located[p] =>
    /\ disk[p].media \/ p \in undone
    /\ disk[p].caption \/ p \in cut \cup undone

\* A task never makes more new files than it was asked for, however often it
\* was paused, resumed and retried.  Registrations that outlived their run are
\* not counted when the next run begins.
AtMostTarget ==
  \A t \in Tasks :
    Cardinality(Having(t, { "completed" })) <=
      Target[t] + Cardinality({ x \in late : x[1] = t })

\* A download that says it is completed has reached its target, or has nothing
\* left that it did not get, but for what a registration that outlived its run
\* says of a post.
CompletedMeansDone ==
  \A t \in Tasks : status[t] = "completed" =>
    \/ Cardinality(Having(t, { "completed" })) >= Target[t]
    \/ \A p \in Having(t, { "queued", "failed", "retryable" }) : << t, p >> \in late

\* No part file outlives the tasks that could go on with it, except when a task
\* ended without a worker to sweep up after it ("unswept").
NoPartLeft ==
  unswept = {} =>
    \A p \in Posts : disk[p].part =>
      \E t \in Tasks : items[t][p] # "none" /\ (status[t] \notin TerminalStatuses \/ worker[t].pc # "none")
=============================================================================
