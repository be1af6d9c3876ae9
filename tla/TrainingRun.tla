------------------------------ MODULE TrainingRun ------------------------------
(***************************************************************************)
(* One training task: the part of its worker that starts a trainer and     *)
(* stops it (run_training_task, backend/src/routes/api.rs), the bridge     *)
(* around the trainer that looks for stop requests (telemetry_launcher.py),*)
(* the training loops of sd-scripts (train_network.py for adapters,        *)
(* sdxl_train.py for whole models), and the files that connect one run     *)
(* with the next: control.json, resume_state and the checkpoints.          *)
(*                                                                         *)
(* TaskWorkers has the worker itself; here it is at most one, and settles  *)
(* its result in one step.  A trainer is a child of a child process: every *)
(* action of it may be its last, and it may go on when its worker is gone. *)
(* If another one is started beside it, the model follows the newer one,   *)
(* and the older one only tears its files; what else the older one writes  *)
(* is left out, and what is said of the files is said up to then.  Batches *)
(* count as steps (no gradient accumulation), checkpoints are saved by     *)
(* steps, and training states by the bridge only.                          *)
(* Names Fault_X are faulty variants of X; no specification uses them.     *)
(***************************************************************************)
EXTENDS Integers, Sequences, FiniteSets, TaskStatus

CONSTANTS
  Arguments,   \* what tasks may be asked for, see Argument
  Batches,     \* batches of an epoch
  MaxSteps,    \* max_train_steps
  SaveEvery,   \* save_every_n_steps
  SaveLast,    \* save_last_n_steps
  MaxControls, \* bound: pauses, resumptions, cancellations and retries
  MaxFaults    \* bound: crashes of the program and failures of a write

ASSUME TrainingRunAssumption ==
  /\ Batches \in Nat \ { 0 } /\ MaxSteps \in Nat \ { 0 }
  /\ SaveEvery \in Nat \ { 0 } /\ SaveLast \in Nat
  /\ MaxControls \in Nat /\ MaxFaults \in Nat

\* The trainer script; whether it has trackers to log to; whether it skips to
\* the data of the step it resumes at; the steps in the state the user asks it
\* to resume from (0: none); and whether a kill reaches the whole process tree,
\* as on Windows, or only the launcher the trainer is a child of.
Argument == [ kind : { "network", "model" }, tracking : BOOLEAN, skip : BOOLEAN,
              resume : 0 .. MaxSteps, tree : BOOLEAN ]

ASSUME ArgumentsAssumption == Arguments \subseteq Argument /\ Arguments # {}

VARIABLES
  args,      \* the task's request, and the platform it runs on
  status,    \* the task's status
  worker,    \* "none", "launching" the trainer, "watching" it, "joining" its output
  requested, \* stop_requested: the stop this worker wrote into control.json
  control,   \* control.json: the action it names, and the steps in the state saved
  disk,      \* the files of the run: steps they contain, whether they are whole
  run,       \* the trainer, the newest if there are several
  beside,    \* history: it was started beside one that was still alive
  controls, faults  \* history: what the bounds count

taskVars == << args, status >>
vars == << taskVars, worker, requested, control, disk, run, beside, controls, faults >>

NumEpochs == (MaxSteps + Batches - 1) \div Batches

Step(n) == [ kind |-> "step", no |-> n ]
LastModel == [ kind |-> "last", no |-> 0 ]
ResumeDir == [ kind |-> "resume_state", no |-> 0 ]
Files == { Step(n) : n \in 0 .. MaxSteps } \cup { LastModel, ResumeDir }

\* current_step: what train_state.json says, which only train_network.py writes.
Content == [ there : BOOLEAN, whole : BOOLEAN, trained : Nat, current_step : Nat ]
NoFile == [ there |-> FALSE, whole |-> FALSE, trained |-> 0, current_step |-> 0 ]

Save(file) == [ op |-> "save", file |-> file ]
Remove(file) == [ op |-> "remove", file |-> file ]

\* todo are the files to save and remove before the trainer goes on at pc, open
\* whether it is writing the first of them.  trained counts the optimizer steps
\* in the weights, whatever the trainer's own count says.
NoRun == [ pc |-> "none", todo |-> << >>, open |-> FALSE, resume |-> "none", epoch |-> 0,
           batch |-> 0, initial_step |-> 0, current_step |-> 0, global_step |-> 0,
           trained |-> 0, saved |-> {} ]

\* exited: with code 0; empty: with code 0 as well, having found no data.
Ended == { "none", "exited", "empty", "dead" }
Alive == run.pc \notin Ended

NoControl == [ action |-> "none", trained |-> 0 ]

Fault == faults < MaxFaults /\ faults' = faults + 1

-----------------------------------------------------------------------------
(* The user.                                                                *)

Control(from, target) ==
  /\ controls < MaxControls
  /\ status \in from
  /\ status' = target
  /\ controls' = controls + 1
  /\ UNCHANGED << args, worker, requested, control, disk, run, beside, faults >>

PauseTask  == Control(Pausable, PauseTarget(status))
ResumeTask == Control(Resumable, "queued")
CancelTask == Control(Cancellable, CancelTarget(status))
RetryTask  == Control({ "failed" }, "queued")

-----------------------------------------------------------------------------
(* run_training_task: from the queue to the child process.                  *)

StartWorker ==
  /\ worker = "none"
  /\ status \in Startable
  /\ status' = "running"
  /\ worker' = "launching"
  /\ UNCHANGED << args, requested, control, disk, run, beside, controls, faults >>

\* Fault: the state saved by an earlier run is not looked for.
Fault_ResumeFrom == IF args.resume > 0 THEN "user" ELSE "none"

\* The state the request names goes first; then the one in the run's directory,
\* complete or not.
ResumeFrom == CASE args.resume > 0      -> "user"
                [] disk[ResumeDir].there /\ args.resume = 0 -> "own"
                [] OTHER                -> "none"

\* Whatever an earlier run left in control.json is still there, and so may be its
\* trainer: nobody looks for one.
LaunchTrainer ==
  /\ worker = "launching"
  /\ beside' = (beside \/ Alive)
  /\ worker' = "watching"
  /\ requested' = "none"
  /\ run' = [ NoRun EXCEPT !.pc = "load", !.resume = ResumeFrom ]
  /\ UNCHANGED << taskVars, control, disk, controls, faults >>

\* A body that fails is a failed task, or one that has stopped as it was to.
AfterFailure == CASE status = "running"        -> "failed"
                  [] status \in StopRequested  -> AckTarget(status)
                  [] OTHER                     -> status

\* The preparations fail: directories, dataset, configuration, runtime.
LaunchFails ==
  /\ worker = "launching"
  /\ Fault
  /\ worker' = "none"
  /\ status' = AfterFailure
  /\ UNCHANGED << args, requested, control, disk, run, beside, controls >>

-----------------------------------------------------------------------------
(* run_training_task: the loop that watches the trainer.                    *)

\* report_task_progress starts a task that was resumed meanwhile.
ReportProgress ==
  /\ worker = "watching" /\ Alive
  /\ status \in Startable
  /\ status' = "running"
  /\ UNCHANGED << args, worker, requested, control, disk, run, beside, controls, faults >>

RequestStop ==
  LET action == IF status = "pausing" THEN "pause" ELSE "cancel" IN
  /\ worker = "watching" /\ Alive
  /\ status \in StopRequested
  /\ requested = "none"
  /\ requested' = action
  /\ control' = [ action |-> action, trained |-> 0 ]
  /\ UNCHANGED << taskVars, worker, disk, run, beside, controls, faults >>

\* The log, control.json, the child or its killer fails: the worker ends at once,
\* and leaves the trainer running.
WatchFails ==
  /\ worker = "watching" /\ Alive
  /\ Fault
  /\ worker' = "none"
  /\ status' = AfterFailure
  /\ control' \in { control, NoControl }
  /\ UNCHANGED << args, requested, disk, run, beside, controls >>

Killed == [ run EXCEPT !.pc = "dead", !.todo = << >>, !.open = FALSE ]

\* Fault: only a cancelled trainer is killed.
Fault_KillTrainer ==
  /\ worker = "watching" /\ Alive
  /\ status = "cancelling"
  /\ requested # "none"
  /\ IF args.tree THEN run' = Killed /\ UNCHANGED worker
                  ELSE worker' = "joining" /\ UNCHANGED run
  /\ UNCHANGED << taskVars, requested, control, disk, beside, controls, faults >>

\* Thirty seconds later, whatever the trainer is doing.  Where only its launcher
\* is killed, the trainer goes on, and the worker waits for it to close its output.
KillTrainer ==
  /\ worker = "watching" /\ Alive
  /\ status \in StopRequested
  /\ requested # "none"
  /\ IF args.tree THEN run' = Killed /\ UNCHANGED worker
                  ELSE worker' = "joining" /\ UNCHANGED run
  /\ UNCHANGED << taskVars, requested, control, disk, beside, controls, faults >>

\* Fault: the result does not depend on the exit code.
Fault_Outcome == IF requested # "none" THEN "stopped" ELSE "complete"

\* A trainer that ends after a request has stopped, however it ended.  One that
\* says on its console that it found no data has failed.
Outcome == CASE requested # "none"                      -> "stopped"
             [] requested = "none" /\ run.pc = "exited" -> "complete"
             [] OTHER                                   -> "fail"

\* The end of the worker.  A task queued meanwhile gets another round.
SettleRun ==
  /\ worker \in { "watching", "joining" } /\ run.pc \in { "exited", "empty", "dead" }
  /\ worker' = "none"
  /\ status' = CASE status = "running" /\ Outcome = "complete" -> "completed"
                 [] status = "running" /\ Outcome = "fail"     -> "failed"
                 [] status \in StopRequested                   -> AckTarget(status)
                 [] OTHER                                      -> status
  /\ UNCHANGED << args, requested, control, disk, run, beside, controls, faults >>

-----------------------------------------------------------------------------
(* The trainer: from its start to its first step.                           *)

Go(pc) == run.pc = pc /\ run.todo = << >>

\* What accelerator.load_state finds.
Loaded == CASE run.resume = "own"  -> disk[ResumeDir]
            [] run.resume = "user" -> [ there |-> TRUE, whole |-> TRUE, trained |-> args.resume,
                                        current_step |-> IF args.kind = "network"
                                                         THEN args.resume ELSE 0 ]
            [] run.resume = "none" -> [ NoFile EXCEPT !.whole = TRUE ]

\* train_network.py goes on at the step of the state: with its epoch, and with
\* skip_until_initial_step with its data, the count starting within the epoch.
\* sdxl_train.py counts from 0.
LoadState ==
  LET initial == Loaded.current_step
      first   == initial \div Batches
      rest    == IF args.skip THEN initial % Batches ELSE 0
  IN
  /\ Go("load")
  /\ run' = IF ~ Loaded.whole \/ (initial > 0 /\ MaxSteps <= initial)
            THEN [ run EXCEPT !.pc = "dead" ]
            ELSE [ run EXCEPT !.pc = IF args.tracking THEN "first_log" ELSE "epoch",
                              !.trained = Loaded.trained, !.epoch = first,
                              !.initial_step = rest, !.global_step = rest ]
  /\ UNCHANGED << taskVars, worker, requested, control, disk, beside, controls, faults >>

\* The dataset has no images: the script returns before anything else.
FindNoData ==
  /\ Go("load")
  /\ run' = [ run EXCEPT !.pc = "empty" ]
  /\ UNCHANGED << taskVars, worker, requested, control, disk, beside, controls, faults >>

-----------------------------------------------------------------------------
(* The bridge: observed_log, called by Accelerator.log.                     *)

\* The trainer has logged: it goes on, or does what control.json asks for.
ObserveLog(next) ==
  CASE control.action = "pause" ->
         /\ run' = [ run EXCEPT !.pc = "paused", !.todo = << Save(ResumeDir) >> ]
         /\ UNCHANGED control
    [] control.action = "cancel" ->
         /\ run' = [ run EXCEPT !.pc = "dead" ]
         /\ control' = [ action |-> "cancelled", trained |-> 0 ]
    [] OTHER -> run' = next /\ UNCHANGED control

\* Both scripts log an empty record at step 0.
FirstLog ==
  /\ Go("first_log")
  /\ ObserveLog([ run EXCEPT !.pc = "epoch" ])
  /\ UNCHANGED << taskVars, worker, requested, disk, beside, controls, faults >>

\* Of the steps, only sdxl_train.py's go through Accelerator.log; the adapter
\* trainers write to their trackers themselves.
Observed == args.kind = "model" /\ args.tracking

StepDone == [ run EXCEPT !.pc = IF run.global_step >= MaxSteps THEN "epoch_end" ELSE "batch" ]

LogStep ==
  /\ Go("log")
  /\ IF Observed THEN ObserveLog(StepDone) ELSE run' = StepDone /\ UNCHANGED control
  /\ UNCHANGED << taskVars, worker, requested, disk, beside, controls, faults >>

LogEpoch ==
  LET next == [ run EXCEPT !.pc = "epoch", !.epoch = @ + 1 ] IN
  /\ Go("epoch_end")
  /\ IF Observed THEN ObserveLog(next) ELSE run' = next /\ UNCHANGED control
  /\ UNCHANGED << taskVars, worker, requested, disk, beside, controls, faults >>

\* The state is announced, and KeyboardInterrupt ends the trainer.
Paused ==
  /\ Go("paused")
  /\ control' = [ action |-> "paused", trained |-> run.trained ]
  /\ run' = [ run EXCEPT !.pc = "dead" ]
  /\ UNCHANGED << taskVars, worker, requested, disk, beside, controls, faults >>

\* save_state raises: announced as well, and the end too.
PauseFails ==
  /\ run.pc = "paused" /\ run.todo # << >>
  /\ Fault
  /\ control' = [ action |-> "pause_failed", trained |-> 0 ]
  /\ run' = [ run EXCEPT !.pc = "dead", !.todo = << >>, !.open = FALSE ]
  /\ UNCHANGED << taskVars, worker, requested, disk, beside, controls >>

-----------------------------------------------------------------------------
(* The trainer: its loop.                                                   *)

\* Fault: one batch too many is skipped.
Fault_BeginEpoch ==
  /\ Go("epoch")
  /\ IF run.epoch >= NumEpochs
     THEN run' = [ run EXCEPT !.pc = "finish", !.todo = << Save(LastModel) >> ]
     ELSE run' = [ run EXCEPT !.pc = "batch", !.batch = run.initial_step,
                              !.initial_step = IF @ > 0 THEN 1 ELSE 0 ]
  /\ UNCHANGED << taskVars, worker, requested, control, disk, beside, controls, faults >>

\* skip_first_batches leaves one batch for the loop to discard.  After the last
\* epoch the model is saved and the script is done.
BeginEpoch ==
  /\ Go("epoch")
  /\ IF run.epoch >= NumEpochs
     THEN run' = [ run EXCEPT !.pc = "finish", !.todo = << Save(LastModel) >> ]
     ELSE run' = [ run EXCEPT !.pc = "batch",
                              !.batch = IF run.initial_step > 0 THEN run.initial_step - 1 ELSE 0,
                              !.initial_step = IF @ > 0 THEN 1 ELSE 0 ]
  /\ UNCHANGED << taskVars, worker, requested, control, disk, beside, controls, faults >>

DiscardBatch ==
  /\ Go("batch")
  /\ run.batch < Batches
  /\ run.initial_step > 0
  /\ run' = [ run EXCEPT !.batch = @ + 1, !.initial_step = @ - 1,
                         !.current_step = run.global_step ]
  /\ UNCHANGED << taskVars, worker, requested, control, disk, beside, controls, faults >>

\* Fault: what was saved SaveLast steps ago is removed as well.
Fault_Rotation(step) ==
  LET before == step - SaveLast
      old    == before - (before % SaveEvery)
  IN << Save(Step(step)) >> \o (IF old >= 0 THEN << Remove(Step(old)) >> ELSE << >>)

\* get_remove_step_no: one old checkpoint goes when a new one is there.
Rotation(step) ==
  LET before == step - SaveLast - 1
      old    == before - (before % SaveEvery)
  IN << Save(Step(step)) >> \o (IF old >= 0 THEN << Remove(Step(old)) >> ELSE << >>)

TrainBatch ==
  LET step == run.global_step + 1 IN
  /\ Go("batch")
  /\ run.batch < Batches
  /\ run.initial_step = 0
  /\ run' = [ run EXCEPT !.pc = "log", !.batch = @ + 1, !.current_step = run.global_step,
                         !.global_step = step, !.trained = @ + 1,
                         !.todo = IF step % SaveEvery = 0 THEN Rotation(step) ELSE << >> ]
  /\ UNCHANGED << taskVars, worker, requested, control, disk, beside, controls, faults >>

FinishTraining ==
  /\ Go("finish")
  /\ run' = [ run EXCEPT !.pc = "exited" ]
  /\ UNCHANGED << taskVars, worker, requested, control, disk, beside, controls, faults >>

EndEpoch ==
  /\ Go("batch")
  /\ run.batch >= Batches
  /\ run' = [ run EXCEPT !.pc = "epoch_end" ]
  /\ UNCHANGED << taskVars, worker, requested, control, disk, beside, controls, faults >>

-----------------------------------------------------------------------------
(* The trainer: its files, which it writes in place.                        *)

Job == Head(run.todo)

BeginSave ==
  /\ run.todo # << >> /\ Job.op = "save" /\ ~ run.open
  /\ run' = [ run EXCEPT !.open = TRUE ]
  /\ disk' = [ disk EXCEPT ![Job.file] = [ NoFile EXCEPT !.there = TRUE ] ]
  /\ UNCHANGED << taskVars, worker, requested, control, beside, controls, faults >>

EndSave ==
  /\ run.todo # << >> /\ Job.op = "save" /\ run.open
  /\ run' = [ run EXCEPT !.open = FALSE, !.todo = Tail(@),
                         !.saved = IF Job.file.kind = "step" THEN @ \cup { Job.file.no } ELSE @ ]
  /\ disk' = [ disk EXCEPT ![Job.file] =
                 [ there |-> TRUE, whole |-> TRUE, trained |-> run.trained,
                   current_step |-> IF args.kind = "network" THEN run.current_step + 1 ELSE 0 ] ]
  /\ UNCHANGED << taskVars, worker, requested, control, beside, controls, faults >>

RemoveFile ==
  /\ run.todo # << >> /\ Job.op = "remove"
  /\ run' = [ run EXCEPT !.todo = Tail(@) ]
  /\ disk' = [ disk EXCEPT ![Job.file] = NoFile ]
  /\ UNCHANGED << taskVars, worker, requested, control, beside, controls, faults >>

\* The trainer fails by itself.
TrainerFails ==
  /\ Alive
  /\ Fault
  /\ run' = Killed
  /\ UNCHANGED << taskVars, worker, requested, control, disk, beside, controls >>

\* Of two trainers, the older one has a file open that the newer one needs.
StrayWrites ==
  /\ beside
  /\ Fault
  /\ \E f \in Files : disk' = [ disk EXCEPT ![f] = [ NoFile EXCEPT !.there = TRUE ] ]
  /\ UNCHANGED << taskVars, worker, requested, control, run, beside, controls >>

-----------------------------------------------------------------------------
\* The program dies, and the next one settles the task.  Nothing ties the trainer
\* to the program: it dies with the machine, or goes on with nobody watching it.
Crash ==
  /\ Fault
  /\ status' = RecoveredStatus(status, TRUE)
  /\ worker' = "none"
  /\ requested' = "none"
  /\ run' \in { NoRun, run }
  /\ UNCHANGED << args, control, disk, beside, controls >>

Init ==
  /\ args \in Arguments
  /\ status = "queued"
  /\ worker = "none"
  /\ requested = "none"
  /\ control = NoControl
  /\ disk = [ f \in Files |-> NoFile ]
  /\ run = NoRun
  /\ beside = FALSE
  /\ controls = 0
  /\ faults = 0

UserStep == PauseTask \/ ResumeTask \/ CancelTask \/ RetryTask
WorkerStep == StartWorker \/ LaunchTrainer \/ RequestStop \/ KillTrainer \/ SettleRun
TrainerStep ==
  \/ LoadState \/ FindNoData \/ FirstLog \/ LogStep \/ LogEpoch \/ Paused
  \/ BeginEpoch \/ DiscardBatch \/ TrainBatch \/ EndEpoch \/ FinishTraining
  \/ BeginSave \/ EndSave \/ RemoveFile

Next ==
  \/ UserStep \/ WorkerStep \/ TrainerStep
  \/ LaunchFails \/ WatchFails \/ ReportProgress \/ PauseFails \/ TrainerFails
  \/ StrayWrites \/ Crash

\* The worker looks again and again; a trainer may hang, also one that a kill did
\* not reach.
Fairness ==
  /\ WF_vars(StartWorker) /\ WF_vars(LaunchTrainer) /\ WF_vars(RequestStop)
  /\ WF_vars(KillTrainer) /\ WF_vars(SettleRun)

Spec == Init /\ [][Next]_vars /\ Fairness

-----------------------------------------------------------------------------
TypeOK ==
  /\ args \in Arguments
  /\ status \in Statuses
  /\ worker \in { "none", "launching", "watching", "joining" }
  /\ requested \in { "none", "pause", "cancel" }
  /\ control \in [ action : { "none", "pause", "cancel", "paused", "pause_failed", "cancelled" },
                   trained : Nat ]
  /\ disk \in [ Files -> Content ]
  /\ run \in [ pc : Ended \cup { "load", "first_log", "epoch", "batch", "log", "epoch_end",
                                 "paused", "finish" },
                todo : Seq([ op : { "save", "remove" }, file : Files ]),
                open : BOOLEAN, resume : { "none", "own", "user" }, epoch : Nat, batch : Nat,
                initial_step : Nat, current_step : Nat, global_step : Nat, trained : Nat,
                saved : SUBSET (1 .. MaxSteps) ]
  /\ beside \in BOOLEAN
  /\ controls \in 0 .. MaxControls /\ faults \in 0 .. MaxFaults

\* The checkpoints of the last SaveLast steps are whole on the disk, at every
\* moment of a rotation, and once it is over the run has left no older one; as
\* long as no second trainer was started beside the first.
KeepsLast ==
  ~ beside =>
    \A n, last \in run.saved :
      (\A m \in run.saved : m <= last) =>
        /\ n >= last - SaveLast => disk[Step(n)].whole
        /\ n < last - SaveLast /\ run.todo = << >> /\ Alive => ~ disk[Step(n)].there

\* The batches a trainer starts with are those an uninterrupted run would give
\* it: from the start, or from a state, if it skips to where the state stands.
InOrder ==
  \/ run.resume = "none"
  \/ run.resume = "user" /\ args.kind = "network" /\ args.skip

DataInOrder ==
  Go("batch") /\ run.batch < Batches /\ run.initial_step = 0 /\ InOrder =>
    run.trained = run.epoch * Batches + run.batch

\* The only state an adapter trainer's bridge can save is that of its first log,
\* before any step; train_state.json counts one step in it.
Miscounted == IF args.kind = "network" /\ disk[ResumeDir].there THEN 1 ELSE 0

\* A completed training has its last model whole on the disk, and that was
\* trained for at least max_train_steps, whatever pauses, kills, failures,
\* crashes and resumptions there were before; as long as no second trainer was
\* started beside the first.
CompletedIsTrained ==
  status = "completed" /\ ~ beside =>
    /\ disk[LastModel].whole
    /\ disk[LastModel].trained >= MaxSteps - Miscounted

\* When the bridge has announced that it paused, the state is whole, and the
\* next trainer goes on with the steps the last one had; unless the request
\* names a state of its own.  Then that one is loaded again at every resumption,
\* resume_state is passed over, and every step since the request is lost.
PauseLosesNothing ==
  [][ control.action = "paused" /\ ~ beside =>
        /\ disk[ResumeDir].whole
        /\ run.pc = "load" /\ run'.pc \in { "first_log", "epoch" } =>
             run'.trained = IF args.resume = 0 THEN control.trained ELSE args.resume ]_vars

\* A stop request that reaches a worker is answered, also when the trainer does
\* not look or hangs, if the kill reaches it; where it does not, once the trainer
\* has ended by itself, for which the worker waits without a limit.  (A task that
\* was restarted by a report while its trainer stopped is left running with no
\* worker, see TaskWorkers.)
StopAnswered ==
  status \in StopRequested /\ worker # "none" ~>
    \/ status \notin StopRequested
    \/ ~ args.tree /\ worker = "joining" /\ Alive

\* A trainer that is watched stops for a request that was made to it, and not to
\* an earlier one.
StopWasAsked ==
  [][ worker = "watching" /\ Alive
      /\ (run'.pc = "paused" \/ (control'.action = "cancelled" /\ control.action = "cancel"))
        => requested # "none" ]_vars
=============================================================================
