-------------------------- MODULE TrainingRunProofs --------------------------
(***************************************************************************)
(* Proofs about a training run, for any arguments, any length of an epoch  *)
(* and of the training, any rotation of checkpoints, and any number of     *)
(* controls and faults: the rotation keeps the checkpoints it should and   *)
(* leaves no others, the data come in order, an announced pause loses no   *)
(* step but to a state the request names, and a completed training has its *)
(* last model, trained to the end.  What concerns files holds as long as   *)
(* no second trainer was started beside the first.                         *)
(***************************************************************************)
EXTENDS TrainingRun, SequenceTheorems, TLAPS

-----------------------------------------------------------------------------
(* The inductive invariant.                                                 *)

\* A task that is completed has no worker, and no trainer.
Watched == status = "completed" => worker = "none" /\ ~ Alive

\* An old checkpoint to remove, when the step's own one is saved.
RemovesOld ==
  \E old \in 0 .. MaxSteps :
    /\ run.todo = << Remove(Step(old)) >>
    /\ old < run.global_step - SaveLast
    /\ run.global_step \in run.saved

\* The step's checkpoint is still to be saved.
SavesStep == run.pc = "log" /\ run.todo = Rotation(run.global_step)

\* What there is to save and remove where the trainer stands.
Jobs ==
  \/ run.todo = << >>
  \/ SavesStep /\ run.global_step % SaveEvery = 0
  \/ run.pc = "log" /\ RemovesOld
  \/ run.pc = "finish" /\ run.todo = << Save(LastModel) >>
  \/ run.pc = "paused" /\ run.todo = << Save(ResumeDir) >>

\* The pause that control.json announces is the state on the disk, and what the
\* next trainer loads, if the request names no other.
PauseIsKept ==
  ~ beside =>
    /\ run.pc = "paused" => control.action # "paused"
    /\ run.pc = "paused" /\ run.todo = << >> =>
         /\ disk[ResumeDir].there /\ disk[ResumeDir].whole
         /\ disk[ResumeDir].trained = run.trained
    /\ control.action = "paused" =>
         /\ disk[ResumeDir].there /\ disk[ResumeDir].whole
         /\ disk[ResumeDir].trained = control.trained
         /\ run.pc = "load" => run.resume = IF args.resume = 0 THEN "own" ELSE "user"

\* A saved state counts at most one step too many, and that of an adapter.
StateCounts ==
  /\ disk[ResumeDir].current_step <= Miscounted
  /\ args.kind = "network" /\ run.pc \in { "load", "first_log", "paused" } => run.current_step = 0

\* Batches up to where the trainer stands, those of whole epochs included.
Before ==
  CASE run.pc \in { "first_log", "epoch" } -> run.epoch * Batches + run.initial_step
    [] run.pc \in { "batch", "log" }       -> run.epoch * Batches + run.batch + run.initial_step
    [] run.pc = "epoch_end"                -> (run.epoch + 1) * Batches
    [] OTHER                               -> 0

Looping == run.pc \in { "first_log", "epoch", "batch", "log", "epoch_end" }

\* The steps the trainer counts are within the epochs and within max_train_steps.
Position ==
  /\ Looping => run.global_step <= Before
  /\ run.pc \in { "first_log", "epoch" } /\ run.initial_step > 0 =>
       /\ run.initial_step < Batches
       /\ run.global_step < MaxSteps
  /\ run.pc \in { "batch", "log" } => run.batch + run.initial_step <= Batches
  /\ run.pc = "batch" => run.global_step < MaxSteps
  /\ run.pc = "log" => run.global_step \in 1 .. MaxSteps
  /\ run.pc \in { "log", "epoch_end" } => run.initial_step = 0

\* No epoch is left.
EpochsOver ==
  \/ run.pc \in { "first_log", "epoch" } /\ run.epoch >= NumEpochs
  \/ run.pc = "epoch_end" /\ run.epoch + 1 >= NumEpochs

\* Without a gap in the data, the trained batches are the ones passed.
Ordered == Looping /\ InOrder => run.trained = Before \/ EpochsOver

\* The steps in the weights, with the one a state may count too many.
Counted == run.trained + Miscounted

\* The trained steps keep up with the batches passed, to the end.
Trained ==
  /\ Looping => /\ Counted >= run.global_step
                /\ Counted >= Before \/ Counted >= MaxSteps
  /\ run.pc = "finish" => Counted >= MaxSteps
  /\ ~ beside /\ ((run.pc = "finish" /\ run.todo = << >>) \/ run.pc = "exited") =>
       /\ disk[LastModel].whole
       /\ disk[LastModel].trained + Miscounted >= MaxSteps

\* The checkpoints of a run are multiples of SaveEvery up to its step, and one
\* is at most SaveEvery steps old.
SavedSteps ==
  /\ run.pc = "load" => run.saved = {}
  /\ \A n \in run.saved : n % SaveEvery = 0 /\ n <= run.global_step
  /\ SavesStep => \A n \in run.saved : n < run.global_step
  /\ Alive /\ run.saved # {} =>
       \E m \in run.saved :
         IF SavesStep THEN run.global_step <= m + SaveEvery ELSE run.global_step < m + SaveEvery

\* KeepsLast, with the checkpoint that the rotation has yet to remove.
RotatedSo ==
  \A n, last \in run.saved :
    (\A m \in run.saved : m <= last) =>
      /\ n >= last - SaveLast => disk[Step(n)].whole
      /\ n < last - SaveLast /\ Alive => ~ disk[Step(n)].there \/ run.todo = << Remove(Step(n)) >>

Rotated == ~ beside => RotatedSo

-----------------------------------------------------------------------------
(* Lemmas: arithmetic, jobs, files, and the fields of the trainer.          *)

\* Whole epochs are counted in natural numbers, one epoch after the other.
LEMMA BatchesOfEpoch ==
  ASSUME NEW e \in Nat
  PROVE  /\ e * Batches \in Nat
         /\ (e + 1) * Batches = e * Batches + Batches
  BY TrainingRunAssumption

\* Quotient and remainder, as Python has them.
LEMMA Division ==
  ASSUME NEW n \in Int, NEW d \in Nat \ { 0 }
  PROVE  /\ n \div d \in Int /\ n % d \in 0 .. d - 1
         /\ n = d * (n \div d) + (n % d)
         /\ n >= 0 => n \div d >= 0
<1>1. n \div d \in Int
  OBVIOUS
<1>2. n % d \in 0 .. d - 1
  OBVIOUS
<1>3. n = d * (n \div d) + (n % d)
  OBVIOUS
<1>4. CASE n \div d < 0
  <2>1. d * (n \div d + 1) <= 0
    BY <1>1, <1>4
  <2>2. d * (n \div d + 1) = d * (n \div d) + d
    BY <1>1
  <2> QED
    BY <1>1, <1>2, <1>3, <2>1, <2>2
<1> QED
  BY <1>1, <1>2, <1>3, <1>4

\* Where NumEpochs lies.
LEMMA NumEpochsRoundUp ==
  /\ NumEpochs \in Int /\ MaxSteps <= Batches * NumEpochs
  /\ Batches * NumEpochs <= MaxSteps + Batches - 1
<1> DEFINE n == MaxSteps + Batches - 1
<1>1. n \in Int /\ Batches \in Nat \ { 0 } /\ MaxSteps \in Nat
  BY TrainingRunAssumption
<1>2. NumEpochs = n \div Batches
  BY DEF NumEpochs
<1> HIDE DEF n
<1>3. n \div Batches \in Int /\ n % Batches \in 0 .. Batches - 1
      /\ n = Batches * (n \div Batches) + (n % Batches)
  BY <1>1, Division, Zenon
<1> DEFINE product == Batches * (n \div Batches)
<1>4. product \in Int /\ n = product + (n % Batches) /\ n % Batches \in 0 .. Batches - 1
  BY <1>1, <1>3
<1> HIDE DEF product
<1>5. product <= n /\ n - Batches + 1 <= product
  BY <1>1, <1>4
<1>6. MaxSteps <= product /\ product <= MaxSteps + Batches - 1
  BY <1>1, <1>5 DEF n
<1> QED
  BY <1>2, <1>3, <1>6 DEF product

\* NumEpochs epochs have max_train_steps batches at least.
LEMMA EnoughEpochs ==
  ASSUME NEW e \in Nat, e >= NumEpochs
  PROVE  e * Batches >= MaxSteps
<1>1. NumEpochs \in Int /\ MaxSteps <= Batches * NumEpochs
  BY NumEpochsRoundUp
<1>2. NumEpochs * Batches <= e * Batches
  BY <1>1, TrainingRunAssumption
<1> QED
  BY <1>1, <1>2, TrainingRunAssumption

\* Fewer epochs have fewer batches: NumEpochs rounds up.
LEMMA EpochLeft ==
  ASSUME NEW e \in Nat, e < NumEpochs
  PROVE  e * Batches < MaxSteps
<1>1. NumEpochs \in Int /\ Batches * NumEpochs <= MaxSteps + Batches - 1
  BY NumEpochsRoundUp
<1>2. (e + 1) * Batches <= NumEpochs * Batches
  BY <1>1, TrainingRunAssumption
<1> QED
  BY <1>1, <1>2, BatchesOfEpoch, TrainingRunAssumption

\* A step is a batch of an epoch.
LEMMA StepInEpoch ==
  ASSUME NEW n \in Nat
  PROVE  /\ n \div Batches \in Nat /\ n % Batches \in 0 .. Batches - 1
         /\ n = (n \div Batches) * Batches + (n % Batches)
<1>a. n \in Int /\ Batches \in Nat \ { 0 }
  BY TrainingRunAssumption
<1>1. /\ n \div Batches \in Int /\ n % Batches \in 0 .. Batches - 1
      /\ n = Batches * (n \div Batches) + (n % Batches)
      /\ n >= 0 => n \div Batches >= 0
  BY <1>a, Division, Zenon
<1>2. Batches * (n \div Batches) = (n \div Batches) * Batches
  BY <1>1, TrainingRunAssumption
<1> QED
  BY <1>1, <1>2

\* Between multiples of SaveEvery are at least SaveEvery steps.
LEMMA Multiples ==
  ASSUME NEW m \in Int, NEW n \in Int, m % SaveEvery = 0, n % SaveEvery = 0, m < n
  PROVE  m <= n - SaveEvery
<1>1. PICK a \in Int, b \in Int : m = a * SaveEvery /\ n = b * SaveEvery
  <2>1. m = SaveEvery * (m \div SaveEvery) /\ n = SaveEvery * (n \div SaveEvery)
    BY TrainingRunAssumption
  <2> QED
    BY <2>1, TrainingRunAssumption
<1>2. a + 1 <= b
  BY <1>1, TrainingRunAssumption
<1>3. (a + 1) * SaveEvery <= b * SaveEvery
  BY <1>2, TrainingRunAssumption
<1> QED
  BY <1>1, <1>3, TrainingRunAssumption

\* Less its remainder, a number is the last multiple of SaveEvery.
LEMMA OldMultiple ==
  ASSUME NEW n \in Int
  PROVE  /\ n - (n % SaveEvery) \in Int /\ (n - (n % SaveEvery)) % SaveEvery = 0
         /\ n - SaveEvery < n - (n % SaveEvery) /\ n - (n % SaveEvery) <= n
<1>1. n \div SaveEvery \in Int /\ n % SaveEvery \in 0 .. SaveEvery - 1
  BY Division, TrainingRunAssumption
<1>2. n = SaveEvery * (n \div SaveEvery) + (n % SaveEvery)
  BY Division, TrainingRunAssumption
<1>3. ASSUME NEW k \in Int PROVE (SaveEvery * k) % SaveEvery = 0
  BY TrainingRunAssumption
<1>4. n - (n % SaveEvery) = SaveEvery * (n \div SaveEvery)
  BY <1>1, <1>2, TrainingRunAssumption
<1> QED
  BY <1>1, <1>3, <1>4, TrainingRunAssumption

\* No multiple of SaveEvery comes before the next one.
LEMMA NextMultiple ==
  ASSUME NEW m \in Int, NEW n \in Int, m % SaveEvery = 0, n <= m + SaveEvery, n % SaveEvery # 0
  PROVE  n < m + SaveEvery
<1>1. (m + SaveEvery) % SaveEvery = 0
  BY TrainingRunAssumption
<1> QED
  BY <1>1, TrainingRunAssumption

\* Two lists of one job make one of two.
LEMMA PairOfJobs ==
  ASSUME NEW a, NEW b
  PROVE  << a >> \o << b >> = << a, b >>
<1> DEFINE S == { a, b }
<1>1. << a >> \in Seq(S) /\ << b >> \in Seq(S) /\ << a, b >> \in Seq(S)
  OBVIOUS
<1>2. Len(<< a >>) = 1 /\ Len(<< b >>) = 1 /\ Len(<< a, b >>) = 2
  OBVIOUS
<1> HIDE DEF S
<1>3. << a >> \o << b >> \in Seq(S) /\ Len(<< a >> \o << b >>) = 2
  BY <1>1, <1>2, ConcatProperties
<1>4. \A i \in 1 .. 2 : (<< a >> \o << b >>)[i] = IF i <= 1 THEN << a >>[i] ELSE << b >>[i - 1]
  BY <1>1, <1>2, ConcatProperties
<1>5. (<< a >> \o << b >>)[1] = << a, b >>[1] /\ (<< a >> \o << b >>)[2] = << a, b >>[2]
  BY <1>4
<1>6. \A i \in 1 .. 2 : (<< a >> \o << b >>)[i] = << a, b >>[i]
  BY <1>5
<1> QED
  BY <1>1, <1>2, <1>3, <1>6, SeqEqual

\* A list of one job.
LEMMA OneJob ==
  ASSUME NEW a
  PROVE  << a >> # << >> /\ Head(<< a >>) = a /\ Tail(<< a >>) = << >>
  OBVIOUS

\* A list of two jobs.
LEMMA TwoJobs ==
  ASSUME NEW a, NEW b
  PROVE  << a, b >> # << >> /\ Head(<< a, b >>) = a /\ Tail(<< a, b >>) = << b >>
  OBVIOUS

\* get_remove_step_no: the jobs of a step that is saved.
LEMMA RotationJobs ==
  ASSUME NEW n
  PROVE  LET old == n - SaveLast - 1 - ((n - SaveLast - 1) % SaveEvery) IN
         Rotation(n) = IF old >= 0 THEN << Save(Step(n)), Remove(Step(old)) >> ELSE << Save(Step(n)) >>
<1>1. ASSUME NEW a PROVE << a >> \o << >> = << a >>
  OBVIOUS
<1> QED
  BY <1>1, PairOfJobs DEF Rotation

-----------------------------------------------------------------------------
(* Types.                                                                   *)

\* The trainer, with its flag and its list of jobs from given sets.
RunOf(Flags, Lists) ==
  [ pc : Ended \cup { "load", "first_log", "epoch", "batch", "log", "epoch_end", "paused", "finish" },
    todo : Lists, open : Flags, resume : { "none", "own", "user" }, epoch : Nat, batch : Nat,
    initial_step : Nat, current_step : Nat, global_step : Nat, trained : Nat,
    saved : SUBSET (1 .. MaxSteps) ]

JobLists == Seq([ op : { "save", "remove" }, file : Files ])

Run == RunOf(BOOLEAN, JobLists)

\* The lists of jobs.
LEMMA JobsAreTyped ==
  ASSUME NEW n \in 0 .. MaxSteps, NEW m \in 0 .. MaxSteps
  PROVE  /\ << >> \in JobLists
         /\ << Save(ResumeDir) >> \in JobLists /\ << Save(LastModel) >> \in JobLists
         /\ << Save(Step(n)) >> \in JobLists /\ << Save(Step(n)), Remove(Step(m)) >> \in JobLists
         /\ << Remove(Step(m)) >> \in JobLists
<1> DEFINE J == [ op : { "save", "remove" }, file : Files ]
<1>1. ResumeDir \in Files /\ LastModel \in Files /\ Step(n) \in Files /\ Step(m) \in Files
  BY DEF Files
<1>2. ASSUME NEW f \in Files PROVE Save(f) \in J /\ Remove(f) \in J
  BY DEF Save, Remove
<1>3. ASSUME NEW a \in J, NEW b \in J PROVE << a >> \in Seq(J) /\ << a, b >> \in Seq(J) /\ << >> \in Seq(J)
  OBVIOUS
<1>4. Seq(J) = JobLists
  BY DEF JobLists
<1> HIDE DEF J
<1>5. J # {}
  BY <1>1, <1>2
<1> QED
  BY <1>1, <1>2, <1>3, <1>4, <1>5

\* No trainer, and one that starts.
LEMMA NoRunIsTyped ==
  ASSUME NEW r \in { "none", "own", "user" }
  PROVE  NoRun \in Run /\ [ NoRun EXCEPT !.pc = "load", !.resume = r ] \in Run
<1>1. ASSUME NEW O, NEW T, NEW o \in O, NEW t \in T,
             NEW n, n = [ pc |-> "none", todo |-> t, open |-> o, resume |-> "none", epoch |-> 0,
                          batch |-> 0, initial_step |-> 0, current_step |-> 0, global_step |-> 0,
                          trained |-> 0, saved |-> {} ]
      PROVE  n \in RunOf(O, T) /\ [ n EXCEPT !.pc = "load", !.resume = r ] \in RunOf(O, T)
  BY <1>1 DEF RunOf, Ended
<1>2. FALSE \in BOOLEAN /\ << >> \in JobLists
  BY DEF JobLists
<1> QED
  BY <1>1, <1>2 DEF Run, NoRun

\* A trainer goes on, or ends with nothing left to do.
LEMMA RunMoves ==
  ASSUME NEW r \in Run,
         NEW pc \in { "dead", "exited", "empty", "epoch", "batch", "epoch_end" }
  PROVE  /\ [ r EXCEPT !.pc = pc ] \in Run
         /\ [ r EXCEPT !.pc = "epoch", !.epoch = @ + 1 ] \in Run
<1>1. ASSUME NEW O, NEW T, NEW x \in RunOf(O, T) PROVE [ x EXCEPT !.pc = pc ] \in RunOf(O, T)
  BY <1>1 DEF RunOf, Ended
<1>2. ASSUME NEW O, NEW T, NEW x \in RunOf(O, T)
      PROVE  [ x EXCEPT !.pc = "epoch", !.epoch = @ + 1 ] \in RunOf(O, T)
  <2>1. ASSUME NEW e \in Nat PROVE [ x EXCEPT !.pc = "epoch", !.epoch = e ] \in RunOf(O, T)
    BY <1>2 DEF RunOf, Ended
  <2>2. x.epoch + 1 \in Nat
    BY <1>2 DEF RunOf
  <2> QED
    BY <2>1, <2>2
<1> QED
  BY <1>1, <1>2 DEF Run

\* A trainer has something to save, or nothing any more.
LEMMA RunSaves ==
  ASSUME NEW r \in Run, NEW pc \in { "dead", "paused", "finish" }, NEW t \in JobLists
  PROVE  /\ [ r EXCEPT !.pc = pc, !.todo = t ] \in Run
         /\ [ r EXCEPT !.pc = pc, !.todo = t, !.open = FALSE ] \in Run
<1>1. ASSUME NEW O, NEW T, NEW x \in RunOf(O, T), NEW o \in O, NEW l \in T
      PROVE  /\ [ x EXCEPT !.pc = pc, !.todo = l ] \in RunOf(O, T)
             /\ [ x EXCEPT !.pc = pc, !.todo = l, !.open = o ] \in RunOf(O, T)
  BY <1>1 DEF RunOf, Ended
<1>2. FALSE \in BOOLEAN
  OBVIOUS
<1> QED
  BY <1>1, <1>2 DEF Run

\* A trainer stands where its state says.
LEMMA RunLoads ==
  ASSUME NEW r \in Run, NEW pc \in { "first_log", "epoch" },
         NEW n \in Nat, NEW e \in Nat, NEW i \in Nat, NEW g \in Nat
  PROVE  [ r EXCEPT !.pc = pc, !.trained = n, !.epoch = e, !.initial_step = i, !.global_step = g ] \in Run
<1>1. ASSUME NEW O, NEW T, NEW x \in RunOf(O, T)
      PROVE  [ x EXCEPT !.pc = pc, !.trained = n, !.epoch = e, !.initial_step = i, !.global_step = g ]
               \in RunOf(O, T)
  BY <1>1 DEF RunOf, Ended
<1> QED
  BY <1>1 DEF Run

\* A trainer begins an epoch, or discards a batch.
LEMMA RunSkips ==
  ASSUME NEW r \in Run, NEW b \in Nat, NEW i \in Nat
  PROVE  /\ [ r EXCEPT !.pc = "batch", !.batch = b, !.initial_step = i ] \in Run
         /\ \A c \in Nat : [ r EXCEPT !.batch = b, !.initial_step = i, !.current_step = c ] \in Run
<1>1. ASSUME NEW O, NEW T, NEW x \in RunOf(O, T), NEW c \in Nat
      PROVE  /\ [ x EXCEPT !.pc = "batch", !.batch = b, !.initial_step = i ] \in RunOf(O, T)
             /\ [ x EXCEPT !.batch = b, !.initial_step = i, !.current_step = c ] \in RunOf(O, T)
  BY <1>1 DEF RunOf, Ended
<1>2. 0 \in Nat
  OBVIOUS
<1> QED
  BY <1>1, <1>2 DEF Run

\* A trainer takes a step.
LEMMA RunTrains ==
  ASSUME NEW r \in Run, NEW b \in Nat, NEW c \in Nat, NEW g \in Nat, NEW n \in Nat, NEW t \in JobLists
  PROVE  [ r EXCEPT !.pc = "log", !.batch = b, !.current_step = c, !.global_step = g, !.trained = n,
                    !.todo = t ] \in Run
<1>1. ASSUME NEW O, NEW T, NEW x \in RunOf(O, T), NEW l \in T
      PROVE  [ x EXCEPT !.pc = "log", !.batch = b, !.current_step = c, !.global_step = g, !.trained = n,
                        !.todo = l ] \in RunOf(O, T)
  BY <1>1 DEF RunOf, Ended
<1> QED
  BY <1>1 DEF Run

\* A trainer is writing, or has done a job.
LEMMA RunWrites ==
  ASSUME NEW r \in Run, NEW t \in JobLists, NEW s \in SUBSET (1 .. MaxSteps)
  PROVE  /\ [ r EXCEPT !.open = TRUE ] \in Run
         /\ [ r EXCEPT !.todo = t ] \in Run
         /\ [ r EXCEPT !.open = FALSE, !.todo = t, !.saved = s ] \in Run
<1>1. ASSUME NEW O, NEW T, NEW x \in RunOf(O, T), NEW o \in O, NEW l \in T
      PROVE  /\ [ x EXCEPT !.open = o ] \in RunOf(O, T)
             /\ [ x EXCEPT !.todo = l ] \in RunOf(O, T)
             /\ [ x EXCEPT !.open = o, !.todo = l, !.saved = s ] \in RunOf(O, T)
  BY <1>1 DEF RunOf
<1>2. FALSE \in BOOLEAN /\ TRUE \in BOOLEAN
  OBVIOUS
<1> QED
  BY <1>1, <1>2 DEF Run

\* TypeOK is what it says of the trainer, and the rest.
Typed ==
  /\ args \in Arguments
  /\ status \in Statuses
  /\ worker \in { "none", "launching", "watching", "joining" }
  /\ requested \in { "none", "pause", "cancel" }
  /\ control \in [ action : { "none", "pause", "cancel", "paused", "pause_failed", "cancelled" },
                   trained : Nat ]
  /\ disk \in [ Files -> Content ]
  /\ beside \in BOOLEAN
  /\ controls \in 0 .. MaxControls /\ faults \in 0 .. MaxFaults

\* The trainer's part of the types, and the rest.
LEMMA TypeParts == TypeOK <=> Typed /\ run \in Run
  BY DEF TypeOK, Typed, Run, RunOf, JobLists

\* The same in the next state.
LEMMA TypePartsNext == TypeOK' <=> Typed' /\ run' \in Run
  BY DEF TypeOK, Typed, Run, RunOf, JobLists

-----------------------------------------------------------------------------
(* What the steps do to the trainer, field by field.                        *)

\* It keeps all but its place and its list.
Becomes(pc, todo) ==
  /\ run'.pc = pc /\ run'.todo = todo
  /\ run'.resume = run.resume /\ run'.saved = run.saved
  /\ run'.epoch = run.epoch /\ run'.batch = run.batch /\ run'.initial_step = run.initial_step
  /\ run'.current_step = run.current_step /\ run'.global_step = run.global_step
  /\ run'.trained = run.trained

\* The fields of a typed trainer.
LEMMA RunFields ==
  ASSUME TypeOK
  PROVE  /\ run.todo \in JobLists
         /\ run.resume \in { "none", "own", "user" } /\ run.saved \in SUBSET (1 .. MaxSteps)
         /\ run.epoch \in Nat /\ run.batch \in Nat /\ run.initial_step \in Nat
         /\ run.current_step \in Nat /\ run.global_step \in Nat /\ run.trained \in Nat
  BY TypeParts DEF Run, RunOf

\* The place of a record of which only the place, or the place and the list, is
\* replaced.
LEMMA MovedFields ==
  ASSUME TypeOK, NEW pc, NEW todo
  PROVE  /\ run' = [ run EXCEPT !.pc = pc ] => Becomes(pc, run.todo)
         /\ run' = [ run EXCEPT !.pc = pc, !.todo = todo ] => Becomes(pc, todo)
         /\ run' = [ run EXCEPT !.pc = pc, !.todo = todo, !.open = FALSE ] => Becomes(pc, todo)
         /\ run' = [ run EXCEPT !.open = TRUE ] => Becomes(run.pc, run.todo)
         /\ run' = [ run EXCEPT !.todo = todo ] => Becomes(run.pc, todo)
         /\ run' = run => Becomes(run.pc, run.todo)
<1> USE DEF Becomes, Run, RunOf
<1>1. run' = [ run EXCEPT !.pc = pc ] => Becomes(pc, run.todo)
  BY TypeParts
<1>2. run' = [ run EXCEPT !.pc = pc, !.todo = todo ] => Becomes(pc, todo)
  BY TypeParts
<1>3. run' = [ run EXCEPT !.pc = pc, !.todo = todo, !.open = FALSE ] => Becomes(pc, todo)
  BY TypeParts
<1>4. run' = [ run EXCEPT !.open = TRUE ] => Becomes(run.pc, run.todo)
  BY TypeParts
<1>5. run' = [ run EXCEPT !.todo = todo ] => Becomes(run.pc, todo)
  BY TypeParts
<1>6. run' = run => Becomes(run.pc, run.todo)
  OBVIOUS
<1> QED
  BY <1>1, <1>2, <1>3, <1>4, <1>5, <1>6

\* A launched trainer has counted and saved nothing.
LEMMA LaunchFields ==
  ASSUME LaunchTrainer
  PROVE  /\ run'.pc = "load" /\ run'.todo = << >> /\ run'.resume = ResumeFrom /\ run'.saved = {}
         /\ run'.current_step = 0
  BY DEF LaunchTrainer, NoRun

\* Nor has no trainer at all.
LEMMA CrashFields ==
  ASSUME run' = NoRun
  PROVE  run'.pc = "none" /\ run'.todo = << >> /\ run'.saved = {}
  BY DEF NoRun

\* The arguments of the task.
LEMMA ArgumentFields ==
  ASSUME TypeOK
  PROVE  args.resume \in 0 .. MaxSteps /\ args.kind \in { "network", "model" }
  BY ArgumentsAssumption DEF TypeOK, Argument

\* The files of a typed disk.
LEMMA FileFields ==
  ASSUME TypeOK, NEW f \in Files
  PROVE  disk[f].trained \in Nat /\ disk[f].current_step \in Nat
  BY DEF TypeOK, Content

\* What is loaded counts steps.
LEMMA LoadedFields ==
  ASSUME TypeOK
  PROVE  Loaded.trained \in Nat /\ Loaded.current_step \in Nat
<1>1. ResumeDir \in Files
  BY DEF Files
<1>2. CASE run.resume = "own"
  BY <1>1, <1>2, FileFields DEF Loaded
<1>3. CASE run.resume = "user"
  BY <1>3, ArgumentFields, TrainingRunAssumption DEF Loaded
<1>4. CASE run.resume = "none"
  BY <1>4 DEF Loaded, NoFile
<1> QED
  BY <1>2, <1>3, <1>4, RunFields

\* Where a trainer stands that loaded its state.
LEMMA LoadFields ==
  ASSUME TypeOK, LoadState
  PROVE  \/ Becomes("dead", << >>)
         \/ LET initial == Loaded.current_step
                rest    == IF args.skip THEN initial % Batches ELSE 0
            IN
            /\ run'.pc \in { "first_log", "epoch" } /\ run'.todo = << >>
            /\ Loaded.whole /\ (initial > 0 => initial < MaxSteps)
            /\ run'.trained = Loaded.trained /\ run'.epoch = initial \div Batches
            /\ run'.initial_step = rest /\ run'.global_step = rest
            /\ run'.resume = run.resume /\ run'.saved = run.saved
            /\ run'.current_step = run.current_step
<1>1. run.todo = << >>
  BY DEF LoadState, Go
<1>2. CASE ~ Loaded.whole \/ (Loaded.current_step > 0 /\ MaxSteps <= Loaded.current_step)
  BY <1>1, <1>2, MovedFields DEF LoadState
<1>3. CASE ~ (~ Loaded.whole \/ (Loaded.current_step > 0 /\ MaxSteps <= Loaded.current_step))
  <2>1. Loaded.whole /\ (Loaded.current_step > 0 => Loaded.current_step < MaxSteps)
    BY <1>3, LoadedFields, TrainingRunAssumption
  <2>2. /\ run' = [ run EXCEPT !.pc = IF args.tracking THEN "first_log" ELSE "epoch",
                        !.trained = Loaded.trained, !.epoch = Loaded.current_step \div Batches,
                        !.initial_step = IF args.skip THEN Loaded.current_step % Batches ELSE 0,
                        !.global_step = IF args.skip THEN Loaded.current_step % Batches ELSE 0 ]
    BY <1>3 DEF LoadState
  <2> DEFINE place == IF args.tracking THEN "first_log" ELSE "epoch"
             rest  == IF args.skip THEN Loaded.current_step % Batches ELSE 0
             first == Loaded.current_step \div Batches
  <2>4. place \in { "first_log", "epoch" }
    OBVIOUS
  <2>5. run' = [ run EXCEPT !.pc = place, !.trained = Loaded.trained, !.epoch = first,
                            !.initial_step = rest, !.global_step = rest ]
    BY <2>2
  <2> HIDE DEF place, rest, first
  <2>6. /\ run'.pc = place /\ run'.todo = run.todo /\ run'.trained = Loaded.trained
        /\ run'.epoch = first /\ run'.initial_step = rest /\ run'.global_step = rest
        /\ run'.resume = run.resume /\ run'.saved = run.saved
        /\ run'.current_step = run.current_step
    BY <2>5, TypeParts DEF Run, RunOf
  <2> QED
    BY <1>1, <2>1, <2>4, <2>6, Zenon DEF rest, first
<1> QED
  BY <1>2, <1>3

\* A log that finds a pause in control.json.
FindsPause ==
  /\ FirstLog \/ ((LogStep \/ LogEpoch) /\ args.kind = "model")
  /\ control.action = "pause" /\ UNCHANGED control

\* What a log leads to: a pause, the end, or the next step.
LEMMA LogFields ==
  ASSUME TypeOK, FirstLog \/ LogStep \/ LogEpoch
  PROVE  \/ FindsPause /\ Becomes("paused", << Save(ResumeDir) >>)
         \/ control.action = "cancel" /\ control' = [ action |-> "cancelled", trained |-> 0 ]
            /\ Becomes("dead", << >>)
         \/ FirstLog /\ UNCHANGED control /\ Becomes("epoch", << >>)
         \/ LogStep /\ UNCHANGED control
            /\ Becomes(IF run.global_step >= MaxSteps THEN "epoch_end" ELSE "batch", << >>)
         \/ LogEpoch /\ UNCHANGED control /\ run' = [ run EXCEPT !.pc = "epoch", !.epoch = @ + 1 ]
<1>1. run.todo = << >>
  BY DEF FirstLog, LogStep, LogEpoch, Go
<1>2. ASSUME NEW next, ObserveLog(next)
      PROVE  \/ control.action = "pause" /\ UNCHANGED control /\ Becomes("paused", << Save(ResumeDir) >>)
             \/ control.action = "cancel" /\ control' = [ action |-> "cancelled", trained |-> 0 ]
                /\ Becomes("dead", << >>)
             \/ UNCHANGED control /\ run' = next
  BY <1>1, <1>2, MovedFields DEF ObserveLog
<1>3. CASE FirstLog
  <2>1. run' = [ run EXCEPT !.pc = "epoch" ] => Becomes("epoch", << >>)
    BY <1>1, MovedFields
  <2>2. ObserveLog([ run EXCEPT !.pc = "epoch" ])
    BY <1>3 DEF FirstLog
  <2> DEFINE next == [ run EXCEPT !.pc = "epoch" ]
  <2> HIDE DEF next
  <2>3. \/ control.action = "pause" /\ UNCHANGED control /\ Becomes("paused", << Save(ResumeDir) >>)
        \/ control.action = "cancel" /\ control' = [ action |-> "cancelled", trained |-> 0 ]
           /\ Becomes("dead", << >>)
        \/ UNCHANGED control /\ run' = next
    BY <1>2, <2>2 DEF next
  <2> QED
    BY <1>3, <2>1, <2>3 DEF next, FindsPause
<1>4. CASE LogStep
  <2>1. run' = StepDone =>
          Becomes(IF run.global_step >= MaxSteps THEN "epoch_end" ELSE "batch", << >>)
    BY <1>1, MovedFields DEF StepDone
  <2> QED
    BY <1>2, <1>4, <2>1 DEF LogStep, Observed, FindsPause
<1>5. CASE LogEpoch
  BY <1>2, <1>5 DEF LogEpoch, Observed, FindsPause
<1> QED
  BY <1>3, <1>4, <1>5

\* The next epoch.
LEMMA EpochFields ==
  ASSUME TypeOK, run.todo = << >>, run' = [ run EXCEPT !.pc = "epoch", !.epoch = @ + 1 ]
  PROVE  /\ run'.pc = "epoch" /\ run'.todo = << >> /\ run'.epoch = run.epoch + 1
         /\ run'.resume = run.resume /\ run'.saved = run.saved
         /\ run'.initial_step = run.initial_step
         /\ run'.global_step = run.global_step /\ run'.trained = run.trained
  BY TypeParts DEF Run, RunOf

\* The first batch of an epoch.
LEMMA BeginEpochFields ==
  ASSUME TypeOK, BeginEpoch
  PROVE  \/ run.epoch >= NumEpochs /\ Becomes("finish", << Save(LastModel) >>)
         \/ /\ run.epoch < NumEpochs
            /\ run'.pc = "batch" /\ run'.todo = << >>
            /\ run'.batch + run'.initial_step = run.initial_step
            /\ run'.batch \in Nat /\ run'.initial_step \in { 0, 1 }
            /\ run'.epoch = run.epoch
            /\ run'.resume = run.resume /\ run'.saved = run.saved
            /\ run'.global_step = run.global_step /\ run'.trained = run.trained
<1>1. run.todo = << >>
  BY DEF BeginEpoch, Go
<1>2. CASE run.epoch >= NumEpochs
  BY <1>1, <1>2, MovedFields DEF BeginEpoch
<1>3. CASE ~ (run.epoch >= NumEpochs)
  <2>1. NumEpochs \in Int /\ run.epoch \in Nat /\ run.initial_step \in Nat
    BY NumEpochsRoundUp, RunFields, TrainingRunAssumption
  <2> DEFINE b == IF run.initial_step > 0 THEN run.initial_step - 1 ELSE 0
             i == IF run.initial_step > 0 THEN 1 ELSE 0
  <2>2. b \in Nat /\ i \in { 0, 1 } /\ b + i = run.initial_step
    BY <2>1
  <2>3. run' = [ run EXCEPT !.pc = "batch", !.batch = b, !.initial_step = i ]
    BY <1>3 DEF BeginEpoch
  <2> HIDE DEF b, i
  <2>4. /\ run'.pc = "batch" /\ run'.todo = run.todo /\ run'.batch = b /\ run'.initial_step = i
        /\ run'.epoch = run.epoch /\ run'.resume = run.resume /\ run'.saved = run.saved
        /\ run'.global_step = run.global_step /\ run'.trained = run.trained
    BY <2>3, TypeParts DEF Run, RunOf
  <2> QED
    BY <1>1, <1>3, <2>1, <2>2, <2>4
<1> QED
  BY <1>2, <1>3

\* A batch that is passed over.
LEMMA DiscardFields ==
  ASSUME TypeOK, DiscardBatch
  PROVE  /\ run.pc = "batch" /\ run'.pc = "batch" /\ run'.todo = << >>
         /\ run'.batch = run.batch + 1 /\ run'.initial_step = run.initial_step - 1
         /\ run'.epoch = run.epoch
         /\ run'.resume = run.resume /\ run'.saved = run.saved
         /\ run'.global_step = run.global_step /\ run'.trained = run.trained
  BY TypeParts DEF DiscardBatch, Go, Run, RunOf

\* A step.
LEMMA TrainFields ==
  ASSUME TypeOK, TrainBatch
  PROVE  /\ run.pc = "batch" /\ run'.pc = "log"
         /\ run'.todo = IF run'.global_step % SaveEvery = 0 THEN Rotation(run'.global_step) ELSE << >>
         /\ run'.batch = run.batch + 1 /\ run'.initial_step = 0 /\ run.initial_step = 0
         /\ run.batch < Batches /\ run'.epoch = run.epoch
         /\ run'.resume = run.resume /\ run'.saved = run.saved
         /\ run'.global_step = run.global_step + 1 /\ run'.trained = run.trained + 1
<1> DEFINE step == run.global_step + 1
           list == IF step % SaveEvery = 0 THEN Rotation(step) ELSE << >>
<1>1. /\ run' = [ run EXCEPT !.pc = "log", !.batch = @ + 1, !.current_step = run.global_step,
                             !.global_step = step, !.trained = @ + 1, !.todo = list ]
      /\ run.pc = "batch" /\ run.initial_step = 0 /\ run.batch < Batches
  BY DEF TrainBatch, Go
<1>2. list = IF step % SaveEvery = 0 THEN Rotation(step) ELSE << >>
  OBVIOUS
<1> HIDE DEF list
<1>3. /\ run'.pc = "log" /\ run'.todo = list
      /\ run'.batch = run.batch + 1 /\ run'.initial_step = run.initial_step
      /\ run'.epoch = run.epoch /\ run'.resume = run.resume /\ run'.saved = run.saved
      /\ run'.global_step = step /\ run'.trained = run.trained + 1
  BY <1>1, TypeParts DEF Run, RunOf
<1> QED
  BY <1>1, <1>2, <1>3

\* A file that is done.
LEMMA SaveFields ==
  ASSUME TypeOK, EndSave
  PROVE  /\ run'.pc = run.pc /\ run'.todo = Tail(run.todo)
         /\ run'.saved = IF Job.file.kind = "step" THEN run.saved \cup { Job.file.no } ELSE run.saved
         /\ run'.resume = run.resume
         /\ run'.epoch = run.epoch /\ run'.batch = run.batch /\ run'.initial_step = run.initial_step
         /\ run'.current_step = run.current_step /\ run'.global_step = run.global_step
         /\ run'.trained = run.trained
<1> DEFINE s == IF Job.file.kind = "step" THEN run.saved \cup { Job.file.no } ELSE run.saved
           t == Tail(run.todo)
<1>1. run' = [ run EXCEPT !.open = FALSE, !.todo = t, !.saved = s ]
  BY DEF EndSave
<1> HIDE DEF s, t
<1>2. /\ run'.pc = run.pc /\ run'.todo = t /\ run'.saved = s /\ run'.resume = run.resume
      /\ run'.epoch = run.epoch /\ run'.batch = run.batch /\ run'.initial_step = run.initial_step
      /\ run'.current_step = run.current_step /\ run'.global_step = run.global_step
      /\ run'.trained = run.trained
  BY <1>1, TypeParts DEF Run, RunOf
<1> QED
  BY <1>2 DEF s, t

-----------------------------------------------------------------------------
(* The kinds of steps, as far as the trainer and its files are concerned.   *)

Still == run' = run /\ disk' = disk

\* An older trainer writes.
Strays ==
  /\ beside /\ run' = run
  /\ \E f \in Files : disk' = [ disk EXCEPT ![f] = [ NoFile EXCEPT !.there = TRUE ] ]

\* No trainer, or a new one.
Renewed ==
  /\ run'.pc \in { "none", "load" } /\ run'.todo = << >> /\ run'.saved = {}
  /\ run'.pc = "load" => run'.current_step = 0 /\ run'.resume = ResumeFrom
  /\ disk' = disk

Dies == (Becomes("dead", << >>) \/ Becomes("empty", << >>)) /\ disk' = disk

Pauses ==
  /\ run.pc \in { "first_log", "log", "epoch_end" } /\ run.todo = << >>
  /\ run.pc = "first_log" \/ args.kind = "model"
  /\ control.action = "pause"
  /\ Becomes("paused", << Save(ResumeDir) >>) /\ disk' = disk

Loads ==
  LET initial == Loaded.current_step
      rest    == IF args.skip THEN initial % Batches ELSE 0
  IN
  /\ run.pc = "load" /\ run'.pc \in { "first_log", "epoch" } /\ run'.todo = << >>
  /\ Loaded.whole /\ (initial > 0 => initial < MaxSteps)
  /\ run'.trained = Loaded.trained /\ run'.epoch = initial \div Batches
  /\ run'.initial_step = rest /\ run'.global_step = rest
  /\ run'.resume = run.resume /\ run'.saved = run.saved /\ run'.current_step = run.current_step
  /\ disk' = disk

\* To the next place, at which all counts are the same.
GoesOn ==
  /\ \/ run.pc = "first_log" /\ Becomes("epoch", << >>)
     \/ run.pc = "log" /\ run.global_step >= MaxSteps /\ Becomes("epoch_end", << >>)
     \/ run.pc = "log" /\ run.global_step < MaxSteps /\ Becomes("batch", << >>)
     \/ run.pc = "batch" /\ run.batch >= Batches /\ Becomes("epoch_end", << >>)
     \/ run.pc = "epoch" /\ run.epoch >= NumEpochs /\ Becomes("finish", << Save(LastModel) >>)
     \/ run.pc = "finish" /\ Becomes("exited", << >>)
  /\ run.todo = << >> /\ disk' = disk

\* To the next epoch, or into the one that is next.
Turns ==
  /\ \/ run.pc = "epoch_end" /\ run'.pc = "epoch" /\ run'.epoch = run.epoch + 1
        /\ run'.initial_step = run.initial_step
     \/ /\ run.pc = "epoch" /\ run.epoch < NumEpochs /\ run'.pc = "batch"
        /\ run'.batch + run'.initial_step = run.initial_step
        /\ run'.batch \in Nat /\ run'.initial_step \in { 0, 1 }
        /\ run'.epoch = run.epoch
  /\ run.todo = << >> /\ run'.todo = << >>
  /\ run'.resume = run.resume /\ run'.saved = run.saved
  /\ run'.global_step = run.global_step /\ run'.trained = run.trained
  /\ disk' = disk

\* Over a batch, or a step with it.
Passes ==
  /\ run.pc = "batch" /\ run.todo = << >> /\ run.batch < Batches /\ run'.batch = run.batch + 1
  /\ \/ /\ run'.pc = "batch" /\ run'.todo = << >> /\ run.initial_step > 0
        /\ run'.initial_step = run.initial_step - 1
        /\ run'.global_step = run.global_step /\ run'.trained = run.trained
     \/ /\ run'.pc = "log" /\ run.initial_step = 0 /\ run'.initial_step = 0
        /\ run'.todo = IF run'.global_step % SaveEvery = 0 THEN Rotation(run'.global_step) ELSE << >>
        /\ run'.global_step = run.global_step + 1 /\ run'.trained = run.trained + 1
  /\ run'.epoch = run.epoch /\ run'.resume = run.resume /\ run'.saved = run.saved
  /\ disk' = disk

\* Through the list of files.
Writes == BeginSave \/ EndSave \/ RemoveFile

\* The steps of the user and the worker, and what else happens to a trainer.
FromOutside ==
  \/ UserStep \/ WorkerStep \/ LaunchFails \/ WatchFails \/ ReportProgress \/ TrainerFails
  \/ StrayWrites \/ Crash

\* They leave the trainer alone, start it or kill it, or write in its place.
LEMMA WorkerKinds ==
  ASSUME TypeOK, FromOutside \/ UNCHANGED vars
  PROVE  args' = args /\ (Still \/ Strays \/ Renewed \/ Dies)
<1>1. CASE UserStep \/ StartWorker \/ RequestStop \/ SettleRun \/ LaunchFails \/ WatchFails
           \/ ReportProgress
  BY <1>1 DEF UserStep, PauseTask, ResumeTask, CancelTask, RetryTask, Control, StartWorker, RequestStop,
     SettleRun, LaunchFails, WatchFails, ReportProgress, taskVars, Still
<1>2. CASE LaunchTrainer
  BY <1>2, LaunchFields DEF LaunchTrainer, taskVars, Renewed
<1>3. CASE Crash
  BY <1>3, CrashFields DEF Crash, Renewed, Still
<1>4. CASE KillTrainer \/ TrainerFails
  <2>1. run' = Killed \/ run' = run
    BY <1>4 DEF KillTrainer, TrainerFails
  <2>2. run' = Killed => Becomes("dead", << >>)
    BY MovedFields DEF Killed
  <2>3. args' = args /\ disk' = disk
    BY <1>4 DEF KillTrainer, TrainerFails, taskVars
  <2> QED
    BY <2>1, <2>2, <2>3 DEF Dies, Still
<1>5. CASE StrayWrites
  BY <1>5 DEF StrayWrites, Strays, taskVars
<1>6. CASE UNCHANGED vars
  BY <1>6 DEF vars, taskVars, Still
<1> QED
  BY <1>1, <1>2, <1>3, <1>4, <1>5, <1>6 DEF FromOutside, WorkerStep

\* The trainer's own steps.
LEMMA TrainerKinds ==
  ASSUME TypeOK, TrainerStep \/ PauseFails
  PROVE  args' = args /\ (Dies \/ Pauses \/ Loads \/ GoesOn \/ Turns \/ Passes \/ Writes)
<1>1. CASE LoadState
  <2>1. args' = args /\ disk' = disk /\ run.pc = "load"
    BY <1>1 DEF LoadState, taskVars, Go
  <2> QED
    BY <1>1, <2>1, LoadFields DEF Dies, Loads
<1>2. CASE FirstLog \/ LogStep \/ LogEpoch
  <2>1. args' = args /\ disk' = disk /\ run.todo = << >>
    BY <1>2 DEF FirstLog, LogStep, LogEpoch, taskVars, Go
  <2>2. (FirstLog => run.pc = "first_log") /\ (LogStep => run.pc = "log")
        /\ (LogEpoch => run.pc = "epoch_end")
    BY DEF FirstLog, LogStep, LogEpoch, Go
  <2>3. run.global_step \in Nat /\ MaxSteps \in Nat
    BY RunFields, TrainingRunAssumption
  <2>4. CASE FindsPause /\ Becomes("paused", << Save(ResumeDir) >>)
    BY <1>2, <2>1, <2>2, <2>4 DEF FindsPause, Pauses
  <2>5. CASE Becomes("dead", << >>)
    BY <2>1, <2>5 DEF Dies
  <2>6. CASE FirstLog /\ Becomes("epoch", << >>)
    BY <2>1, <2>2, <2>6 DEF GoesOn
  <2>7. CASE LogStep /\ Becomes(IF run.global_step >= MaxSteps THEN "epoch_end" ELSE "batch", << >>)
    <3>1. CASE run.global_step >= MaxSteps
      BY <2>1, <2>2, <2>7, <3>1 DEF GoesOn
    <3>2. CASE ~ (run.global_step >= MaxSteps)
      <4>1. run.global_step < MaxSteps
        BY <2>3, <3>2
      <4> QED
        BY <2>1, <2>2, <2>7, <3>2, <4>1 DEF GoesOn
    <3> QED
      BY <3>1, <3>2
  <2>8. CASE LogEpoch /\ run' = [ run EXCEPT !.pc = "epoch", !.epoch = @ + 1 ]
    BY <2>1, <2>2, <2>8, EpochFields DEF Turns
  <2> QED
    BY <1>2, <2>1, <2>4, <2>5, <2>6, <2>7, <2>8, LogFields
<1>3. CASE Paused \/ PauseFails
  <2>1. \/ run' = [ run EXCEPT !.pc = "dead" ] /\ run.todo = << >>
        \/ run' = [ run EXCEPT !.pc = "dead", !.todo = << >>, !.open = FALSE ]
    BY <1>3 DEF Paused, PauseFails, Go
  <2> QED
    BY <1>3, <2>1, MovedFields DEF Paused, PauseFails, taskVars, Dies
<1>4. CASE BeginEpoch
  <2>1. args' = args /\ disk' = disk /\ run.pc = "epoch" /\ run.todo = << >>
    BY <1>4 DEF BeginEpoch, taskVars, Go
  <2> QED
    BY <1>4, <2>1, BeginEpochFields DEF GoesOn, Turns
<1>5. CASE DiscardBatch
  <2>1. args' = args /\ disk' = disk /\ run.todo = << >> /\ run.initial_step > 0 /\ run.batch < Batches
    BY <1>5 DEF DiscardBatch, taskVars, Go
  <2> QED
    BY <1>5, <2>1, DiscardFields DEF Passes
<1>6. CASE TrainBatch
  <2>1. args' = args /\ disk' = disk /\ run.todo = << >>
    BY <1>6 DEF TrainBatch, taskVars, Go
  <2> QED
    BY <1>6, <2>1, TrainFields DEF Passes
<1>7. CASE EndEpoch \/ FinishTraining
  BY <1>7, MovedFields DEF EndEpoch, FinishTraining, Go, taskVars, GoesOn
<1>8. CASE BeginSave \/ EndSave \/ RemoveFile
  BY <1>8 DEF BeginSave, EndSave, RemoveFile, taskVars, Writes
<1>9. CASE FindNoData
  <2>1. args' = args /\ disk' = disk /\ run.todo = << >> /\ run' = [ run EXCEPT !.pc = "empty" ]
    BY <1>9 DEF FindNoData, taskVars, Go
  <2>2. Becomes("empty", run.todo)
    BY <2>1, MovedFields
  <2> QED
    BY <2>1, <2>2 DEF Dies
<1> QED
  BY <1>1, <1>2, <1>3, <1>4, <1>5, <1>6, <1>7, <1>8, <1>9 DEF TrainerStep

\* Every step is of one of these kinds.
LEMMA StepKinds ==
  ASSUME TypeOK, [Next]_vars
  PROVE  /\ args' = args
         /\ \/ Still \/ Strays \/ Renewed \/ Dies \/ Pauses \/ Loads \/ GoesOn \/ Turns
            \/ Passes \/ Writes
  BY WorkerKinds, TrainerKinds DEF Next, FromOutside

\* What an older trainer leaves of a file.
LEMMA StrayFields ==
  ASSUME TypeOK, Strays, NEW f \in Files
  PROVE  \/ disk'[f] = disk[f]
         \/ disk'[f].there /\ disk'[f].current_step = 0
<1>1. PICK g \in Files : disk' = [ disk EXCEPT ![g] = [ NoFile EXCEPT !.there = TRUE ] ]
  BY DEF Strays
<1>2. f # g => disk'[f] = disk[f]
  BY <1>1
<1>3. f = g => disk'[f] = [ NoFile EXCEPT !.there = TRUE ]
  BY <1>1 DEF TypeOK
<1>4. [ NoFile EXCEPT !.there = TRUE ].there /\ [ NoFile EXCEPT !.there = TRUE ].current_step = 0
  BY DEF NoFile
<1> QED
  BY <1>2, <1>3, <1>4

\* That a second trainer was started beside the first is not forgotten.
LEMMA BesideStays ==
  ASSUME [Next]_vars, ~ beside'
  PROVE  ~ beside /\ ~ Strays
<1>1. CASE LaunchTrainer
  BY <1>1 DEF LaunchTrainer, Strays
<1>2. CASE ~ LaunchTrainer
  <2> SUFFICES ~ beside
    BY DEF Strays
  <2>1. CASE UNCHANGED vars
    BY <2>1 DEF vars
  <2>2. CASE UserStep \/ StartWorker \/ RequestStop \/ KillTrainer \/ SettleRun
    BY <2>2 DEF UserStep, PauseTask, ResumeTask, CancelTask, RetryTask, Control, StartWorker, RequestStop,
       KillTrainer, SettleRun
  <2>3. CASE LaunchFails \/ WatchFails \/ ReportProgress \/ PauseFails \/ TrainerFails
    BY <2>3 DEF LaunchFails, WatchFails, ReportProgress, PauseFails, TrainerFails
  <2>4. CASE StrayWrites \/ Crash
    BY <2>4 DEF StrayWrites, Crash
  <2>5. CASE TrainerStep
    BY <2>5 DEF TrainerStep, LoadState, FindNoData, FirstLog, LogStep, LogEpoch, Paused, BeginEpoch,
       DiscardBatch, TrainBatch, EndEpoch, FinishTraining, BeginSave, EndSave, RemoveFile
  <2> QED
    BY <1>2, <2>1, <2>2, <2>3, <2>4, <2>5 DEF Next, WorkerStep
<1> QED
  BY <1>1, <1>2

-----------------------------------------------------------------------------
(* Files.                                                                   *)

\* The file f is opened, done or removed, and no other changes.
Opens(f) ==
  /\ Becomes(run.pc, run.todo)
  /\ disk'[f] = [ NoFile EXCEPT !.there = TRUE ]

Completes(f) ==
  /\ run'.pc = run.pc /\ run'.todo = Tail(run.todo)
  /\ run'.saved = IF f.kind = "step" THEN run.saved \cup { f.no } ELSE run.saved
  /\ run'.resume = run.resume
  /\ run'.epoch = run.epoch /\ run'.batch = run.batch /\ run'.initial_step = run.initial_step
  /\ run'.current_step = run.current_step /\ run'.global_step = run.global_step
  /\ run'.trained = run.trained
  /\ disk'[f] = [ there |-> TRUE, whole |-> TRUE, trained |-> run.trained,
                  current_step |-> IF args.kind = "network" THEN run.current_step + 1 ELSE 0 ]

Removes(f) == Becomes(run.pc, Tail(run.todo)) /\ disk'[f] = NoFile

OthersStay(f) == \A g \in Files : g # f => disk'[g] = disk[g]

\* The file of the first job changes, and no other.
LEMMA WriteFields ==
  ASSUME TypeOK, Writes, Job.file \in Files
  PROVE  /\ run.todo # << >> /\ OthersStay(Job.file)
         /\ \/ Job.op = "save" /\ Opens(Job.file)
            \/ Job.op = "save" /\ Completes(Job.file)
            \/ Job.op = "remove" /\ Removes(Job.file)
<1> USE DEF OthersStay, TypeOK
<1>1. CASE BeginSave
  <2>1. Becomes(run.pc, run.todo)
    BY <1>1, MovedFields DEF BeginSave
  <2> QED
    BY <1>1, <2>1 DEF BeginSave, Opens
<1>2. CASE EndSave
  BY <1>2, SaveFields DEF EndSave, Completes
<1>3. CASE RemoveFile
  <2>1. Becomes(run.pc, Tail(run.todo))
    BY <1>3, MovedFields DEF RemoveFile
  <2> QED
    BY <1>3, <2>1 DEF RemoveFile, Removes
<1> QED
  BY <1>1, <1>2, <1>3 DEF Writes

\* The files are different ones.
LEMMA FilesDiffer ==
  /\ LastModel \in Files /\ ResumeDir \in Files /\ LastModel # ResumeDir
  /\ \A n \in 0 .. MaxSteps : Step(n) \in Files
  /\ \A n : Step(n) # LastModel /\ Step(n) # ResumeDir /\ Step(n).kind = "step" /\ Step(n).no = n
  /\ LastModel.kind # "step" /\ ResumeDir.kind # "step"
  /\ \A f : Save(f).op = "save" /\ Save(f).file = f /\ Remove(f).op = "remove" /\ Remove(f).file = f
  BY DEF Files, Step, LastModel, ResumeDir, Save, Remove

\* The checkpoint that goes when that of step n is there.
Oldest(n) == n - SaveLast - 1 - ((n - SaveLast - 1) % SaveEvery)

\* The first job and what is left, in each case.
LEMMA JobCases ==
  ASSUME TypeOK, Jobs, Position, run.todo # << >>
  PROVE  \/ /\ SavesStep /\ Job = Save(Step(run.global_step)) /\ run.global_step \in 1 .. MaxSteps
            /\ run.global_step % SaveEvery = 0
            /\ Tail(run.todo) = IF Oldest(run.global_step) >= 0
                                THEN << Remove(Step(Oldest(run.global_step))) >> ELSE << >>
         \/ /\ run.pc = "log" /\ Tail(run.todo) = << >>
            /\ \E old \in 0 .. MaxSteps :
                 /\ Job = Remove(Step(old)) /\ run.todo = << Remove(Step(old)) >>
                 /\ old < run.global_step - SaveLast
                 /\ run.global_step \in run.saved
         \/ run.pc = "finish" /\ Job = Save(LastModel) /\ Tail(run.todo) = << >>
         \/ run.pc = "paused" /\ Job = Save(ResumeDir) /\ Tail(run.todo) = << >>
<1>1. CASE SavesStep /\ run.global_step % SaveEvery = 0
  <2>1. run.global_step \in 1 .. MaxSteps
    BY <1>1 DEF SavesStep, Position
  <2> DEFINE n == run.global_step
  <2>2. run.todo = IF Oldest(n) >= 0 THEN << Save(Step(n)), Remove(Step(Oldest(n))) >>
                   ELSE << Save(Step(n)) >>
    BY <1>1, RotationJobs DEF SavesStep, Oldest
  <2>3. /\ Job = Save(Step(n))
        /\ Tail(run.todo) = IF Oldest(n) >= 0 THEN << Remove(Step(Oldest(n))) >> ELSE << >>
    <3>1. CASE Oldest(n) >= 0
      <4>1. run.todo = << Save(Step(n)), Remove(Step(Oldest(n))) >>
        BY <2>2, <3>1
      <4> QED
        BY <3>1, <4>1, TwoJobs DEF Job
    <3>2. CASE ~ (Oldest(n) >= 0)
      <4>1. run.todo = << Save(Step(n)) >>
        BY <2>2, <3>2
      <4> QED
        BY <3>2, <4>1, OneJob DEF Job
    <3> QED
      BY <3>1, <3>2
  <2> QED
    BY <1>1, <2>1, <2>3
<1>2. CASE run.pc = "log" /\ RemovesOld
  BY <1>2, OneJob DEF RemovesOld, Job
<1>3. CASE run.pc = "finish" /\ run.todo = << Save(LastModel) >>
  BY <1>3, OneJob DEF Job
<1>4. CASE run.pc = "paused" /\ run.todo = << Save(ResumeDir) >>
  BY <1>4, OneJob DEF Job
<1> QED
  BY <1>1, <1>2, <1>3, <1>4 DEF Jobs

\* So it is a file of the run.
LEMMA JobIsFile ==
  ASSUME TypeOK, Jobs, Position, run.todo # << >>
  PROVE  Job.file \in Files
<1>1. \A n \in 1 .. MaxSteps : n \in 0 .. MaxSteps
  BY TrainingRunAssumption
<1> QED
  BY <1>1, JobCases, FilesDiffer

\* An old checkpoint is older than all that are kept.
LEMMA OldestIsOld ==
  ASSUME NEW n \in 1 .. MaxSteps
  PROVE  /\ Oldest(n) \in Int /\ Oldest(n) % SaveEvery = 0
         /\ Oldest(n) < n - SaveLast /\ n - SaveLast - 1 < Oldest(n) + SaveEvery
         /\ Oldest(n) >= 0 => Oldest(n) \in 0 .. MaxSteps
<1> DEFINE before == n - SaveLast - 1
<1>1. before \in Int /\ before < MaxSteps /\ n - SaveLast = before + 1
  BY TrainingRunAssumption
<1>2. Oldest(n) = before - (before % SaveEvery)
  BY DEF Oldest
<1> HIDE DEF before
<1>3. /\ before - (before % SaveEvery) \in Int /\ (before - (before % SaveEvery)) % SaveEvery = 0
      /\ before - SaveEvery < before - (before % SaveEvery) /\ before - (before % SaveEvery) <= before
  BY <1>1, OldMultiple
<1> QED
  BY <1>1, <1>2, <1>3, TrainingRunAssumption DEF before

-----------------------------------------------------------------------------
(* Each part of the invariant is preserved: the types.                      *)

\* The steps from outside keep the trainer typed.
LEMMA WorkerKeepsRun ==
  ASSUME TypeOK, FromOutside \/ UNCHANGED vars
  PROVE  run' \in Run
<1>1. run \in Run
  BY TypeParts
<1>2. CASE UserStep \/ StartWorker \/ RequestStop \/ SettleRun \/ LaunchFails \/ WatchFails
           \/ ReportProgress \/ StrayWrites
  BY <1>1, <1>2 DEF UserStep, PauseTask, ResumeTask, CancelTask, RetryTask, Control, StartWorker,
     RequestStop, SettleRun, LaunchFails, WatchFails, ReportProgress, StrayWrites
<1>3. CASE LaunchTrainer
  <2>1. ResumeFrom \in { "none", "own", "user" }
    BY DEF ResumeFrom
  <2> QED
    BY <1>3, <2>1, NoRunIsTyped DEF LaunchTrainer
<1>4. CASE Crash
  BY <1>1, <1>4, NoRunIsTyped DEF Crash
<1>5. CASE KillTrainer \/ TrainerFails
  <2>1. << >> \in JobLists
    BY DEF JobLists
  <2>2. Killed \in Run
    BY <1>1, <2>1, RunSaves DEF Killed
  <2> QED
    BY <1>1, <1>5, <2>2 DEF KillTrainer, TrainerFails
<1>6. CASE UNCHANGED vars
  BY <1>1, <1>6 DEF vars
<1> QED
  BY <1>2, <1>3, <1>4, <1>5, <1>6 DEF FromOutside, WorkerStep

\* So do the trainer's own.
LEMMA TrainerKeepsRun ==
  ASSUME TypeOK, Jobs, Position, TrainerStep \/ PauseFails
  PROVE  run' \in Run
<1>1. run \in Run
  BY TypeParts
<1>a. 0 \in 0 .. MaxSteps /\ << >> \in JobLists
  BY TrainingRunAssumption DEF JobLists
<1>b. << Save(ResumeDir) >> \in JobLists /\ << Save(LastModel) >> \in JobLists
  BY <1>a, JobsAreTyped
<1>2. CASE LoadState
  <2> DEFINE place == IF args.tracking THEN "first_log" ELSE "epoch"
             rest  == IF args.skip THEN Loaded.current_step % Batches ELSE 0
             first == Loaded.current_step \div Batches
  <2>1. place \in { "first_log", "epoch" } /\ rest \in Nat /\ first \in Nat
    BY LoadedFields, StepInEpoch
  <2>2. \/ run' = [ run EXCEPT !.pc = "dead" ]
        \/ run' = [ run EXCEPT !.pc = place, !.trained = Loaded.trained, !.epoch = first,
                               !.initial_step = rest, !.global_step = rest ]
    BY <1>2 DEF LoadState
  <2> HIDE DEF place, rest, first
  <2>3. CASE run' = [ run EXCEPT !.pc = "dead" ]
    BY <1>1, <2>3, RunMoves
  <2>4. CASE run' = [ run EXCEPT !.pc = place, !.trained = Loaded.trained, !.epoch = first,
                                 !.initial_step = rest, !.global_step = rest ]
    BY <1>1, <2>1, <2>4, LoadedFields, RunLoads
  <2> QED
    BY <2>2, <2>3, <2>4
<1>3. CASE FirstLog \/ LogStep \/ LogEpoch
  <2>1. ASSUME NEW next \in Run, ObserveLog(next) PROVE run' \in Run
    BY <1>1, <1>b, <2>1, RunMoves, RunSaves DEF ObserveLog
  <2>2. [ run EXCEPT !.pc = "epoch" ] \in Run /\ StepDone \in Run
        /\ [ run EXCEPT !.pc = "epoch", !.epoch = @ + 1 ] \in Run
    BY <1>1, RunMoves DEF StepDone
  <2>3. CASE FirstLog
    BY <2>1, <2>2, <2>3 DEF FirstLog
  <2>4. CASE LogStep
    BY <2>1, <2>2, <2>4 DEF LogStep
  <2>5. CASE LogEpoch
    BY <2>1, <2>2, <2>5 DEF LogEpoch
  <2> QED
    BY <1>3, <2>3, <2>4, <2>5
<1>4. CASE Paused \/ PauseFails
  BY <1>1, <1>4, <1>a, RunMoves, RunSaves DEF Paused, PauseFails
<1>5. CASE BeginEpoch
  <2> DEFINE b == IF run.initial_step > 0 THEN run.initial_step - 1 ELSE 0
             i == IF run.initial_step > 0 THEN 1 ELSE 0
  <2>1. b \in Nat /\ i \in Nat
    BY RunFields
  <2>2. \/ run' = [ run EXCEPT !.pc = "finish", !.todo = << Save(LastModel) >> ]
        \/ run' = [ run EXCEPT !.pc = "batch", !.batch = b, !.initial_step = i ]
    BY <1>5 DEF BeginEpoch
  <2> HIDE DEF b, i
  <2>3. [ run EXCEPT !.pc = "batch", !.batch = b, !.initial_step = i ] \in Run
    BY <1>1, <2>1, RunSkips
  <2>4. [ run EXCEPT !.pc = "finish", !.todo = << Save(LastModel) >> ] \in Run
    BY <1>1, <1>b, RunSaves
  <2> QED
    BY <2>2, <2>3, <2>4
<1>6. CASE DiscardBatch
  <2>1. run.batch + 1 \in Nat /\ run.initial_step - 1 \in Nat /\ run.global_step \in Nat
    BY <1>6, RunFields DEF DiscardBatch
  <2>2. run' = [ run EXCEPT !.batch = run.batch + 1, !.initial_step = run.initial_step - 1,
                            !.current_step = run.global_step ]
    BY <1>6 DEF DiscardBatch
  <2> QED
    BY <1>1, <2>1, <2>2, RunSkips
<1>7. CASE TrainBatch
  <2> DEFINE step == run.global_step + 1
             list == IF step % SaveEvery = 0 THEN Rotation(step) ELSE << >>
  <2>1. run.batch + 1 \in Nat /\ step \in Nat /\ run.global_step \in Nat /\ run.trained + 1 \in Nat
    BY RunFields
  <2>2. list \in JobLists
    <3>1. step \in 1 .. MaxSteps /\ step \in 0 .. MaxSteps
      <4>1. run.global_step < MaxSteps /\ MaxSteps \in Nat
        BY <1>7, TrainingRunAssumption DEF TrainBatch, Go, Position
      <4> QED
        BY <2>1, <4>1
    <3>2. Rotation(step) = IF Oldest(step) >= 0 THEN << Save(Step(step)), Remove(Step(Oldest(step))) >>
                           ELSE << Save(Step(step)) >>
      BY RotationJobs DEF Oldest
    <3> HIDE DEF step
    <3>3. Rotation(step) \in JobLists
      BY <3>1, <3>2, OldestIsOld, JobsAreTyped
    <3> QED
      BY <1>a, <3>3
  <2>3. run' = [ run EXCEPT !.pc = "log", !.batch = run.batch + 1, !.current_step = run.global_step,
                            !.global_step = step, !.trained = run.trained + 1, !.todo = list ]
    BY <1>7 DEF TrainBatch
  <2> HIDE DEF step, list
  <2> QED
    BY <1>1, <2>1, <2>2, <2>3, RunTrains
<1>8. CASE EndEpoch \/ FinishTraining \/ FindNoData
  BY <1>1, <1>8, RunMoves DEF EndEpoch, FinishTraining, FindNoData
<1>9. CASE BeginSave \/ EndSave \/ RemoveFile
  <2>1. run.todo # << >>
    BY <1>9 DEF BeginSave, EndSave, RemoveFile
  <2>2. Tail(run.todo) \in JobLists
    BY <2>1, RunFields, HeadTailProperties DEF JobLists
  <2> DEFINE s == IF Job.file.kind = "step" THEN run.saved \cup { Job.file.no } ELSE run.saved
  <2>3. Job.op = "save" => s \in SUBSET (1 .. MaxSteps)
    BY <2>1, JobCases, FilesDiffer, RunFields
  <2>4. EndSave => Job.op = "save"
    BY DEF EndSave
  <2>5. \/ run' = [ run EXCEPT !.open = TRUE ]
        \/ EndSave /\ run' = [ run EXCEPT !.open = FALSE, !.todo = Tail(run.todo), !.saved = s ]
        \/ run' = [ run EXCEPT !.todo = Tail(run.todo) ]
    BY <1>9 DEF BeginSave, EndSave, RemoveFile
  <2> HIDE DEF s
  <2>6. [ run EXCEPT !.open = TRUE ] \in Run /\ [ run EXCEPT !.todo = Tail(run.todo) ] \in Run
    BY <1>1, <2>2, RunFields, RunWrites
  <2>7. EndSave => [ run EXCEPT !.open = FALSE, !.todo = Tail(run.todo), !.saved = s ] \in Run
    BY <1>1, <2>2, <2>3, <2>4, RunWrites
  <2> QED
    BY <2>5, <2>6, <2>7
<1> QED
  BY <1>2, <1>3, <1>4, <1>5, <1>6, <1>7, <1>8, <1>9 DEF TrainerStep

\* The other variables keep their types.
LEMMA OthersTyped ==
  ASSUME TypeOK, Jobs, Position, [Next]_vars
  PROVE  Typed'
<1>a. Typed
  BY TypeParts
<1> USE <1>a, TrainingRunAssumption DEF Typed
<1>1. CASE UserStep
  BY <1>1 DEF UserStep, PauseTask, ResumeTask, CancelTask, RetryTask, Control, PauseTarget, CancelTarget,
     Pausable, Resumable, Cancellable, Statuses
<1>2. CASE WorkerStep
  <2>1. CASE StartWorker \/ LaunchTrainer \/ KillTrainer
    BY <2>1 DEF StartWorker, LaunchTrainer, KillTrainer, taskVars, Statuses
  <2>2. CASE RequestStop
    BY <2>2 DEF RequestStop, taskVars
  <2>3. CASE SettleRun
    BY <2>3 DEF SettleRun, Statuses, AckTarget, StopRequested
  <2> QED
    BY <1>2, <2>1, <2>2, <2>3 DEF WorkerStep
<1>3. CASE LaunchFails \/ WatchFails \/ ReportProgress \/ TrainerFails \/ StrayWrites \/ Crash
  <2>0. AfterFailure \in Statuses
    BY DEF AfterFailure, Statuses, AckTarget, StopRequested
  <2>1. CASE LaunchFails \/ WatchFails
    BY <2>0, <2>1 DEF LaunchFails, WatchFails, NoControl, Fault
  <2>2. CASE ReportProgress \/ TrainerFails
    BY <2>2 DEF ReportProgress, TrainerFails, Fault, taskVars, Statuses
  <2>3. CASE Crash
    BY <2>3 DEF Crash, Fault, Statuses, RecoveredStatus
  <2>4. CASE StrayWrites
    <3>1. [ NoFile EXCEPT !.there = TRUE ] \in Content
      BY DEF NoFile, Content
    <3>2. disk' \in [ Files -> Content ]
      BY <2>4, <3>1 DEF StrayWrites
    <3> QED
      BY <2>4, <3>2 DEF StrayWrites, Fault, taskVars
  <2> QED
    BY <1>3, <2>1, <2>2, <2>3, <2>4
<1>4. CASE FirstLog \/ LogStep \/ LogEpoch \/ Paused \/ PauseFails
  <2>1. CASE FirstLog
    BY <2>1 DEF FirstLog, ObserveLog, taskVars
  <2>2. CASE LogStep
    BY <2>2 DEF LogStep, ObserveLog, taskVars
  <2>3. CASE LogEpoch
    BY <2>3 DEF LogEpoch, ObserveLog, taskVars
  <2>4. CASE Paused
    <3>1. run.trained \in Nat
      BY RunFields
    <3> QED
      BY <2>4, <3>1 DEF Paused, taskVars
  <2>5. CASE PauseFails
    BY <2>5 DEF PauseFails, Fault, taskVars
  <2> QED
    BY <1>4, <2>1, <2>2, <2>3, <2>4, <2>5
<1>5. CASE LoadState \/ FindNoData \/ BeginEpoch \/ DiscardBatch \/ TrainBatch \/ EndEpoch
           \/ FinishTraining
  BY <1>5 DEF LoadState, FindNoData, BeginEpoch, DiscardBatch, TrainBatch, EndEpoch, FinishTraining,
     taskVars
<1>6. CASE Writes
  <2>1. run.todo # << >>
    BY <1>6 DEF Writes, BeginSave, EndSave, RemoveFile
  <2>2. Job.file \in Files
    BY <2>1, JobIsFile
  <2>3. run.trained \in Nat /\ run.current_step \in Nat
    BY RunFields
  <2>4. disk' \in [ Files -> Content ]
    <3>1. NoFile \in Content /\ [ NoFile EXCEPT !.there = TRUE ] \in Content
      BY DEF NoFile, Content
    <3>2. [ there |-> TRUE, whole |-> TRUE, trained |-> run.trained,
            current_step |-> IF args.kind = "network" THEN run.current_step + 1 ELSE 0 ] \in Content
      BY <2>3 DEF Content
    <3>3. PICK c \in Content : disk' = [ disk EXCEPT ![Job.file] = c ]
      BY <1>6, <3>1, <3>2 DEF Writes, BeginSave, EndSave, RemoveFile
    <3> QED
      BY <2>2, <3>3
  <2> QED
    BY <1>6, <2>4 DEF Writes, BeginSave, EndSave, RemoveFile, taskVars
<1>7. CASE UNCHANGED vars
  BY <1>7 DEF vars, taskVars
<1> QED
  BY <1>1, <1>2, <1>3, <1>4, <1>5, <1>6, <1>7 DEF Next, TrainerStep, Writes

\* So every step keeps the types.
LEMMA TypesStay ==
  ASSUME TypeOK, Jobs, Position, [Next]_vars
  PROVE  TypeOK'
  BY WorkerKeepsRun, TrainerKeepsRun, OthersTyped, TypePartsNext DEF Next, FromOutside

-----------------------------------------------------------------------------
(* Each part of the invariant is preserved: where the trainer stands.       *)

\* No step leaves a job where the trainer does not stand.
LEMMA JobsStay ==
  ASSUME TypeOK, Jobs, Position, [Next]_vars
  PROVE  Jobs'
<1>1. CASE Still \/ Strays
  BY <1>1 DEF Still, Strays, Jobs, SavesStep, RemovesOld, Rotation
<1>2. CASE Renewed \/ Dies \/ Pauses \/ Loads \/ GoesOn \/ Turns
  BY <1>2 DEF Renewed, Dies, Pauses, Loads, GoesOn, Turns, Becomes, Jobs
<1>3. CASE Passes
  <2>1. CASE run'.todo = << >>
    BY <2>1 DEF Jobs
  <2>2. CASE run'.todo # << >>
    <3>1. run'.pc = "log" /\ run'.global_step % SaveEvery = 0 /\ run'.todo = Rotation(run'.global_step)
      BY <1>3, <2>2 DEF Passes
    <3>2. SavesStep'
      BY <3>1 DEF SavesStep, Rotation
    <3> QED
      BY <3>1, <3>2 DEF Jobs
  <2> QED
    BY <2>1, <2>2
<1>4. CASE Writes
  <2>1. run.todo # << >> /\ Job.file \in Files
    BY <1>4, JobIsFile DEF Writes, BeginSave, EndSave, RemoveFile
  <2>2. CASE Opens(Job.file)
    BY <2>2 DEF Opens, Becomes, Jobs, SavesStep, RemovesOld, Rotation
  <2>3. CASE Job.op = "save" /\ Completes(Job.file)
    <3>1. CASE Tail(run.todo) = << >>
      BY <2>3, <3>1 DEF Completes, Jobs
    <3>2. CASE Tail(run.todo) # << >>
      <4> DEFINE n == run.global_step
      <4>1. /\ SavesStep /\ Job = Save(Step(n)) /\ n \in 1 .. MaxSteps
            /\ Oldest(n) >= 0 /\ Tail(run.todo) = << Remove(Step(Oldest(n))) >>
        BY <2>1, <3>2, JobCases
      <4>2. run'.pc = "log" /\ run'.global_step = n /\ n \in run'.saved
            /\ run'.todo = << Remove(Step(Oldest(n))) >>
        BY <2>3, <4>1, FilesDiffer DEF Completes, SavesStep
      <4>3. Oldest(n) \in 0 .. MaxSteps /\ Oldest(n) < n - SaveLast
        BY <4>1, OldestIsOld
      <4> HIDE DEF n
      <4> QED
        BY <4>2, <4>3 DEF Jobs, RemovesOld
    <3> QED
      BY <3>1, <3>2
  <2>4. CASE Job.op = "remove" /\ Removes(Job.file)
    <3>1. Tail(run.todo) = << >>
      BY <2>1, <2>4, JobCases, FilesDiffer
    <3> QED
      BY <2>4, <3>1 DEF Removes, Becomes, Jobs
  <2> QED
    BY <1>4, <2>1, <2>2, <2>3, <2>4, WriteFields
<1> QED
  BY <1>1, <1>2, <1>3, <1>4, StepKinds

\* What a step that writes leaves of the trainer's counts.
LEMMA WritesCountNothing ==
  ASSUME TypeOK, Jobs, Position, Writes
  PROVE  /\ run'.pc = run.pc /\ run'.epoch = run.epoch /\ run'.batch = run.batch
         /\ run'.initial_step = run.initial_step /\ run'.current_step = run.current_step
         /\ run'.global_step = run.global_step /\ run'.trained = run.trained
         /\ run'.resume = run.resume
<1>1. run.todo # << >> /\ Job.file \in Files
  BY JobIsFile DEF Writes, BeginSave, EndSave, RemoveFile
<1> QED
  BY <1>1, WriteFields DEF Opens, Completes, Removes, Becomes

\* The batches before each place, in this state and the next.
LEMMA BeforeIs ==
  /\ run.pc \in { "first_log", "epoch" } => Before = run.epoch * Batches + run.initial_step
  /\ run.pc \in { "batch", "log" } => Before = run.epoch * Batches + run.batch + run.initial_step
  /\ run.pc = "epoch_end" => Before = (run.epoch + 1) * Batches
  /\ ~ Looping => Before = 0
  BY DEF Before, Looping

\* The same in the next state.
LEMMA BeforeIsNext ==
  /\ run'.pc \in { "first_log", "epoch" } => Before' = run'.epoch * Batches + run'.initial_step
  /\ run'.pc \in { "batch", "log" } => Before' = run'.epoch * Batches + run'.batch + run'.initial_step
  /\ run'.pc = "epoch_end" => Before' = (run'.epoch + 1) * Batches
  /\ ~ Looping' => Before' = 0
  BY DEF Before, Looping

\* They are a number.
LEMMA BeforeIsNat ==
  /\ TypeOK => Before \in Nat
  /\ TypeOK' => Before' \in Nat
<1>1. ASSUME NEW e \in Nat PROVE e * Batches \in Nat /\ (e + 1) * Batches \in Nat
  BY <1>1, BatchesOfEpoch
<1>2. ASSUME TypeOK PROVE Before \in Nat
  <2>1. run.epoch * Batches \in Nat /\ (run.epoch + 1) * Batches \in Nat
    BY <1>1, <1>2, RunFields
  <2> QED
    BY <1>2, <2>1, RunFields, BeforeIs DEF Looping
<1>3. TypeOK' => run'.epoch \in Nat /\ run'.batch \in Nat /\ run'.initial_step \in Nat
  BY TypePartsNext DEF Run, RunOf
<1>4. ASSUME TypeOK' PROVE Before' \in Nat
  <2>1. run'.epoch * Batches \in Nat /\ (run'.epoch + 1) * Batches \in Nat
    BY <1>1, <1>3, <1>4
  <2> QED
    BY <1>3, <1>4, <2>1, BeforeIsNext DEF Looping
<1> QED
  BY <1>2, <1>4

\* Where the trainer stands after loading, in terms of the state's step.
LEMMA LoadedBefore ==
  ASSUME TypeOK, Loads
  PROVE  /\ run'.epoch \in Nat /\ run'.initial_step \in 0 .. Batches - 1
         /\ run'.global_step = run'.initial_step /\ run'.initial_step <= Loaded.current_step
         /\ Before' <= Loaded.current_step /\ run'.global_step <= Before'
         /\ args.skip => Before' = Loaded.current_step
<1> DEFINE initial == Loaded.current_step
<1>1. initial \in Nat
  BY LoadedFields
<1>2. /\ initial \div Batches \in Nat /\ initial % Batches \in 0 .. Batches - 1
      /\ initial = (initial \div Batches) * Batches + (initial % Batches)
  BY <1>1, StepInEpoch
<1>3. (initial \div Batches) * Batches \in Nat
  BY <1>2, BatchesOfEpoch
<1>4. /\ run'.epoch = initial \div Batches
      /\ run'.initial_step = IF args.skip THEN initial % Batches ELSE 0
      /\ run'.global_step = run'.initial_step
      /\ Before' = run'.epoch * Batches + run'.initial_step
  BY BeforeIsNext DEF Loads
<1> HIDE DEF initial
<1>5. CASE args.skip
  BY <1>1, <1>2, <1>3, <1>4, <1>5 DEF initial
<1>6. CASE ~ args.skip
  <2> DEFINE e == (initial \div Batches) * Batches
  <2>1. run'.initial_step = 0 /\ Before' = e + 0 /\ 0 \in 0 .. Batches - 1
    BY <1>4, <1>6, TrainingRunAssumption
  <2>2. e \in Nat /\ e <= initial
    BY <1>1, <1>2, <1>3, TrainingRunAssumption
  <2> HIDE DEF e
  <2> QED
    BY <1>1, <1>2, <1>4, <1>6, <2>1, <2>2 DEF initial
<1> QED
  BY <1>5, <1>6

\* How the batches before a place change on the way to the next one.
LEMMA BeforeMoves ==
  ASSUME TypeOK, TypeOK', Position
  PROVE  /\ GoesOn /\ run.pc \in { "first_log", "log", "batch" } => Before' >= Before
         /\ GoesOn /\ run.pc \in { "first_log", "log" } /\ run'.pc # "epoch_end" => Before' = Before
         /\ GoesOn /\ run.pc = "batch" => Before' = Before
         /\ Turns => Before' = Before
         /\ Passes => Before' = Before + run'.global_step - run.global_step
<1> DEFINE e == run.epoch * Batches
<1>1. /\ run.epoch \in Nat /\ run.batch \in Nat /\ run.initial_step \in Nat /\ run.global_step \in Nat
      /\ run'.batch \in Nat /\ run'.initial_step \in Nat
      /\ e \in Nat /\ (run.epoch + 1) * Batches = e + Batches /\ Batches \in Nat
  BY RunFields, BatchesOfEpoch, TypePartsNext, TrainingRunAssumption DEF Run, RunOf
<1>2. /\ run.pc \in { "first_log", "epoch" } => Before = e + run.initial_step
      /\ run.pc \in { "batch", "log" } => Before = e + run.batch + run.initial_step
      /\ run.pc = "epoch_end" => Before = e + Batches
  BY <1>1, BeforeIs
<1>3. run'.epoch = run.epoch =>
      /\ run'.pc \in { "first_log", "epoch" } => Before' = e + run'.initial_step
      /\ run'.pc \in { "batch", "log" } => Before' = e + run'.batch + run'.initial_step
      /\ run'.pc = "epoch_end" => Before' = e + Batches
  BY <1>1, BeforeIsNext
<1>4. run'.epoch = run.epoch + 1 /\ run'.pc = "epoch" => Before' = e + Batches + run'.initial_step
  BY <1>1, BeforeIsNext
<1>5. /\ run.pc \in { "batch", "log" } => run.batch + run.initial_step <= Batches
      /\ run.pc \in { "log", "epoch_end" } => run.initial_step = 0
  BY DEF Position
<1> HIDE DEF e
<1>6. GoesOn /\ run.pc \in { "first_log", "log", "batch" } => Before' >= Before
  <2>1. CASE run.pc = "first_log"
    BY <1>1, <1>2, <1>3, <2>1 DEF GoesOn, Becomes
  <2>2. CASE run.pc = "log"
    BY <1>1, <1>2, <1>3, <1>5, <2>2 DEF GoesOn, Becomes
  <2>3. CASE run.pc = "batch"
    BY <1>1, <1>2, <1>3, <1>5, <2>3 DEF GoesOn, Becomes
  <2> QED
    BY <2>1, <2>2, <2>3
<1>7. GoesOn /\ run.pc \in { "first_log", "log" } /\ run'.pc # "epoch_end" => Before' = Before
  BY <1>1, <1>2, <1>3, <1>5 DEF GoesOn, Becomes
<1>8. GoesOn /\ run.pc = "batch" => Before' = Before
  BY <1>1, <1>2, <1>3, <1>5 DEF GoesOn, Becomes
<1>9. Turns => Before' = Before
  BY <1>1, <1>2, <1>3, <1>4, <1>5 DEF Turns
<1>10. ASSUME Passes PROVE Before' = Before + run'.global_step - run.global_step
  <2>1. Before = e + run.batch + run.initial_step
    BY <1>2, <1>10 DEF Passes
  <2>2. Before' = e + run'.batch + run'.initial_step
    BY <1>3, <1>10 DEF Passes
  <2>3. run'.batch = run.batch + 1
    BY <1>10 DEF Passes
  <2>4. \/ run'.initial_step = run.initial_step - 1 /\ run'.global_step = run.global_step
        \/ run.initial_step = 0 /\ run'.initial_step = 0 /\ run'.global_step = run.global_step + 1
    BY <1>10 DEF Passes
  <2> QED
    BY <1>1, <2>1, <2>2, <2>3, <2>4
<1> QED
  BY <1>6, <1>7, <1>8, <1>9, <1>10

\* No step takes the trainer's count out of the epochs or past max_train_steps.
LEMMA PositionStays ==
  ASSUME TypeOK, TypeOK', Jobs, Position, [Next]_vars
  PROVE  Position'
<1>1. CASE Still \/ Strays
  BY <1>1 DEF Still, Strays, Position, Before, Looping
<1>2. CASE Renewed \/ Dies \/ Pauses
  BY <1>2 DEF Renewed, Dies, Pauses, Becomes, Position, Looping
<1>3. CASE Loads
  <2>1. run'.initial_step > 0 => run'.global_step < MaxSteps
    BY <1>3, LoadedBefore, LoadedFields, TrainingRunAssumption DEF Loads
  <2> QED
    BY <1>3, <2>1, LoadedBefore, TrainingRunAssumption DEF Loads, Position
<1>a. /\ run.epoch \in Nat /\ run.batch \in Nat /\ run.initial_step \in Nat /\ run.global_step \in Nat
      /\ run'.batch \in Nat /\ run'.initial_step \in Nat /\ run'.global_step \in Nat
      /\ Batches \in Nat \ { 0 } /\ MaxSteps \in Nat \ { 0 }
  BY RunFields, TypePartsNext, TrainingRunAssumption DEF Run, RunOf
<1>4. CASE GoesOn
  <2>1. Before \in Nat /\ Before' \in Nat
    BY BeforeIsNat
  <2>2. run'.pc \in { "epoch", "epoch_end", "batch" } => run'.global_step <= Before'
    BY <1>4, <1>a, <2>1, BeforeMoves DEF GoesOn, Becomes, Position, Looping
  <2> QED
    BY <1>4, <1>a, <2>2 DEF GoesOn, Becomes, Position, Looping
<1>5. CASE Turns
  <2>1. run'.global_step <= Before'
    BY <1>5, BeforeMoves DEF Turns, Position, Looping
  <2>2. CASE run.pc = "epoch_end"
    BY <1>5, <1>a, <2>1, <2>2 DEF Turns, Position
  <2>3. CASE run.pc = "epoch"
    <3>1. run'.global_step < MaxSteps
      <4>1. CASE run.initial_step > 0
        BY <1>5, <2>3, <4>1 DEF Turns, Position
      <4>2. CASE run.initial_step = 0
        <5>1. run.epoch * Batches \in Nat /\ run.epoch * Batches < MaxSteps
          BY <1>5, <1>a, <2>3, EpochLeft, BatchesOfEpoch DEF Turns
        <5>2. Before = run.epoch * Batches
          BY <1>a, <2>3, <4>2, <5>1, BeforeIs
        <5> QED
          BY <1>5, <1>a, <2>3, <5>1, <5>2 DEF Turns, Position, Looping
      <4> QED
        BY <1>a, <4>1, <4>2
    <3>2. run'.batch + run'.initial_step <= Batches
      BY <1>5, <1>a, <2>3 DEF Turns, Position
    <3> QED
      BY <1>5, <1>a, <2>1, <2>3, <3>1, <3>2 DEF Turns, Position
  <2> QED
    BY <1>5, <2>2, <2>3 DEF Turns
<1>6. CASE Passes
  <2>1. Before \in Int /\ Before' = Before + run'.global_step - run.global_step
    BY <1>6, BeforeIsNat, BeforeMoves
  <2>2. run'.global_step <= Before'
    BY <1>6, <1>a, <2>1 DEF Passes, Position, Looping
  <2>3. run.global_step < MaxSteps /\ run.batch + run.initial_step <= Batches /\ run.batch < Batches
    BY <1>6 DEF Passes, Position
  <2>4. CASE run'.pc = "batch"
    BY <1>6, <1>a, <2>2, <2>3, <2>4 DEF Passes, Position
  <2>5. CASE run'.pc = "log"
    <3>1. run'.batch + run'.initial_step <= Batches /\ run'.global_step \in 1 .. MaxSteps
      BY <1>6, <1>a, <2>3, <2>5 DEF Passes
    <3> QED
      BY <1>6, <2>2, <2>5, <3>1 DEF Passes, Position
  <2> QED
    BY <1>6, <2>4, <2>5 DEF Passes
<1>7. CASE Writes
  <2>1. Before' = Before
    BY <1>7, WritesCountNothing DEF Before
  <2> QED
    BY <1>7, <2>1, WritesCountNothing DEF Position, Looping
<1> QED
  BY <1>1, <1>2, <1>3, <1>4, <1>5, <1>6, <1>7, StepKinds

-----------------------------------------------------------------------------
(* Each part of the invariant is preserved: what the trainer has trained.   *)

\* The trainer that broke off the last epoch leaves none.
LEMMA BrokenOffIsLast ==
  ASSUME TypeOK, Position, run.pc = "log", run.global_step >= MaxSteps
  PROVE  run.epoch + 1 >= NumEpochs
<1> DEFINE e == run.epoch * Batches
<1>a. /\ run.epoch \in Nat /\ run.batch \in Nat /\ run.global_step \in Nat
      /\ Batches \in Nat /\ MaxSteps \in Nat /\ NumEpochs \in Int
  BY RunFields, NumEpochsRoundUp, TrainingRunAssumption
<1>b. e \in Nat /\ (run.epoch + 1) * Batches = e + Batches
  BY <1>a, BatchesOfEpoch
<1>1. /\ run.epoch \in Nat /\ run.batch \in Nat /\ e \in Nat /\ run.global_step \in Nat
      /\ (run.epoch + 1) * Batches = e + Batches /\ Batches \in Nat /\ MaxSteps \in Nat
      /\ NumEpochs \in Int
  BY <1>a, <1>b
<1>2. run.global_step <= e + run.batch + 0 /\ run.batch + 0 <= Batches
  BY BeforeIs DEF Position, Looping
<1> HIDE DEF e
<1>3. (run.epoch + 1) * Batches >= MaxSteps
  BY <1>1, <1>2
<1>4. ASSUME run.epoch + 1 < NumEpochs PROVE FALSE
  <2>1. run.epoch + 1 \in Nat
    BY <1>1
  <2>2. (run.epoch + 1) * Batches < MaxSteps
    BY <1>4, <2>1, EpochLeft
  <2> QED
    BY <1>1, <1>3, <2>2
<1> QED
  BY <1>1, <1>4

\* No step leaves a gap in the data, or one twice.
LEMMA OrderedStays ==
  ASSUME TypeOK, TypeOK', Jobs, Position, Ordered, [Next]_vars
  PROVE  Ordered'
<1> SUFFICES ASSUME Looping', InOrder' PROVE run'.trained = Before' \/ EpochsOver'
  BY DEF Ordered
<1>1. args' = args
  BY StepKinds
<1>2. run'.resume = run.resume => InOrder
  BY <1>1 DEF InOrder
<1>a. /\ run.global_step \in Nat /\ run.trained \in Nat /\ run.epoch \in Nat /\ run.batch \in Nat
      /\ run'.global_step \in Nat /\ run'.trained \in Nat /\ Before \in Nat /\ Before' \in Nat
  BY RunFields, TypePartsNext, BeforeIsNat DEF Run, RunOf
<1>3. CASE Still \/ Strays
  BY <1>2, <1>3 DEF Still, Strays, Ordered, Looping, Before, EpochsOver
<1>4. CASE Renewed \/ Dies \/ Pauses
  BY <1>4 DEF Renewed, Dies, Pauses, Becomes, Looping
<1>5. CASE Loads
  <2>1. InOrder /\ Loaded.current_step \in Nat /\ run'.trained = Loaded.trained
    BY <1>2, <1>5, LoadedFields DEF Loads
  <2>2. CASE run.resume = "none"
    <3>1. Loaded.current_step = 0 /\ Loaded.trained = 0
      BY <2>2 DEF Loaded, NoFile
    <3> QED
      BY <1>5, <1>a, <2>1, <3>1, LoadedBefore
  <2>3. CASE run.resume = "user" /\ args.kind = "network" /\ args.skip
    <3>1. Loaded.current_step = args.resume /\ Loaded.trained = args.resume
      BY <2>3 DEF Loaded
    <3> QED
      BY <1>5, <2>1, <2>3, <3>1, LoadedBefore
  <2> QED
    BY <2>1, <2>2, <2>3 DEF InOrder
<1>6. CASE GoesOn
  <2>1. InOrder /\ run'.trained = run.trained /\ run'.epoch = run.epoch /\ (Looping' => Looping)
    BY <1>2, <1>6 DEF GoesOn, Becomes, Looping
  <2>2. CASE run.pc = "log" /\ run'.pc = "epoch_end"
    BY <1>6, <2>1, <2>2, BrokenOffIsLast DEF GoesOn, Becomes, EpochsOver
  <2>3. CASE ~ (run.pc = "log" /\ run'.pc = "epoch_end")
    <3>1. Before' = Before
      BY <1>6, <2>3, BeforeMoves DEF GoesOn, Becomes, Looping
    <3>2. EpochsOver => EpochsOver'
      BY <1>6, <2>1 DEF GoesOn, Becomes, Looping, EpochsOver
    <3> QED
      BY <2>1, <3>1, <3>2 DEF Ordered
  <2> QED
    BY <2>2, <2>3
<1>7. CASE Turns
  <2>1. InOrder /\ run'.trained = run.trained /\ Before' = Before /\ Looping
    BY <1>2, <1>7, BeforeMoves DEF Turns, Looping
  <2>2. CASE run.pc = "epoch_end"
    BY <1>7, <2>1, <2>2 DEF Turns, Ordered, EpochsOver
  <2>3. CASE run.pc = "epoch"
    <3>1. ~ EpochsOver
      <4>1. NumEpochs \in Int
        BY NumEpochsRoundUp, TrainingRunAssumption
      <4> QED
        BY <1>7, <1>a, <2>3, <4>1 DEF Turns, EpochsOver
    <3> QED
      BY <2>1, <3>1 DEF Ordered
  <2> QED
    BY <1>7, <2>2, <2>3 DEF Turns
<1>8. CASE Passes
  <2>1. InOrder /\ Looping /\ ~ EpochsOver
    BY <1>2, <1>8 DEF Passes, Looping, EpochsOver
  <2>2. run.trained = Before /\ Before' = Before + run'.global_step - run.global_step
    BY <1>8, <2>1, BeforeMoves DEF Ordered
  <2>3. \/ run'.global_step = run.global_step /\ run'.trained = run.trained
        \/ run'.global_step = run.global_step + 1 /\ run'.trained = run.trained + 1
    BY <1>8 DEF Passes
  <2> QED
    BY <1>a, <2>2, <2>3
<1>9. CASE Writes
  <2>1. /\ run'.pc = run.pc /\ run'.epoch = run.epoch /\ run'.trained = run.trained
        /\ run'.resume = run.resume /\ Before' = Before
    BY <1>9, WritesCountNothing DEF Before
  <2> QED
    BY <1>2, <2>1 DEF Ordered, Looping, EpochsOver
<1> QED
  BY <1>3, <1>4, <1>5, <1>6, <1>7, <1>8, <1>9, StepKinds

\* A step that writes concerns one file, for which the trainer stands still.
LEMMA WritesOneFile ==
  ASSUME TypeOK, Jobs, Position, Writes
  PROVE  \/ run.pc = "log" /\ disk'[ResumeDir] = disk[ResumeDir] /\ disk'[LastModel] = disk[LastModel]
         \/ /\ run.pc = "finish" /\ run.todo # << >>
            /\ Opens(LastModel) \/ (Completes(LastModel) /\ run'.todo = << >>)
            /\ OthersStay(LastModel)
         \/ /\ run.pc = "paused" /\ run.todo # << >>
            /\ Opens(ResumeDir) \/ (Completes(ResumeDir) /\ run'.todo = << >>)
            /\ OthersStay(ResumeDir)
<1>1. run.todo # << >> /\ Job.file \in Files
  BY JobIsFile DEF Writes, BeginSave, EndSave, RemoveFile
<1>2. /\ OthersStay(Job.file)
      /\ \/ Job.op = "save" /\ Opens(Job.file)
         \/ Job.op = "save" /\ Completes(Job.file)
         \/ Job.op = "remove" /\ Removes(Job.file)
  BY <1>1, WriteFields
<1>3. CASE run.pc = "log" /\ \E n : Job.file = Step(n)
  BY <1>2, <1>3, FilesDiffer DEF OthersStay
<1>4. CASE run.pc = "finish" /\ Job = Save(LastModel) /\ Tail(run.todo) = << >>
  <2>1. Job.file = LastModel /\ Job.op = "save"
    BY <1>4, FilesDiffer
  <2>2. OthersStay(LastModel) /\ (Opens(LastModel) \/ Completes(LastModel))
    BY <1>2, <2>1
  <2> QED
    BY <1>1, <1>4, <2>2 DEF Completes
<1>5. CASE run.pc = "paused" /\ Job = Save(ResumeDir) /\ Tail(run.todo) = << >>
  <2>1. Job.file = ResumeDir /\ Job.op = "save"
    BY <1>5, FilesDiffer
  <2>2. OthersStay(ResumeDir) /\ (Opens(ResumeDir) \/ Completes(ResumeDir))
    BY <1>2, <2>1
  <2> QED
    BY <1>1, <1>5, <2>2 DEF Completes
<1>6. \/ run.pc = "log" /\ \E n : Job.file = Step(n)
      \/ run.pc = "finish" /\ Job = Save(LastModel) /\ Tail(run.todo) = << >>
      \/ run.pc = "paused" /\ Job = Save(ResumeDir) /\ Tail(run.todo) = << >>
  BY <1>1, JobCases, FilesDiffer DEF SavesStep
<1> QED
  BY <1>3, <1>4, <1>5, <1>6

\* A resume state, once there, is there for good, and what it may have counted
\* too many stays counted.
LEMMA MiscountedGrows ==
  ASSUME TypeOK, Jobs, Position, [Next]_vars
  PROVE  /\ Miscounted \in { 0, 1 } /\ Miscounted' \in { 0, 1 } /\ Miscounted' >= Miscounted
         /\ disk' = disk => Miscounted' = Miscounted
<1>1. args' = args
  BY StepKinds
<1>2. disk[ResumeDir].there => disk'[ResumeDir].there
  <2>1. CASE Writes
    <3>1. NoFile.there = FALSE /\ [ NoFile EXCEPT !.there = TRUE ].there = TRUE
      BY DEF NoFile
    <3>2. Opens(ResumeDir) => disk'[ResumeDir].there
      BY <3>1 DEF Opens
    <3>3. Completes(ResumeDir) => disk'[ResumeDir].there
      BY DEF Completes
    <3>4. OthersStay(LastModel) => disk'[ResumeDir] = disk[ResumeDir]
      BY FilesDiffer DEF OthersStay
    <3> QED
      BY <2>1, <3>2, <3>3, <3>4, WritesOneFile
  <2>2. CASE Strays
    BY <2>2, StrayFields, FilesDiffer
  <2>3. CASE ~ Writes /\ ~ Strays
    BY <2>3, StepKinds DEF Still, Renewed, Dies, Pauses, Loads, GoesOn, Turns, Passes
  <2> QED
    BY <2>1, <2>2, <2>3
<1> QED
  BY <1>1, <1>2 DEF Miscounted

\* No step makes a state that counts more than one step too many.
LEMMA StateStillCounts ==
  ASSUME TypeOK, Jobs, Position, StateCounts, [Next]_vars
  PROVE  StateCounts'
<1>1. args' = args /\ Miscounted \in { 0, 1 } /\ Miscounted' \in { 0, 1 } /\ Miscounted' >= Miscounted
  BY StepKinds, MiscountedGrows
<1>2. disk[ResumeDir].current_step \in Nat
  BY FileFields, FilesDiffer
<1>3. CASE Still
  BY <1>1, <1>2, <1>3 DEF Still, StateCounts
<1>4. CASE Renewed \/ Dies \/ Loads \/ GoesOn \/ Turns \/ Passes
  BY <1>1, <1>2, <1>4 DEF Renewed, Dies, Loads, GoesOn, Turns, Passes, Becomes, StateCounts
<1>5. CASE Pauses
  BY <1>1, <1>2, <1>5 DEF Pauses, Becomes, StateCounts
<1>6. CASE Writes
  <2>1. run'.pc = run.pc /\ run'.current_step = run.current_step
    BY <1>6, WritesCountNothing
  <2>2. disk'[ResumeDir].current_step <= Miscounted'
    <3>1. CASE disk'[ResumeDir] = disk[ResumeDir]
      BY <1>1, <1>2, <3>1 DEF StateCounts
    <3>2. CASE Opens(ResumeDir)
      BY <1>1, <3>2 DEF Opens, NoFile
    <3>3. CASE Completes(ResumeDir) /\ run.pc = "paused"
      <4>1. CASE args.kind = "network"
        BY <1>1, <3>3, <4>1 DEF Completes, StateCounts, Miscounted
      <4>2. CASE args.kind # "network"
        BY <1>1, <3>3, <4>2 DEF Completes
      <4> QED
        BY <4>1, <4>2
    <3>4. OthersStay(LastModel) => disk'[ResumeDir] = disk[ResumeDir]
      BY FilesDiffer DEF OthersStay
    <3> QED
      BY <1>6, <3>1, <3>2, <3>3, <3>4, WritesOneFile
  <2> QED
    BY <1>1, <2>1, <2>2 DEF StateCounts
<1>7. CASE Strays
  <2>1. disk'[ResumeDir] = disk[ResumeDir] \/ disk'[ResumeDir].current_step = 0
    BY <1>7, StrayFields, FilesDiffer
  <2>2. disk'[ResumeDir].current_step <= Miscounted'
    BY <1>1, <1>2, <2>1 DEF StateCounts
  <2> QED
    BY <1>1, <1>7, <2>2 DEF Strays, StateCounts
<1> QED
  BY <1>3, <1>4, <1>5, <1>6, <1>7, StepKinds

\* What is loaded has trained the step it says, but one.
LEMMA LoadedIsTrained ==
  ASSUME TypeOK, StateCounts
  PROVE  Loaded.current_step <= Loaded.trained + Miscounted
<1>1. Miscounted \in { 0, 1 }
  BY DEF Miscounted
<1>2. CASE run.resume = "own"
  <2>1. Loaded = disk[ResumeDir]
    BY <1>2 DEF Loaded
  <2> QED
    BY <1>1, <2>1, LoadedFields DEF StateCounts
<1>3. CASE run.resume = "user"
  BY <1>1, <1>3, ArgumentFields, TrainingRunAssumption DEF Loaded
<1>4. CASE run.resume = "none"
  BY <1>1, <1>4 DEF Loaded, NoFile
<1> QED
  BY <1>2, <1>3, <1>4, RunFields

\* No step loses what was trained.
LEMMA TrainedStays ==
  ASSUME TypeOK, TypeOK', Jobs, Position, StateCounts, Trained, [Next]_vars
  PROVE  Trained'
<1> DEFINE m == Miscounted
<1>a. /\ run.global_step \in Nat /\ run.trained \in Nat /\ run.epoch \in Nat
      /\ run'.global_step \in Nat /\ run'.trained \in Nat /\ Before \in Nat /\ Before' \in Nat
      /\ MaxSteps \in Nat
  BY RunFields, TypePartsNext, BeforeIsNat, TrainingRunAssumption DEF Run, RunOf
<1>b. /\ m \in { 0, 1 } /\ Miscounted' \in { 0, 1 } /\ Miscounted' >= m /\ (disk' = disk => Miscounted' = m)
      /\ ~ beside' => ~ beside /\ ~ Strays
  BY MiscountedGrows, BesideStays
<1>c. /\ Counted = run.trained + m
      /\ Counted' = run'.trained + Miscounted'
  BY DEF Counted
<1> HIDE DEF m
<1>1. CASE Still
  BY <1>1, <1>b, <1>c DEF Still, Trained, Looping, Before, m
<1>2. CASE Renewed \/ Dies \/ Pauses
  BY <1>2 DEF Renewed, Dies, Pauses, Becomes, Trained, Looping
<1>3. CASE Loads
  <2>1. /\ Loaded.current_step <= Loaded.trained + m /\ run'.trained = Loaded.trained
        /\ Loaded.current_step \in Nat /\ disk' = disk
    BY <1>3, LoadedIsTrained, LoadedFields DEF Loads, m
  <2>2. run'.global_step <= Loaded.current_step /\ Before' <= Loaded.current_step
    BY <1>3, LoadedBefore
  <2> QED
    <3>1. Counted' >= run'.global_step /\ Counted' >= Before'
      BY <1>a, <1>b, <1>c, <2>1, <2>2
    <3>2. run'.pc \in { "first_log", "epoch" }
      BY <1>3 DEF Loads
    <3> QED
      BY <3>1, <3>2 DEF Trained
<1>4. CASE GoesOn
  <2>1. run'.trained = run.trained /\ run'.global_step = run.global_step /\ disk' = disk
        /\ Counted' = Counted
    BY <1>4, <1>b, <1>c DEF GoesOn, Becomes
  <2>2. CASE run.pc = "log" /\ run'.pc = "epoch_end"
    BY <1>4, <1>a, <1>b, <1>c, <2>1, <2>2 DEF GoesOn, Becomes, Trained, Looping
  <2>3. CASE run.pc = "epoch"
    <3>1. Before = run.epoch * Batches + run.initial_step /\ run.initial_step \in Nat
          /\ run.epoch * Batches \in Nat /\ run.epoch * Batches >= MaxSteps
      BY <1>4, <1>a, <2>3, BeforeIs, RunFields, BatchesOfEpoch, EnoughEpochs DEF GoesOn
    <3>2. Counted >= MaxSteps
      BY <1>a, <1>b, <1>c, <2>3, <3>1 DEF Trained, Looping
    <3> QED
      BY <1>4, <2>1, <2>3, <3>2, OneJob DEF GoesOn, Becomes, Trained, Looping
  <2>4. CASE run.pc = "finish"
    BY <1>4, <1>b, <2>1, <2>4 DEF GoesOn, Becomes, Trained, Looping, m
  <2>5. CASE run.pc \in { "first_log", "log", "batch" } /\ ~ (run.pc = "log" /\ run'.pc = "epoch_end")
    <3>1. Before' = Before
      BY <1>4, <2>5, BeforeMoves DEF GoesOn, Becomes
    <3> QED
      BY <1>4, <2>1, <2>5, <3>1 DEF GoesOn, Becomes, Trained, Looping
  <2> QED
    BY <1>4, <2>2, <2>3, <2>4, <2>5 DEF GoesOn
<1>5. CASE Turns
  <2>1. Before' = Before /\ Counted' = Counted
    BY <1>5, <1>b, <1>c, BeforeMoves DEF Turns
  <2> QED
    BY <1>5, <2>1 DEF Turns, Trained, Looping
<1>6. CASE Passes
  <2>0. Before' = Before + run'.global_step - run.global_step
    BY <1>6, BeforeMoves
  <2>1. Before' = Before + run'.global_step - run.global_step
        /\ Counted' = Counted + run'.global_step - run.global_step
    BY <1>6, <1>a, <1>b, <1>c, <2>0 DEF Passes
  <2>2. Counted >= run.global_step /\ (Counted >= Before \/ Counted >= MaxSteps)
    BY <1>6 DEF Passes, Trained, Looping
  <2>3. run'.global_step >= run.global_step
    BY <1>6, <1>a DEF Passes
  <2>4. Counted' >= run'.global_step /\ (Counted' >= Before' \/ Counted' >= MaxSteps)
    BY <1>a, <1>b, <1>c, <2>1, <2>2, <2>3
  <2> QED
    BY <1>6, <2>4 DEF Passes, Trained
<1>7. CASE Writes
  <2>1. run'.pc = run.pc /\ run'.trained = run.trained /\ run'.global_step = run.global_step
        /\ Before' = Before
    BY <1>7, WritesCountNothing DEF Before
  <2>2. Counted' >= Counted
    BY <1>a, <1>b, <1>c, <2>1
  <2>3. CASE run.pc = "log"
    BY <1>a, <1>b, <1>c, <2>1, <2>2, <2>3 DEF Trained, Looping
  <2>4. CASE run.pc = "paused"
    BY <2>1, <2>4 DEF Trained, Looping
  <2>5. CASE run.pc = "finish" /\ Opens(LastModel) /\ run.todo # << >>
    BY <1>a, <1>b, <1>c, <2>1, <2>2, <2>5 DEF Opens, Becomes, Trained, Looping
  <2>6. CASE run.pc = "finish" /\ Completes(LastModel)
    BY <1>a, <1>b, <1>c, <2>1, <2>2, <2>6 DEF Completes, Trained, Looping
  <2> QED
    BY <1>7, <2>3, <2>4, <2>5, <2>6, WritesOneFile
<1>8. CASE Strays
  <2>1. run' = run /\ beside' /\ Before' = Before
    BY <1>b, <1>8 DEF Strays, Before
  <2>2. Counted' >= Counted
    BY <1>a, <1>b, <1>c, <2>1
  <2> QED
    BY <1>a, <1>b, <1>c, <2>1, <2>2 DEF Trained, Looping
<1> QED
  BY <1>1, <1>2, <1>3, <1>4, <1>5, <1>6, <1>7, <1>8, StepKinds

-----------------------------------------------------------------------------
(* Each part of the invariant is preserved: the worker and control.json.    *)

\* Whoever writes into control.json: the worker, a trainer that ends, and the
\* one that announces its pause.
LEMMA ControlMoves ==
  ASSUME TypeOK, [Next]_vars
  PROVE  \/ control' = control
         \/ control'.action \in { "pause", "cancel", "none" } /\ run' = run /\ disk' = disk
         \/ control'.action \in { "cancelled", "pause_failed" } /\ run'.pc = "dead"
         \/ Paused /\ run'.pc = "dead"
<1>1. CASE UserStep \/ LaunchFails \/ ReportProgress \/ TrainerFails \/ StrayWrites \/ Crash
           \/ UNCHANGED vars
  BY <1>1 DEF UserStep, PauseTask, ResumeTask, CancelTask, RetryTask, Control, LaunchFails,
     ReportProgress, TrainerFails, StrayWrites, Crash, vars
<1>0. CASE WatchFails
  BY <1>0 DEF WatchFails, NoControl
<1>2. CASE WorkerStep
  BY <1>2 DEF WorkerStep, StartWorker, LaunchTrainer, RequestStop, KillTrainer, SettleRun
<1>3. CASE FirstLog \/ LogStep \/ LogEpoch
  BY <1>3, LogFields DEF Becomes, FindsPause
<1>4. CASE Paused \/ PauseFails
  <2>1. run' = [ run EXCEPT !.pc = "dead" ]
        \/ run' = [ run EXCEPT !.pc = "dead", !.todo = << >>, !.open = FALSE ]
    BY <1>4 DEF Paused, PauseFails
  <2>2. run'.pc = "dead"
    BY <2>1, MovedFields DEF Becomes
  <2> QED
    BY <1>4, <2>2 DEF PauseFails
<1>5. CASE LoadState \/ FindNoData \/ BeginEpoch \/ DiscardBatch \/ TrainBatch \/ EndEpoch
           \/ FinishTraining \/ BeginSave \/ EndSave \/ RemoveFile
  BY <1>5 DEF LoadState, FindNoData, BeginEpoch, DiscardBatch, TrainBatch, EndEpoch, FinishTraining,
     BeginSave, EndSave, RemoveFile
<1> QED
  BY <1>0, <1>1, <1>2, <1>3, <1>4, <1>5 DEF Next, TrainerStep

\* No step takes the announced state away, and the next trainer finds it.
LEMMA PauseStaysKept ==
  ASSUME TypeOK, Jobs, Position, PauseIsKept, [Next]_vars
  PROVE  PauseIsKept'
<1> SUFFICES ASSUME ~ beside' PROVE PauseIsKept'
  BY DEF PauseIsKept
<1>a. args' = args
  BY StepKinds
<1>b. ~ beside /\ ~ Strays
  BY BesideStays
<1> USE <1>b
<1>1. CASE control' = control
  <2>1. CASE Still
    BY <1>a, <1>1, <2>1 DEF Still, PauseIsKept
  <2>2. CASE Renewed
    <3>1. ResumeFrom = IF args.resume = 0 THEN IF disk[ResumeDir].there THEN "own" ELSE "none"
                       ELSE "user"
      BY ArgumentFields DEF ResumeFrom
    <3> QED
      BY <1>a, <1>1, <2>2, <3>1 DEF Renewed, PauseIsKept
  <2>3. CASE Pauses
    BY <1>1, <2>3, OneJob DEF Pauses, Becomes, PauseIsKept
  <2>4. CASE Dies \/ Loads \/ GoesOn \/ Turns \/ Passes
    <3>1. disk' = disk /\ run'.pc \notin { "paused", "load" }
      BY <2>4 DEF Dies, Loads, GoesOn, Turns, Passes, Becomes
    <3> QED
      BY <1>1, <3>1 DEF PauseIsKept
  <2>5. CASE Writes
    <3>1. run'.pc = run.pc /\ run'.trained = run.trained
      BY <2>5, WritesCountNothing
    <3>2. OthersStay(LastModel) => disk'[ResumeDir] = disk[ResumeDir]
      BY FilesDiffer DEF OthersStay
    <3>3. CASE run.pc \in { "log", "finish" }
      BY <1>1, <2>5, <3>1, <3>2, <3>3, WritesOneFile DEF PauseIsKept
    <3>4. CASE run.pc = "paused" /\ Opens(ResumeDir) /\ run.todo # << >>
      BY <1>1, <3>1, <3>4 DEF Opens, Becomes, PauseIsKept
    <3>5. CASE run.pc = "paused" /\ Completes(ResumeDir)
      BY <1>1, <3>1, <3>5 DEF Completes, PauseIsKept
    <3> QED
      BY <2>5, <3>3, <3>4, <3>5, WritesOneFile
  <2> QED
    BY <2>1, <2>2, <2>3, <2>4, <2>5, StepKinds
<1>2. CASE control'.action \in { "pause", "cancel", "none" } /\ run' = run /\ disk' = disk
  BY <1>2 DEF PauseIsKept
<1>3. CASE control'.action \in { "cancelled", "pause_failed" } /\ run'.pc = "dead"
  BY <1>3 DEF PauseIsKept
<1>4. CASE Paused /\ run'.pc = "dead"
  <2>1. /\ control'.action = "paused" /\ control'.trained = run.trained
        /\ run.pc = "paused" /\ run.todo = << >> /\ disk' = disk
    BY <1>4 DEF Paused, Go
  <2> QED
    BY <1>4, <2>1 DEF PauseIsKept
<1> QED
  BY <1>1, <1>2, <1>3, <1>4, ControlMoves

\* The trainer's own steps need a trainer.
LEMMA TrainerIsAlive ==
  ASSUME TypeOK, Jobs, Position, TrainerStep \/ PauseFails
  PROVE  Alive
<1>1. CASE Writes
  BY <1>1, WritesOneFile DEF Alive, Ended
<1>2. CASE ~ Writes
  BY <1>2 DEF TrainerStep, Writes, LoadState, FindNoData, FirstLog, LogStep, LogEpoch, Paused, PauseFails, BeginEpoch,
     DiscardBatch, TrainBatch, EndEpoch, FinishTraining, Go, Alive, Ended
<1> QED
  BY <1>1, <1>2

\* They leave the worker and the status alone.
LEMMA TrainerOnlyTrains ==
  ASSUME TrainerStep \/ PauseFails
  PROVE  worker' = worker /\ status' = status
  BY DEF TrainerStep, LoadState, FindNoData, FirstLog, LogStep, LogEpoch, Paused, PauseFails, BeginEpoch, DiscardBatch,
     TrainBatch, EndEpoch, FinishTraining, BeginSave, EndSave, RemoveFile, taskVars

\* No step starts a worker or a trainer for a completed task.
LEMMA WatchedStays ==
  ASSUME TypeOK, Jobs, Position, Watched, [Next]_vars
  PROVE  Watched'
<1>1. CASE UserStep \/ ReportProgress \/ StartWorker \/ RequestStop \/ LaunchFails \/ WatchFails
  BY <1>1 DEF UserStep, PauseTask, ResumeTask, CancelTask, RetryTask, Control, ReportProgress, StartWorker,
     RequestStop, LaunchFails, WatchFails, AfterFailure, Startable, PauseTarget, CancelTarget, AckTarget,
     Cancellable, Pausable, Resumable, StopRequested, Watched, Alive, Ended, taskVars
<1>2. CASE LaunchTrainer
  BY <1>2 DEF LaunchTrainer, Watched, taskVars
<1>3. CASE KillTrainer \/ TrainerFails \/ StrayWrites
  <2>1. /\ status' = status /\ (status = "completed" => Alive \/ run' = run)
        /\ status = "completed" => worker' = worker
    BY <1>3 DEF KillTrainer, TrainerFails, StrayWrites, StopRequested, taskVars
  <2> QED
    BY <2>1 DEF Watched, Alive
<1>4. CASE Crash
  <2>1. run' = NoRun => ~ Alive'
    BY CrashFields DEF Alive, Ended
  <2>2. status' = "completed" => status = "completed"
    BY <1>4 DEF Crash, RecoveredStatus
  <2> QED
    BY <1>4, <2>1, <2>2 DEF Crash, Watched, Alive
<1>5. CASE TrainerStep \/ PauseFails
  BY <1>5, TrainerIsAlive, TrainerOnlyTrains DEF Watched
<1>6. CASE SettleRun
  BY <1>6 DEF SettleRun, Watched, Alive, Ended
<1>7. CASE UNCHANGED vars
  BY <1>7 DEF vars, taskVars, Watched, Alive
<1> QED
  BY <1>1, <1>2, <1>3, <1>4, <1>5, <1>6, <1>7 DEF Next, WorkerStep

\* A task completes with its model trained, and no trainer writes it again.
LEMMA CompletedStaysTrained ==
  ASSUME TypeOK, Jobs, Position, Watched, Trained, CompletedIsTrained, [Next]_vars
  PROVE  CompletedIsTrained'
<1> SUFFICES ASSUME status' = "completed", ~ beside'
             PROVE  (disk[LastModel].whole /\ disk[LastModel].trained >= MaxSteps - Miscounted)'
  BY DEF CompletedIsTrained
<1>a. /\ Miscounted \in { 0, 1 } /\ (disk' = disk => Miscounted' = Miscounted)
      /\ disk[LastModel].trained \in Nat /\ MaxSteps \in Nat
  BY MiscountedGrows, FileFields, FilesDiffer, TrainingRunAssumption
<1>b. ~ beside /\ ~ Strays
  BY BesideStays
<1>1. CASE status = "completed"
  <2>1. ~ Alive
    BY <1>1 DEF Watched
  <2>2. disk' = disk
    BY <1>b, <2>1, WorkerKinds, TrainerIsAlive DEF Next, FromOutside, Still, Renewed, Dies
  <2> QED
    BY <1>1, <1>a, <1>b, <2>2 DEF CompletedIsTrained
<1>2. CASE status # "completed"
  <2>1. SettleRun
    <3>1. ~ (TrainerStep \/ PauseFails)
      BY <1>2, TrainerOnlyTrains
    <3>2. ~ (UserStep \/ ReportProgress \/ StartWorker \/ RequestStop \/ LaunchFails \/ WatchFails
             \/ LaunchTrainer \/ KillTrainer \/ TrainerFails \/ StrayWrites)
      BY <1>2 DEF UserStep, PauseTask, ResumeTask, CancelTask, RetryTask, Control, ReportProgress,
         StartWorker, RequestStop, LaunchFails, WatchFails, AfterFailure, LaunchTrainer, KillTrainer,
         TrainerFails, StrayWrites, PauseTarget, CancelTarget, AckTarget, taskVars
    <3>3. ~ Crash /\ ~ UNCHANGED vars
      BY <1>2 DEF Crash, RecoveredStatus, vars, taskVars
    <3> QED
      BY <3>1, <3>2, <3>3 DEF Next, WorkerStep
  <2>2. run.pc = "exited" /\ disk' = disk
    BY <1>2, <2>1 DEF SettleRun, Outcome, AckTarget
  <2> QED
    BY <1>a, <1>b, <2>2 DEF Trained
<1> QED
  BY <1>1, <1>2

-----------------------------------------------------------------------------
(* Each part of the invariant is preserved: the checkpoints.                *)

\* A list that is empty, or that removes, is not that of a step to save.
LEMMA NotSaving ==
  /\ run.todo = << >> => ~ SavesStep
  /\ \A f : run.todo = << Remove(f) >> => ~ SavesStep
  /\ run'.todo = << >> => ~ SavesStep'
  /\ \A f : run'.todo = << Remove(f) >> => ~ SavesStep'
<1>1. ASSUME NEW n PROVE Rotation(n) # << >> /\ Head(Rotation(n)) = Save(Step(n))
  BY RotationJobs, OneJob, TwoJobs
<1>2. ASSUME NEW n, NEW f PROVE << Remove(f) >> # Rotation(n)
  <2>1. Head(<< Remove(f) >>) = Remove(f)
    BY OneJob
  <2>2. Remove(f) # Save(Step(n))
    BY FilesDiffer
  <2> QED
    BY <1>1, <2>1, <2>2
<1>3. /\ SavesStep => run.todo = Rotation(run.global_step)
      /\ SavesStep' => run'.todo = Rotation(run'.global_step)
  BY DEF SavesStep, Rotation
<1> QED
  BY <1>1, <1>2, <1>3

\* While the count and the saved steps stay, and nothing is being saved.
LEMMA SavedStepsKept ==
  ASSUME SavedSteps, ~ SavesStep, ~ SavesStep', Alive' => Alive,
         run'.saved = run.saved, run'.global_step = run.global_step, run'.pc # "load"
  PROVE  SavedSteps'
  BY DEF SavedSteps

\* A step that counts up and asks for a checkpoint, or not.
LEMMA SavedStepsCount ==
  ASSUME TypeOK, TypeOK', Position, SavedSteps, Passes, run'.pc = "log"
  PROVE  SavedSteps'
<1>a. /\ run.global_step \in Nat /\ run'.global_step = run.global_step + 1 /\ run'.saved = run.saved
      /\ run.saved \subseteq 1 .. MaxSteps /\ SaveEvery \in Nat \ { 0 }
  BY RunFields, TrainingRunAssumption DEF Passes
<1>1. Alive /\ ~ SavesStep
  BY NotSaving DEF Passes, Alive, Ended
<1>2. \A n \in run.saved : n \in Nat /\ n % SaveEvery = 0 /\ n <= run.global_step
  BY <1>a DEF SavedSteps
<1>3. ~ SavesStep' => run'.global_step % SaveEvery # 0
  <2>1. run'.global_step % SaveEvery = 0 => run'.todo = Rotation(run'.global_step)
    BY DEF Passes
  <2> QED
    BY <2>1 DEF SavesStep, Rotation
<1>4. ASSUME run.saved # {}
      PROVE  \E m \in run.saved :
               IF SavesStep' THEN run'.global_step <= m + SaveEvery ELSE run'.global_step < m + SaveEvery
  <2>1. PICK m \in run.saved : run.global_step < m + SaveEvery
    BY <1>1, <1>4 DEF SavedSteps
  <2>2. m \in Int /\ m % SaveEvery = 0 /\ run'.global_step <= m + SaveEvery /\ run'.global_step \in Int
    BY <1>a, <1>2, <2>1
  <2>3. ~ SavesStep' => run'.global_step < m + SaveEvery
    BY <1>3, <2>2, NextMultiple
  <2> QED
    BY <2>1, <2>2, <2>3
<1>5. \A n \in run'.saved : n % SaveEvery = 0 /\ n <= run'.global_step /\ n < run'.global_step
  BY <1>a, <1>2
<1> QED
  BY <1>a, <1>4, <1>5 DEF SavedSteps

\* The checkpoint of the step is there.
LEMMA SavedStepsGrow ==
  ASSUME TypeOK, SavedSteps, SavesStep, run.global_step \in 1 .. MaxSteps,
         run.global_step % SaveEvery = 0, Completes(Step(run.global_step)), ~ SavesStep'
  PROVE  SavedSteps'
<1> DEFINE g == run.global_step
<1>1. run'.saved = run.saved \cup { g } /\ run'.global_step = g /\ run'.pc = "log"
  BY FilesDiffer DEF Completes, SavesStep
<1>2. g \in Nat /\ g < g + SaveEvery /\ SaveEvery \in Nat \ { 0 }
  BY TrainingRunAssumption
<1>3. \A n \in run'.saved : n % SaveEvery = 0 /\ n <= run'.global_step
  BY <1>1, <1>2 DEF SavedSteps
<1> HIDE DEF g
<1> QED
  BY <1>1, <1>2, <1>3 DEF SavedSteps

\* No step leaves a gap in the checkpoints.
LEMMA SavedStepsStay ==
  ASSUME TypeOK, TypeOK', Jobs, Position, SavedSteps, [Next]_vars
  PROVE  SavedSteps'
<1>1. CASE Still \/ Strays
  BY <1>1 DEF Still, Strays, SavedSteps, SavesStep, Rotation, Alive
<1>2. CASE Renewed
  BY <1>2 DEF Renewed, SavedSteps
<1>3. CASE Dies
  <2>1. run'.pc \in { "dead", "empty" } /\ run'.saved = run.saved /\ run'.global_step = run.global_step
    BY <1>3 DEF Dies, Becomes
  <2>2. ~ SavesStep' /\ ~ Alive'
    BY <2>1 DEF SavesStep, Rotation, Alive, Ended
  <2> QED
    BY <2>1, <2>2 DEF SavedSteps
<1>4. CASE Pauses \/ GoesOn \/ Turns
  <2>1. /\ run.todo = << >> /\ run'.saved = run.saved /\ run'.global_step = run.global_step
        /\ run'.pc \notin { "load", "log" } /\ Alive
    BY <1>4 DEF Pauses, GoesOn, Turns, Becomes, Alive, Ended
  <2>2. ~ SavesStep /\ ~ SavesStep'
    BY <2>1, NotSaving DEF SavesStep, Rotation
  <2> QED
    BY <2>1, <2>2, SavedStepsKept
<1>5. CASE Loads
  BY <1>5 DEF Loads, SavedSteps
<1>6. CASE Passes
  <2>1. CASE run'.pc = "batch"
    <3>1. /\ run.todo = << >> /\ run'.saved = run.saved /\ run'.global_step = run.global_step /\ Alive
      BY <1>6, <2>1 DEF Passes, Alive, Ended
    <3>2. ~ SavesStep /\ ~ SavesStep'
      BY <2>1, <3>1, NotSaving DEF SavesStep, Rotation
    <3> QED
      BY <2>1, <3>1, <3>2, SavedStepsKept
  <2>2. CASE run'.pc = "log"
    BY <1>6, <2>2, SavedStepsCount
  <2> QED
    BY <1>6, <2>1, <2>2 DEF Passes
<1>7. CASE Writes
  <2>1. run.todo # << >> /\ Job.file \in Files /\ Alive
    BY <1>7, JobIsFile, WritesOneFile DEF Writes, BeginSave, EndSave, RemoveFile, Alive, Ended
  <2>2. run'.pc = run.pc /\ run'.global_step = run.global_step
    BY <1>7, WritesCountNothing
  <2>3. CASE Opens(Job.file)
    BY <2>1, <2>3 DEF Opens, Becomes, SavedSteps, SavesStep, Rotation, Alive
  <2>4. CASE Job.op = "save" /\ Completes(Job.file)
    <3>1. CASE SavesStep
      <4>1. /\ Job.file = Step(run.global_step) /\ run.global_step \in 1 .. MaxSteps
            /\ run.global_step % SaveEvery = 0
            /\ Tail(run.todo) = << >> \/ \E f : Tail(run.todo) = << Remove(f) >>
        BY <2>1, <2>4, <3>1, JobCases, FilesDiffer DEF SavesStep
      <4>2. ~ SavesStep'
        BY <2>4, <4>1, NotSaving DEF Completes
      <4>3. Completes(Step(run.global_step))
        BY <2>4, <4>1
      <4> QED
        BY <3>1, <4>1, <4>2, <4>3, SavedStepsGrow
    <3>2. CASE ~ SavesStep
      <4>1. run.pc # "log" /\ Job.file \in { LastModel, ResumeDir } /\ run.pc # "load"
        BY <2>1, <2>4, <3>2, JobCases, FilesDiffer
      <4>2. run'.saved = run.saved
        BY <2>4, <4>1, FilesDiffer DEF Completes
      <4>3. ~ SavesStep'
        BY <2>2, <4>1 DEF SavesStep, Rotation
      <4> QED
        BY <2>1, <2>2, <3>2, <4>1, <4>2, <4>3, SavedStepsKept
    <3> QED
      BY <3>1, <3>2
  <2>5. CASE Job.op = "remove" /\ Removes(Job.file)
    <3>1. run.pc = "log" /\ Tail(run.todo) = << >> /\ \E f : run.todo = << Remove(f) >>
      BY <2>1, <2>5, JobCases, FilesDiffer
    <3>2. ~ SavesStep /\ ~ SavesStep' /\ run'.saved = run.saved
      BY <2>5, <3>1, NotSaving DEF Removes, Becomes
    <3> QED
      BY <2>1, <2>2, <3>1, <3>2, SavedStepsKept
  <2> QED
    BY <1>7, <2>1, <2>3, <2>4, <2>5, WriteFields
<1> QED
  BY <1>1, <1>2, <1>3, <1>4, <1>5, <1>6, <1>7, StepKinds

\* What is left to remove is one file.
LEMMA RemovalsDiffer ==
  /\ \A n : << Remove(Step(n)) >> # << >>
  /\ \A n, m : n # m => << Remove(Step(n)) >> # << Remove(Step(m)) >> /\ Step(n) # Step(m)
<1>1. ASSUME NEW n, NEW m, n # m PROVE << Remove(Step(n)) >> # << Remove(Step(m)) >> /\ Step(n) # Step(m)
  <2>1. Step(n) # Step(m)
    BY <1>1, FilesDiffer
  <2>2. Remove(Step(n)) # Remove(Step(m))
    BY <2>1, FilesDiffer
  <2> QED
    BY <2>1, <2>2, OneJob
<1> QED
  BY <1>1, OneJob

\* While the checkpoints and what is left to remove stay.
LEMMA RotatedKept ==
  ASSUME RotatedSo, run'.saved = run.saved, Alive' => Alive,
         \A n \in run.saved : disk'[Step(n)] = disk[Step(n)],
         run'.todo = run.todo \/ (\A n : run.todo # << Remove(Step(n)) >>)
  PROVE  RotatedSo'
<1> SUFFICES ASSUME NEW n \in run.saved, NEW last \in run.saved, \A m \in run.saved : m <= last
             PROVE  /\ n >= last - SaveLast => disk'[Step(n)].whole
                    /\ n < last - SaveLast /\ Alive' =>
                         ~ disk'[Step(n)].there \/ run'.todo = << Remove(Step(n)) >>
  BY DEF RotatedSo, Step, Remove
<1>1. /\ n >= last - SaveLast => disk[Step(n)].whole
      /\ n < last - SaveLast /\ Alive => ~ disk[Step(n)].there \/ run.todo = << Remove(Step(n)) >>
  BY DEF RotatedSo
<1> QED
  BY <1>1

\* An old checkpoint goes, and it is older than those to keep.
LEMMA RotatedRemoves ==
  ASSUME TypeOK, RotatedSo, NEW old \in 0 .. MaxSteps, run.todo = << Remove(Step(old)) >>,
         old < run.global_step - SaveLast, run.global_step \in run.saved,
         Removes(Step(old)), OthersStay(Step(old))
  PROVE  RotatedSo'
<1>a. /\ run'.saved = run.saved /\ run.saved \subseteq 1 .. MaxSteps /\ SaveLast \in Nat /\ MaxSteps \in Nat
      /\ (Alive' => Alive) /\ run.global_step \in Nat /\ old \in Int
  BY RunFields, TrainingRunAssumption DEF Removes, Becomes, Alive
<1> SUFFICES ASSUME NEW n \in run.saved, NEW last \in run.saved, \A m \in run.saved : m <= last
             PROVE  /\ n >= last - SaveLast => disk'[Step(n)].whole
                    /\ n < last - SaveLast /\ Alive' => ~ disk'[Step(n)].there
  BY <1>a DEF RotatedSo, Step, Remove
<1>1. /\ n >= last - SaveLast => disk[Step(n)].whole
      /\ n < last - SaveLast /\ Alive => ~ disk[Step(n)].there \/ run.todo = << Remove(Step(n)) >>
  BY DEF RotatedSo
<1>2. n \in Nat /\ last \in Nat /\ run.global_step <= last /\ n \in 0 .. MaxSteps
  BY <1>a
<1>3. n >= last - SaveLast => n # old
  BY <1>a, <1>2
<1>4. CASE n = old
  BY <1>3, <1>4 DEF Removes, NoFile
<1>5. CASE n # old
  <2>1. disk'[Step(n)] = disk[Step(n)] /\ run.todo # << Remove(Step(n)) >>
    BY <1>2, <1>5, RemovalsDiffer, FilesDiffer DEF OthersStay
  <2> QED
    BY <1>1, <1>a, <2>1
<1> QED
  BY <1>4, <1>5

\* The step's checkpoint is there: it is the last one now, and the one that has
\* become too old is the next to be removed.
LEMMA RotatedGrows ==
  ASSUME TypeOK, SavedSteps, RotatedSo, SavesStep, run.global_step \in 1 .. MaxSteps,
         run.global_step % SaveEvery = 0, Completes(Step(run.global_step)),
         OthersStay(Step(run.global_step)),
         Oldest(run.global_step) >= 0 => Tail(run.todo) = << Remove(Step(Oldest(run.global_step))) >>
  PROVE  RotatedSo'
<1> DEFINE g == run.global_step
           old == Oldest(g)
<1>a. /\ run'.saved = run.saved \cup { g } /\ run.saved \subseteq 1 .. MaxSteps /\ SaveLast \in Nat
      /\ MaxSteps \in Nat /\ SaveEvery \in Nat \ { 0 } /\ Alive /\ g \in Nat
  BY RunFields, FilesDiffer, TrainingRunAssumption DEF Completes, SavesStep, Alive, Ended
<1>b. /\ old \in Int /\ old % SaveEvery = 0 /\ old < g - SaveLast
      /\ g - SaveLast - 1 < old + SaveEvery
  BY OldestIsOld
<1>c. /\ \A n \in run.saved : n \in Nat /\ n \in 0 .. MaxSteps /\ n % SaveEvery = 0 /\ n < g
      /\ run.saved # {} => \E m \in run.saved : g <= m + SaveEvery
  BY <1>a DEF SavedSteps
<1>d. disk'[Step(g)].whole
  BY DEF Completes
<1>e. old >= 0 => run'.todo = << Remove(Step(old)) >>
  BY DEF Completes
<1>f. \A n \in run.saved : disk'[Step(n)] = disk[Step(n)] /\ run.todo # << Remove(Step(n)) >>
  BY <1>a, <1>c, FilesDiffer, RemovalsDiffer, NotSaving DEF OthersStay
<1> HIDE DEF g, old
<1> SUFFICES ASSUME NEW n \in run.saved \cup { g }
             PROVE  /\ n >= g - SaveLast => disk'[Step(n)].whole
                    /\ n < g - SaveLast => ~ disk'[Step(n)].there \/ run'.todo = << Remove(Step(n)) >>
  <2>1. ASSUME NEW last \in run'.saved, \A m \in run'.saved : m <= last PROVE last = g
    <3>1. last \in run.saved \cup { g } /\ g <= last
      BY <1>a, <2>1
    <3>2. last # g => last \in Nat /\ last < g
      BY <1>c, <3>1
    <3> QED
      BY <1>a, <3>1, <3>2
  <2> QED
    BY <1>a, <2>1 DEF RotatedSo, Step, Remove
<1>1. CASE n = g
  BY <1>1, <1>a, <1>d
<1>2. CASE n \in run.saved
  <2>1. PICK m \in run.saved : g <= m + SaveEvery
    BY <1>2, <1>c
  <2>2. ASSUME NEW k \in run.saved PROVE k <= m
    <3>1. k \in Nat /\ m \in Nat /\ k % SaveEvery = 0 /\ m % SaveEvery = 0 /\ k < g
      BY <1>c
    <3>2. m < k => m <= k - SaveEvery
      BY <3>1, Multiples
    <3> QED
      BY <1>a, <2>1, <3>1, <3>2
  <2>3. /\ n >= m - SaveLast => disk[Step(n)].whole
        /\ n < m - SaveLast => ~ disk[Step(n)].there
    BY <1>2, <1>a, <1>f, <2>1, <2>2 DEF RotatedSo
  <2>4. n \in Nat /\ m \in Nat /\ n % SaveEvery = 0 /\ m < g
    BY <1>2, <1>c, <2>1
  <2>5. n >= g - SaveLast => n >= m - SaveLast
    BY <1>a, <2>4
  <2>6. ASSUME n < g - SaveLast PROVE n = old \/ n < m - SaveLast
    <3>1. n > old => old <= n - SaveEvery
      BY <1>b, <2>4, Multiples
    <3>2. n <= old
      BY <1>a, <1>b, <2>4, <2>6, <3>1
    <3>3. n < old => n <= old - SaveEvery
      BY <1>b, <2>4, Multiples
    <3> QED
      BY <1>a, <1>b, <2>1, <2>4, <3>2, <3>3
  <2> QED
    BY <1>2, <1>e, <1>f, <2>3, <2>4, <2>5, <2>6
<1> QED
  BY <1>1, <1>2

\* The rotation keeps what it should, and leaves no more.
LEMMA RotatedStays ==
  ASSUME TypeOK, TypeOK', Jobs, Position, SavedSteps, Rotated, [Next]_vars
  PROVE  Rotated'
<1> SUFFICES ASSUME ~ beside' PROVE RotatedSo'
  BY DEF Rotated
<1>a. RotatedSo /\ ~ Strays
  BY BesideStays DEF Rotated
<1> USE <1>a
<1>1. CASE Still
  BY <1>1, RotatedKept DEF Still, Alive
<1>2. CASE Renewed
  BY <1>2 DEF Renewed, RotatedSo
<1>3. CASE Dies
  <2>1. run'.saved = run.saved /\ disk' = disk /\ ~ Alive'
    BY <1>3 DEF Dies, Becomes, Alive, Ended
  <2> QED
    BY <2>1 DEF RotatedSo, Step, Remove
<1>4. CASE Pauses \/ GoesOn \/ Turns \/ Passes
  <2>1. run'.saved = run.saved /\ disk' = disk /\ run.todo = << >> /\ Alive
    BY <1>4 DEF Pauses, GoesOn, Turns, Passes, Becomes, Alive, Ended
  <2> QED
    BY <2>1, RemovalsDiffer, RotatedKept
<1>5. CASE Loads
  <2>1. run'.saved = {}
    BY <1>5 DEF Loads, SavedSteps
  <2> QED
    BY <2>1 DEF RotatedSo
<1>6. CASE Writes
  <2>1. run.todo # << >> /\ Job.file \in Files /\ Alive
    BY <1>6, JobIsFile, WritesOneFile DEF Writes, BeginSave, EndSave, RemoveFile, Alive, Ended
  <2>2. OthersStay(Job.file)
    BY <1>6, <2>1, WriteFields
  <2>3. run.saved \subseteq 0 .. MaxSteps
    BY RunFields, TrainingRunAssumption
  <2>4. CASE Job.file \in { LastModel, ResumeDir }
    <3>1. \A n \in run.saved : disk'[Step(n)] = disk[Step(n)]
      BY <2>2, <2>3, <2>4, FilesDiffer DEF OthersStay
    <3>2. \A n : run.todo # << Remove(Step(n)) >>
      BY <2>4, OneJob, FilesDiffer DEF Job
    <3>3. run'.saved = run.saved
      BY <1>6, <2>1, <2>4, WriteFields, FilesDiffer DEF Opens, Completes, Removes, Becomes
    <3> QED
      BY <2>1, <3>1, <3>2, <3>3, RotatedKept
  <2>5. CASE SavesStep /\ Job = Save(Step(run.global_step)) /\ run.global_step \in 1 .. MaxSteps
             /\ run.global_step % SaveEvery = 0
             /\ Tail(run.todo) = IF Oldest(run.global_step) >= 0
                                 THEN << Remove(Step(Oldest(run.global_step))) >> ELSE << >>
    <3>1. Job.file = Step(run.global_step) /\ Job.op = "save"
      BY <2>5, FilesDiffer
    <3>2. CASE Completes(Job.file)
      BY <2>2, <2>5, <3>1, <3>2, RotatedGrows
    <3>3. CASE Opens(Job.file)
      <4>1. /\ run'.saved = run.saved /\ run'.todo = run.todo
            /\ \A n \in run.saved : n # run.global_step
        BY <2>3, <2>5, <3>3 DEF Opens, Becomes, SavedSteps
      <4>2. \A n \in run.saved : disk'[Step(n)] = disk[Step(n)]
        BY <2>2, <2>3, <3>1, <4>1, FilesDiffer, RemovalsDiffer DEF OthersStay
      <4> QED
        BY <2>1, <4>1, <4>2, RotatedKept
    <3> QED
      BY <1>6, <2>1, <3>1, <3>2, <3>3, WriteFields
  <2>6. CASE \E old \in 0 .. MaxSteps :
               /\ Job = Remove(Step(old)) /\ run.todo = << Remove(Step(old)) >>
               /\ old < run.global_step - SaveLast
               /\ run.global_step \in run.saved
    <3>1. PICK old \in 0 .. MaxSteps :
               /\ Job = Remove(Step(old)) /\ run.todo = << Remove(Step(old)) >>
               /\ old < run.global_step - SaveLast
               /\ run.global_step \in run.saved
      BY <2>6
    <3>2. Job.file = Step(old) /\ Job.op = "remove"
      BY <3>1, FilesDiffer
    <3>3. Removes(Step(old)) /\ OthersStay(Step(old))
      BY <1>6, <2>1, <2>2, <3>2, WriteFields
    <3> QED
      BY <3>1, <3>3, RotatedRemoves
  <2>7. \/ Job.file \in { LastModel, ResumeDir }
        \/ SavesStep /\ Job = Save(Step(run.global_step)) /\ run.global_step \in 1 .. MaxSteps
             /\ run.global_step % SaveEvery = 0
             /\ Tail(run.todo) = IF Oldest(run.global_step) >= 0
                                 THEN << Remove(Step(Oldest(run.global_step))) >> ELSE << >>
        \/ \E old \in 0 .. MaxSteps :
               /\ Job = Remove(Step(old)) /\ run.todo = << Remove(Step(old)) >>
               /\ old < run.global_step - SaveLast
               /\ run.global_step \in run.saved
    BY <2>1, JobCases, FilesDiffer
  <2> QED
    BY <2>4, <2>5, <2>6, <2>7
<1> QED
  BY <1>1, <1>2, <1>3, <1>4, <1>5, <1>6, StepKinds

-----------------------------------------------------------------------------
(* The theorems.                                                            *)

IInv ==
  /\ TypeOK /\ Watched /\ Jobs /\ PauseIsKept /\ StateCounts /\ Position /\ Ordered
  /\ Trained /\ SavedSteps /\ Rotated /\ CompletedIsTrained

\* It holds while there is no trainer yet and no file.
LEMMA InvariantAtFirst ==
  ASSUME Init
  PROVE  IInv
<1>1. /\ run.pc = "none" /\ run.todo = << >> /\ run.saved = {} /\ run.current_step = 0
      /\ ~ Alive /\ ~ Looping
  BY DEF Init, NoRun, Alive, Ended, Looping
<1>2. ResumeDir \in Files /\ \A f \in Files : disk[f] = NoFile
  BY FilesDiffer DEF Init
<1>3. TypeOK
  <2>0. beside \in BOOLEAN
    BY DEF Init
  <2>1. Typed
    BY <2>0, TrainingRunAssumption, ArgumentsAssumption
    DEF Init, Typed, Statuses, Startable, NoControl, Content, NoFile
  <2>2. run \in Run
    <3>1. "none" \in { "none", "own", "user" }
      OBVIOUS
    <3> QED
      BY NoRunIsTyped DEF Init
  <2> QED
    BY <2>1, <2>2, TypeParts
<1>4. StateCounts
  <2>1. disk[ResumeDir].current_step = 0 /\ Miscounted = 0
    BY <1>2 DEF NoFile, Miscounted
  <2> QED
    BY <1>1, <2>1 DEF StateCounts
<1>5. Watched /\ Jobs /\ PauseIsKept /\ CompletedIsTrained
  BY <1>1 DEF Init, Watched, Jobs, PauseIsKept, CompletedIsTrained, NoControl
<1>6. Position /\ Ordered /\ Trained /\ SavedSteps /\ Rotated
  BY <1>1 DEF Position, Ordered, Trained, SavedSteps, SavesStep, Rotated, RotatedSo, Looping
<1> QED
  BY <1>3, <1>4, <1>5, <1>6 DEF IInv

\* Every step preserves it.
LEMMA InvariantStays ==
  ASSUME IInv, [Next]_vars
  PROVE  IInv'
<1>1. TypeOK' /\ Jobs'
  BY TypesStay, JobsStay DEF IInv
<1>2. Watched' /\ Position' /\ Ordered'
  BY <1>1, WatchedStays, PositionStays, OrderedStays DEF IInv
<1>3. PauseIsKept' /\ StateCounts' /\ Trained' /\ CompletedIsTrained'
  BY <1>1, PauseStaysKept, StateStillCounts, TrainedStays, CompletedStaysTrained DEF IInv
<1>4. SavedSteps' /\ Rotated'
  BY <1>1, SavedStepsStay, RotatedStays DEF IInv
<1> QED
  BY <1>1, <1>2, <1>3, <1>4 DEF IInv

\* The inductive invariant holds in every state of a training task.
THEOREM InvariantHolds == Spec => []IInv
<1>1. Init => IInv
  BY InvariantAtFirst
<1>2. IInv /\ [Next]_vars => IInv'
  BY InvariantStays
<1> QED
  BY <1>1, <1>2, PTL DEF Spec

\* The task, the control file, the files of the run and the trainer are typed.
THEOREM TypeCorrect == Spec => []TypeOK
<1>1. IInv => TypeOK
  BY DEF IInv
<1> QED
  BY <1>1, InvariantHolds, PTL

\* The checkpoints of the last SaveLast steps are whole at every moment of a
\* rotation, and once it is over the run has left no older one, while there is one
\* trainer.
THEOREM LastAreAlwaysKept == Spec => []KeepsLast
<1>1. IInv => KeepsLast
  BY RemovalsDiffer DEF IInv, Rotated, RotatedSo, KeepsLast
<1> QED
  BY <1>1, InvariantHolds, PTL

\* A trainer that starts from nothing, or skips to where its state stands, sees
\* each batch in its turn.
THEOREM DataAlwaysInOrder == Spec => []DataInOrder
<1>1. IInv => DataInOrder
  <2> SUFFICES ASSUME IInv, run.pc = "batch", run.initial_step = 0, InOrder
               PROVE  run.trained = run.epoch * Batches + run.batch
    BY DEF DataInOrder, Go
  <2>1. run.epoch \in Nat /\ run.batch \in Nat /\ TypeOK
    BY RunFields DEF IInv
  <2>2. Looping /\ ~ EpochsOver
    BY DEF Looping, EpochsOver
  <2>3. run.trained = Before
    BY <2>2 DEF IInv, Ordered
  <2>4. Before = run.epoch * Batches + run.batch + run.initial_step
    BY BeforeIs
  <2>5. run.epoch * Batches \in Nat
    BY <2>1, BatchesOfEpoch
  <2> DEFINE passed == run.epoch * Batches
  <2> HIDE DEF passed
  <2>6. run.trained = passed + run.batch + run.initial_step /\ passed \in Nat
    BY <2>3, <2>4, <2>5 DEF passed
  <2>7. run.trained = passed + run.batch
    BY <2>1, <2>6
  <2> QED
    BY <2>7 DEF passed
<1> QED
  BY <1>1, InvariantHolds, PTL

\* A completed training has its last model, whole, and trained to the end, if there
\* was never a second trainer beside the first.
THEOREM CompletedAlwaysTrained == Spec => []CompletedIsTrained
<1>1. IInv => CompletedIsTrained
  BY DEF IInv
<1> QED
  BY <1>1, InvariantHolds, PTL

\* What the bridge announces as paused is whole, and the next trainer goes on with
\* it if the request names no state of its own, and with that one if it does; while
\* there is one trainer.
THEOREM PausesLoseNothing == Spec => PauseLosesNothing
<1>1. ASSUME IInv, [Next]_vars, control.action = "paused", ~ beside
      PROVE  /\ disk[ResumeDir].whole
             /\ run.pc = "load" /\ run'.pc \in { "first_log", "epoch" } =>
                  run'.trained = IF args.resume = 0 THEN control.trained ELSE args.resume
  <2>1. /\ disk[ResumeDir].whole /\ disk[ResumeDir].trained = control.trained
        /\ run.pc = "load" => run.resume = IF args.resume = 0 THEN "own" ELSE "user"
    BY <1>1 DEF IInv, PauseIsKept
  <2>2. ASSUME run.pc = "load", run'.pc \in { "first_log", "epoch" } PROVE Loads
    <3>1. ~ (Still \/ Strays \/ Renewed \/ Dies \/ Pauses \/ GoesOn \/ Turns \/ Passes)
      BY <2>2 DEF Still, Strays, Renewed, Dies, Becomes, Pauses, GoesOn, Turns, Passes
    <3>2. ~ Writes
      BY <1>1, <2>2, WritesOneFile DEF IInv
    <3> QED
      BY <1>1, <3>1, <3>2, StepKinds DEF IInv
  <2>3. /\ run.resume = "own" => Loaded = disk[ResumeDir]
        /\ run.resume = "user" => Loaded.trained = args.resume
    BY DEF Loaded
  <2> QED
    BY <2>1, <2>2, <2>3 DEF Loads
<1>2. IInv /\ [Next]_vars =>
        (control.action = "paused" /\ ~ beside =>
           /\ disk[ResumeDir].whole
           /\ run.pc = "load" /\ run'.pc \in { "first_log", "epoch" } =>
                run'.trained = IF args.resume = 0 THEN control.trained ELSE args.resume)
  BY <1>1
<1> QED
  BY <1>2, InvariantHolds, PTL DEF Spec, PauseLosesNothing
=============================================================================
