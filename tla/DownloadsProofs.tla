--------------------------- MODULE DownloadsProofs ---------------------------
(***************************************************************************)
(* Proofs about downloads into one directory, for any tasks, posts,        *)
(* targets and numbers of transfers, and any number of controls, faults    *)
(* and crashes, in two halves.                                             *)
(*                                                                         *)
(* Files: PartsStay, no part file is taken from a transfer, and            *)
(* RegisteredIsWhole, what is registered has its files.  The argument has  *)
(* four layers: who has transfers (RootInv), who makes the file of a post  *)
(* (MakerInv), where the media file is (WholeInv), and where the caption   *)
(* is (CaptionInv).  Each step of a transfer is first reduced to what it   *)
(* does to its own post (TransferKinds), and the layers are proved from    *)
(* that.                                                                   *)
(*                                                                         *)
(* Items and counts: NoPartLeft, AtMostTarget and CompletedMeansDone, from *)
(* Asked, PartInv, CountInv and DoneInv.  Each step is reduced to what it  *)
(* does to an item (ItemMoves), to a task and its worker (TaskMoves,       *)
(* Turns) and to the sets a task counts (CountKind).                       *)
(***************************************************************************)
EXTENDS Downloads, FiniteSetTheorems, TLAPS

(* The records a worker and a transfer may become.                          *)

\* A worker that is gone, or only waits.
LEMMA NoWorkerIsWorker == NoWorker \in Worker /\ [ NoWorker EXCEPT !.pc = "waiting" ] \in Worker
  BY DEF Worker, NoWorker

\* A worker moves on.
LEMMA WorkerMoves ==
  ASSUME NEW w \in Worker, NEW pc \in { "waiting", "ready", "settled", "leaving" }
  PROVE  [ w EXCEPT !.pc = pc ] \in Worker
  BY DEF Worker

\* A body ends with an outcome.
LEMMA WorkerEnds ==
  ASSUME NEW w \in Worker, NEW o \in { "stopped", "complete", "failed", "retryable" }
  PROVE  [ w EXCEPT !.pc = "ended", !.outcome = o ] \in Worker
  BY DEF Worker

\* A body begins with its counters and positions.
LEMMA WorkerBegins ==
  ASSUME NEW n \in Nat, NEW f \in { "none", "failed" }, NEW todo \in SUBSET Nat
  PROVE  [ pc |-> "body", outcome |-> "none", downloaded |-> n, failed |-> f, todo |-> todo ]
           \in Worker
  BY DEF Worker

\* A position is taken off the list.
LEMMA WorkerGoesOn ==
  ASSUME NEW w \in Worker, NEW i
  PROVE  [ w EXCEPT !.todo = @ \ { i } ] \in Worker
  BY DEF Worker

\* A result is counted.
LEMMA WorkerCounts ==
  ASSUME NEW w \in Worker, NEW f \in { "failed", "retryable" }
  PROVE  /\ [ w EXCEPT !.downloaded = @ + 1 ] \in Worker
         /\ [ w EXCEPT !.failed = f ] \in Worker
  BY DEF Worker

\* A transfer moves on.
LEMMA TransferMoves ==
  ASSUME NEW x \in Transfer, NEW pc \in { "asking", "writing", "renamed", "registering" }
  PROVE  [ x EXCEPT !.pc = pc ] \in Transfer
  BY DEF Transfer

\* A transfer is gone, or has ended with a result.
LEMMA TransferEnds ==
  ASSUME NEW r \in { "downloaded", "skipped", "stopped", "failed", "retryable" }
  PROVE  NoTransfer \in Transfer /\ [ NoTransfer EXCEPT !.pc = "done", !.result = r ] \in Transfer
  BY DEF Transfer, NoTransfer

\* A transfer has made its files.
LEMMA TransferMakes ==
  ASSUME NEW x \in Transfer, NEW b \in BOOLEAN
  PROVE  [ x EXCEPT !.pc = "registering", !.new = TRUE, !.made = b ] \in Transfer
  BY DEF Transfer

\* What a transfer says it made.
LEMMA TransferSays ==
  ASSUME NEW x \in Transfer
  PROVE  x.new \in BOOLEAN /\ x.made \in BOOLEAN
  BY DEF Transfer

\* The transfers of a task that has none.
LEMMA IdleIsTyped == Idle \in [ Posts -> Transfer ]
  BY TransferEnds DEF Idle

\* Posts are finitely many, so the items of a task can be counted.
LEMMA CountsAreNumbers ==
  ASSUME TypeOK, NEW t \in Tasks
  PROVE  Counts(t).downloaded \in Nat /\ Counts(t).failed \in { "none", "failed" }
<1>1. IsFiniteSet(Having(t, { "completed" }))
  BY DownloadsAssumption, FS_Subset DEF Having
<1> QED
  BY <1>1, FS_CardinalityType DEF Counts

\* The positions of the items still queued.
LEMMA PositionsAreNumbers ==
  ASSUME NEW t \in Tasks
  PROVE  { i \in DOMAIN PostIds[t] : items[t][PostIds[t][i]] = "queued" } \in SUBSET Nat
<1>1. PostIds[t] \in Seq(Posts)
  BY DownloadsAssumption
<1>2. DOMAIN PostIds[t] \subseteq Nat
  BY <1>1
<1> QED
  BY <1>2

\* The transfers an abort leaves to themselves.
LEMMA OrphansAreTyped ==
  ASSUME transfers \in [ Tasks -> [ Posts -> Transfer ] ], NEW t \in Tasks
  PROVE  Orphaned(t) \subseteq [ task : Tasks, post : Posts, new : BOOLEAN, made : BOOLEAN ]
<1>1. ASSUME NEW q \in Posts
      PROVE  transfers[t][q].new \in BOOLEAN /\ transfers[t][q].made \in BOOLEAN
  BY TransferSays
<1> QED
  BY <1>1 DEF Orphaned

\* One file of a post comes or goes.
LEMMA OneFileChanges ==
  ASSUME disk \in [ Posts -> [ FileKinds -> BOOLEAN ] ], NEW p \in Posts,
         NEW k \in FileKinds, NEW a \in BOOLEAN
  PROVE  [ disk EXCEPT ![p][k] = a ] \in [ Posts -> [ FileKinds -> BOOLEAN ] ]
  OBVIOUS

\* Two files of a post come or go.
LEMMA TwoFilesChange ==
  ASSUME disk \in [ Posts -> [ FileKinds -> BOOLEAN ] ], NEW p \in Posts,
         NEW k \in FileKinds, NEW a \in BOOLEAN, NEW l \in FileKinds, NEW b \in BOOLEAN
  PROVE  [ disk EXCEPT ![p][k] = a, ![p][l] = b ] \in [ Posts -> [ FileKinds -> BOOLEAN ] ]
<1>1. [ disk EXCEPT ![p][k] = a ] \in [ Posts -> [ FileKinds -> BOOLEAN ] ]
  BY OneFileChanges
<1> QED
  BY <1>1

\* The files a commit, a stop and a rollback leave.
LEMMA FileChanges ==
  ASSUME disk \in [ Posts -> [ FileKinds -> BOOLEAN ] ], NEW p \in Posts,
         NEW a \in BOOLEAN, NEW b \in BOOLEAN
  PROVE  /\ [ disk EXCEPT ![p].media = @ /\ ~ a, ![p].caption = @ /\ ~ b ]
              \in [ Posts -> [ FileKinds -> BOOLEAN ] ]
         /\ [ disk EXCEPT ![p].part = @ /\ a ] \in [ Posts -> [ FileKinds -> BOOLEAN ] ]
         /\ [ disk EXCEPT ![p].part = TRUE ] \in [ Posts -> [ FileKinds -> BOOLEAN ] ]
         /\ [ disk EXCEPT ![p].caption = TRUE ] \in [ Posts -> [ FileKinds -> BOOLEAN ] ]
         /\ [ disk EXCEPT ![p].part = FALSE, ![p].media = TRUE ]
              \in [ Posts -> [ FileKinds -> BOOLEAN ] ]
<1>1. "part" \in FileKinds /\ "media" \in FileKinds /\ "caption" \in FileKinds BY DEF FileKinds
<1>2. [ disk EXCEPT ![p].media = disk[p].media /\ ~ a, ![p].caption = disk[p].caption /\ ~ b ]
        \in [ Posts -> [ FileKinds -> BOOLEAN ] ]
  <2>1. (disk[p].media /\ ~ a) \in BOOLEAN /\ (disk[p].caption /\ ~ b) \in BOOLEAN OBVIOUS
  <2> QED BY <1>1, <2>1, TwoFilesChange
<1>3. [ disk EXCEPT ![p].part = disk[p].part /\ a ] \in [ Posts -> [ FileKinds -> BOOLEAN ] ]
  <2>1. (disk[p].part /\ a) \in BOOLEAN OBVIOUS
  <2> QED BY <1>1, <2>1, OneFileChanges
<1>4. [ disk EXCEPT ![p].part = TRUE ] \in [ Posts -> [ FileKinds -> BOOLEAN ] ]
  BY <1>1, OneFileChanges
<1>5. [ disk EXCEPT ![p].caption = TRUE ] \in [ Posts -> [ FileKinds -> BOOLEAN ] ]
  BY <1>1, OneFileChanges
<1>6. [ disk EXCEPT ![p].part = FALSE, ![p].media = TRUE ] \in [ Posts -> [ FileKinds -> BOOLEAN ] ]
  BY <1>1, TwoFilesChange
<1>7. [ disk EXCEPT ![p].media = @ /\ ~ a, ![p].caption = @ /\ ~ b ]
       = [ disk EXCEPT ![p].media = disk[p].media /\ ~ a, ![p].caption = disk[p].caption /\ ~ b ]
  OBVIOUS
<1> QED BY <1>2, <1>3, <1>4, <1>5, <1>6, <1>7

\* A sweep leaves every post its other files.
LEMMA Swept ==
  ASSUME disk \in [ Posts -> [ FileKinds -> BOOLEAN ] ]
  PROVE  [ p \in Posts |-> [ disk[p] EXCEPT !.part = FALSE ] ] \in [ Posts -> [ FileKinds -> BOOLEAN ] ]
<1>1. ASSUME NEW p \in Posts PROVE [ disk[p] EXCEPT !.part = FALSE ] \in [ FileKinds -> BOOLEAN ]
  BY DEF FileKinds
<1> QED BY <1>1

\* One transfer becomes another, one post's files change.
LEMMA TransferReplaced ==
  ASSUME transfers \in [ Tasks -> [ Posts -> Transfer ] ], NEW t \in Tasks, NEW p, NEW x \in Transfer
  PROVE  [ transfers EXCEPT ![t][p] = x ] \in [ Tasks -> [ Posts -> Transfer ] ]
  OBVIOUS

\* An item gets its result.
LEMMA ItemReplaced ==
  ASSUME items \in [ Tasks -> [ Posts -> ItemStatuses ] ], NEW t \in Tasks, NEW p \in Posts,
         NEW r \in { "completed", "skipped", "failed", "retryable" }
  PROVE  /\ Finished(t, p, r) \in [ Tasks -> [ Posts -> ItemStatuses ] ]
         /\ [ items EXCEPT ![t][p] = r ] \in [ Tasks -> [ Posts -> ItemStatuses ] ]
  BY DEF Finished, ItemStatuses

-----------------------------------------------------------------------------
\* Every step keeps the types (code: the enums of the task rows, the items and
\* the result types of the transfers).
LEMMA TypeInductive == ASSUME TypeOK, [Next]_vars PROVE TypeOK'
<1> USE DEF files, history, bounds, NoFault
<1>0. /\ Fault => faults' \in 0 .. MaxFaults
      /\ controls < MaxControls /\ controls' = controls + 1 => controls' \in 0 .. MaxControls
  BY DownloadsAssumption DEF TypeOK, Fault
<1>a. status \in [ Tasks -> Statuses ] BY DEF TypeOK
<1>b. items \in [ Tasks -> [ Posts -> ItemStatuses ] ] BY DEF TypeOK
<1>c. worker \in [ Tasks -> Worker ] BY DEF TypeOK
<1>d. transfers \in [ Tasks -> [ Posts -> Transfer ] ] BY DEF TypeOK
<1>e. disk \in [ Posts -> [ FileKinds -> BOOLEAN ] ] BY DEF TypeOK
<1>f. orphans \subseteq [ task : Tasks, post : Posts, new : BOOLEAN, made : BOOLEAN ] BY DEF TypeOK
<1>1. CASE UNCHANGED vars
  BY <1>1 DEF vars, TypeOK
<1>2. ASSUME NEW t \in Tasks, UserStep(t) PROVE TypeOK'
  <2> USE DEF Control
  <2>1. worker' \in [ Tasks -> Worker ]
    <3>1. [ worker EXCEPT ![t].pc = "waiting" ] \in [ Tasks -> Worker ]
      BY <1>c, WorkerMoves
    <3> QED
      BY <1>2, <1>c, <3>1 DEF UserStep, PauseTask, ResumeTask, CancelTask, RetryTask, SpawnWorker
  <2>2. status' \in [ Tasks -> Statuses ]
    BY <1>2, <1>a DEF UserStep, PauseTask, ResumeTask, CancelTask, RetryTask, Statuses,
                      PauseTarget, CancelTarget
  <2>3. CASE RetryTask(t)
    <3>1. items' \in [ Tasks -> [ Posts -> ItemStatuses ] ]
      BY <2>3, <1>b DEF RetryTask, ItemStatuses
    <3>2. retryable' \in [ Tasks -> BOOLEAN ]
      BY <2>3 DEF RetryTask, TypeOK
    <3> QED BY <1>0, <2>1, <2>2, <2>3, <3>1, <3>2 DEF RetryTask, TypeOK
  <2>4. CASE PauseTask(t)  BY <1>0, <2>1, <2>2, <2>4 DEF PauseTask, TypeOK
  <2>5. CASE ResumeTask(t) BY <1>0, <2>1, <2>2, <2>5 DEF ResumeTask, TypeOK
  <2>6. CASE CancelTask(t) BY <1>0, <2>1, <2>2, <2>6 DEF CancelTask, TypeOK
  <2> QED BY <1>2, <2>3, <2>4, <2>5, <2>6 DEF UserStep
<1>3. ASSUME NEW t \in Tasks, WorkerStep(t) PROVE TypeOK'
  <2> USE DEF WorkerOnly
  <2>1. CASE EnterRoot(t)
    <3>1. worker' \in [ Tasks -> Worker ] BY <1>c, <2>1, WorkerMoves DEF EnterRoot
    <3> QED BY <2>1, <3>1 DEF EnterRoot, TypeOK
  <2>2. CASE StopsWaiting(t)
    <3>1. worker' \in [ Tasks -> Worker ] BY <1>c, <2>2, NoWorkerIsWorker DEF StopsWaiting
    <3> QED BY <2>2, <3>1 DEF StopsWaiting, TypeOK
  <2>3. CASE StartBody(t)
    <3>1. status' \in [ Tasks -> Statuses ] BY <1>a, <2>3 DEF StartBody, Statuses
    <3>2. worker' \in [ Tasks -> Worker ]
      <4>1. CASE status[t] = "queued"
        <5> DEFINE w == [ pc |-> "body", outcome |-> "none", downloaded |-> Counts(t).downloaded,
                          failed |-> Counts(t).failed,
                          todo |-> { i \in DOMAIN PostIds[t] : items[t][PostIds[t][i]] = "queued" } ]
        <5>1. w \in Worker BY CountsAreNumbers, PositionsAreNumbers, WorkerBegins
        <5>2. worker' = [ worker EXCEPT ![t] = w ] BY <2>3, <4>1 DEF StartBody
        <5> QED BY <1>c, <5>1, <5>2
      <4>2. CASE status[t] # "queued"
        <5>1. worker' = [ worker EXCEPT ![t].pc = "ended", ![t].outcome = "stopped" ]
          BY <2>3, <4>2 DEF StartBody
        <5>2. [ worker[t] EXCEPT !.pc = "ended", !.outcome = "stopped" ] \in Worker
          BY <1>c, WorkerEnds
        <5> QED BY <1>c, <5>1, <5>2
      <4> QED BY <4>1, <4>2
    <3> QED BY <2>3, <3>1, <3>2 DEF StartBody, TypeOK
  <2>4. CASE SpawnTransfer(t)
    <3>1. PICK i \in worker[t].todo :
            /\ transfers' = [ transfers EXCEPT ![t][PostIds[t][i]].pc = "asking" ]
            /\ worker' = [ worker EXCEPT ![t].todo = @ \ { i } ]
      BY <2>4 DEF SpawnTransfer
    <3>2. worker' \in [ Tasks -> Worker ] BY <1>c, <3>1, WorkerGoesOn
    <3>3. transfers' \in [ Tasks -> [ Posts -> Transfer ] ]
      <4> DEFINE q == PostIds[t][i]
      <4>1. CASE q \in Posts
        BY <1>d, <3>1, <4>1, TransferMoves
      <4>2. CASE q \notin Posts
        <5>1. [ transfers[t] EXCEPT ![q].pc = "asking" ] = transfers[t] BY <1>d, <4>2
        <5> QED BY <1>d, <3>1, <5>1
      <4> QED BY <4>1, <4>2
    <3> QED BY <2>4, <3>2, <3>3 DEF SpawnTransfer, TypeOK
  <2>5. CASE EndBody(t)
    <3>1. worker[t].failed \in { "none", "failed", "retryable" } BY <1>c DEF Worker
    <3>2. Verdict(t) \in { "stopped", "complete", "failed", "retryable" } BY <3>1 DEF Verdict
    <3>3. worker' \in [ Tasks -> Worker ] BY <1>c, <2>5, <3>2, WorkerEnds DEF EndBody
    <3> QED BY <2>5, <3>3 DEF EndBody, TypeOK
  <2>6. ASSUME NEW p \in Posts, JoinTransfer(t, p) PROVE TypeOK'
    <3>1. CASE AbortAll(t) /\ UNCHANGED status
      <4>1. worker' \in [ Tasks -> Worker ] BY <1>c, <3>1, WorkerEnds DEF AbortAll
      <4>2. transfers' \in [ Tasks -> [ Posts -> Transfer ] ] BY <1>d, <3>1, IdleIsTyped DEF AbortAll
      <4>3. orphans' \subseteq [ task : Tasks, post : Posts, new : BOOLEAN, made : BOOLEAN ]
        BY <1>d, <1>f, <3>1, OrphansAreTyped DEF AbortAll
      <4> QED BY <2>6, <3>1, <4>1, <4>2, <4>3 DEF JoinTransfer, AbortAll, TypeOK
    <3>2. CASE ~ (AbortAll(t) /\ UNCHANGED status)
      <4>1. /\ transfers' = [ transfers EXCEPT ![t][p] = NoTransfer ]
            /\ UNCHANGED << orphans, cut >>
        BY <2>6, <3>2 DEF JoinTransfer
      <4>2. transfers' \in [ Tasks -> [ Posts -> Transfer ] ]
        BY <1>d, <4>1, TransferEnds, TransferReplaced
      <4>3. status' \in [ Tasks -> Statuses ] BY <1>a, <2>6, <3>2 DEF JoinTransfer, Statuses
      <4>4. worker' \in [ Tasks -> Worker ]
        <5>1. [ worker EXCEPT ![t].downloaded = @ + 1 ] \in [ Tasks -> Worker ]
          BY <1>c, WorkerCounts
        <5>2. ASSUME NEW f \in { "failed", "retryable" }
              PROVE  [ worker EXCEPT ![t].failed = f ] \in [ Tasks -> Worker ]
          BY <1>c, WorkerCounts
        <5> QED BY <1>c, <2>6, <3>2, <5>1, <5>2 DEF JoinTransfer
      <4> QED BY <2>6, <4>1, <4>2, <4>3, <4>4 DEF JoinTransfer, TypeOK
    <3> QED BY <3>1, <3>2
  <2>7. CASE Settle(t)
    <3>1. worker' \in [ Tasks -> Worker ] BY <1>c, <2>7, WorkerMoves DEF Settle
    <3>2. Settled(t) \in Statuses BY <1>a DEF Settled, AckTarget, Statuses
    <3>3. status' \in [ Tasks -> Statuses ] BY <1>a, <2>7, <3>2 DEF Settle
    <3>4. retryable' \in [ Tasks -> BOOLEAN ] BY <2>7 DEF Settle, TypeOK
    <3> QED BY <2>7, <3>1, <3>3, <3>4 DEF Settle, TypeOK
  <2>8. CASE SweepParts(t)
    <3>1. worker' \in [ Tasks -> Worker ] BY <1>c, <2>8, WorkerMoves DEF SweepParts
    <3>2. disk' \in [ Posts -> [ FileKinds -> BOOLEAN ] ] BY <1>e, <2>8, Swept DEF SweepParts
    <3> QED BY <2>8, <3>1, <3>2 DEF SweepParts, TypeOK
  <2>9. CASE Leave(t)
    <3>1. worker' \in [ Tasks -> Worker ] BY <1>c, <2>9, NoWorkerIsWorker DEF Leave
    <3> QED BY <2>9, <3>1 DEF Leave, TypeOK
  <2> QED BY <1>3, <2>1, <2>2, <2>3, <2>4, <2>5, <2>6, <2>7, <2>8, <2>9 DEF WorkerStep
<1>4. ASSUME NEW t \in Tasks, NEW p \in Posts, TransferStep(t, p) \/ TransferFault(t, p)
      PROVE TypeOK'
  <2> USE DEF TransferOnly
  <2>a. ASSUME NEW r \in { "downloaded", "skipped", "stopped", "failed", "retryable" }, Done(t, p, r)
        PROVE  transfers' \in [ Tasks -> [ Posts -> Transfer ] ]
    <3>1. [ NoTransfer EXCEPT !.pc = "done", !.result = r ] \in Transfer BY TransferEnds
    <3>2. transfers' = [ transfers EXCEPT ![t][p] = [ NoTransfer EXCEPT !.pc = "done", !.result = r ] ]
      BY <2>a DEF Done
    <3> QED BY <1>d, <3>1, <3>2, TransferReplaced
  <2>b. \A r \in { "completed", "skipped", "failed", "retryable" } :
          items' = Finished(t, p, r) => items' \in [ Tasks -> [ Posts -> ItemStatuses ] ]
    BY <1>b, ItemReplaced
  <2>1. CASE NoticeStop(t, p) BY <2>1, <2>a DEF NoticeStop, TypeOK
  <2>2. CASE SkipPost(t, p)   BY <2>2, <2>a, <2>b DEF SkipPost, TypeOK
  <2>3. CASE TakeFile(t, p)
    <3>1. transfers' \in [ Tasks -> [ Posts -> Transfer ] ]
      BY <1>d, <2>3, TransferMoves, TransferReplaced DEF TakeFile
    <3> QED BY <2>3, <3>1 DEF TakeFile, TypeOK
  <2>4. CASE OpenPart(t, p)
    <3>1. transfers' \in [ Tasks -> [ Posts -> Transfer ] ]
      BY <1>d, <2>4, TransferMoves, TransferReplaced DEF OpenPart
    <3>2. disk' \in [ Posts -> [ FileKinds -> BOOLEAN ] ]
      BY <1>e, <2>4, FileChanges DEF OpenPart
    <3> QED BY <2>4, <3>1, <3>2 DEF OpenPart, TypeOK
  <2>5. CASE StopTransfer(t, p)
    <3>1. disk' \in [ Posts -> [ FileKinds -> BOOLEAN ] ]
      BY <1>e, <2>5, FileChanges DEF StopTransfer
    <3> QED BY <2>5, <2>a, <3>1 DEF StopTransfer, TypeOK
  <2>6. CASE CommitPart(t, p)
    <3>1. transfers' \in [ Tasks -> [ Posts -> Transfer ] ]
      BY <1>d, <2>6, TransferMoves, TransferReplaced DEF CommitPart
    <3>2. disk' \in [ Posts -> [ FileKinds -> BOOLEAN ] ]
      BY <1>e, <2>6, FileChanges DEF CommitPart
    <3> QED BY <2>6, <3>1, <3>2 DEF CommitPart, TypeOK
  <2>7. CASE WriteCaption(t, p)
    <3>1. transfers' \in [ Tasks -> [ Posts -> Transfer ] ]
      BY <1>d, <2>7, TransferMakes, TransferReplaced DEF WriteCaption
    <3>2. disk' \in [ Posts -> [ FileKinds -> BOOLEAN ] ]
      BY <1>e, <2>7, FileChanges DEF WriteCaption
    <3> QED BY <2>7, <3>1, <3>2 DEF WriteCaption, TypeOK
  <2>8. CASE Register(t, p)
    <3> DEFINE x == transfers[t][p]
    <3>1. x.new \in BOOLEAN /\ x.made \in BOOLEAN BY <1>d, TransferSays
    <3>2. CASE Registered(t, p, x.new) /\ Done(t, p, IF x.new THEN "downloaded" ELSE "skipped") /\ NoFault
      <4>1. items' \in [ Tasks -> [ Posts -> ItemStatuses ] ]
        BY <1>b, <3>2, ItemReplaced DEF Registered
      <4>2. located' \in [ Posts -> BOOLEAN ] BY <3>2 DEF Registered, TypeOK
      <4>3. transfers' \in [ Tasks -> [ Posts -> Transfer ] ] BY <2>a, <3>2
      <4> QED BY <2>8, <3>2, <4>1, <4>2, <4>3 DEF Register, Registered, TypeOK
    <3>3. CASE RolledBack(t, p, x.new, x.made) /\ Done(t, p, "failed")
                 /\ (IF items[t][p] = "queued" THEN Fault ELSE NoFault)
      <4>1. disk' \in [ Posts -> [ FileKinds -> BOOLEAN ] ]
        BY <1>e, <3>1, <3>3, FileChanges DEF RolledBack
      <4>2. items' \in [ Tasks -> [ Posts -> ItemStatuses ] ] BY <2>b, <3>3 DEF RolledBack
      <4>3. transfers' \in [ Tasks -> [ Posts -> Transfer ] ] BY <2>a, <3>3
      <4> QED BY <1>0, <2>8, <3>3, <4>1, <4>2, <4>3 DEF Register, RolledBack, TypeOK
    <3> QED BY <2>8, <3>2, <3>3 DEF Register
  <2>9. CASE AskFails(t, p)
    BY <1>0, <2>9, <2>a, <2>b DEF AskFails, TypeOK
  <2>10. CASE TransferFails(t, p)
    <3>1. disk' \in [ Posts -> [ FileKinds -> BOOLEAN ] ]
      <4>1. PICK kept \in BOOLEAN : disk' = [ disk EXCEPT ![p].part = @ /\ kept ]
        BY <2>10 DEF TransferFails
      <4>2. [ disk EXCEPT ![p].part = @ /\ kept ] \in [ Posts -> [ FileKinds -> BOOLEAN ] ]
        BY <1>e, FileChanges
      <4> QED BY <4>1, <4>2
    <3> QED BY <1>0, <2>10, <2>a, <2>b, <3>1 DEF TransferFails, TypeOK
  <2>11. CASE CaptionFails(t, p)
    <3>1. disk' \in [ Posts -> [ FileKinds -> BOOLEAN ] ]
      BY <1>e, <2>11, FileChanges DEF CaptionFails
    <3> QED BY <1>0, <2>11, <2>a, <2>b, <3>1 DEF CaptionFails, TypeOK
  <2> QED BY <1>4, <2>1, <2>2, <2>3, <2>4, <2>5, <2>6, <2>7, <2>8, <2>9, <2>10, <2>11
          DEF TransferStep, TransferFault
<1>5. ASSUME NEW x \in orphans, RegisterOrphan(x) PROVE TypeOK'
  <2>1. x.task \in Tasks /\ x.post \in Posts /\ x.new \in BOOLEAN /\ x.made \in BOOLEAN
    BY <1>f
  <2>2. late' \subseteq Tasks \X Posts
    BY <1>5, <2>1 DEF RegisterOrphan, TypeOK
  <2>3. CASE Registered(x.task, x.post, x.new) /\ UNCHANGED undone /\ NoFault
    <3>1. items' \in [ Tasks -> [ Posts -> ItemStatuses ] ]
      BY <1>b, <2>1, <2>3, ItemReplaced DEF Registered
    <3>2. located' \in [ Posts -> BOOLEAN ] BY <2>1, <2>3 DEF Registered, TypeOK
    <3> QED BY <1>5, <2>2, <2>3, <3>1, <3>2 DEF RegisterOrphan, Registered, TypeOK
  <2>4. CASE /\ RolledBack(x.task, x.post, x.new, x.made)
             /\ undone' = (IF x.new THEN undone \cup { x.post } ELSE undone)
             /\ IF items[x.task][x.post] = "queued" THEN Fault ELSE NoFault
    <3>1. disk' \in [ Posts -> [ FileKinds -> BOOLEAN ] ]
      BY <1>e, <2>1, <2>4, FileChanges DEF RolledBack
    <3>2. items' \in [ Tasks -> [ Posts -> ItemStatuses ] ]
      BY <1>b, <2>1, <2>4, ItemReplaced DEF RolledBack
    <3>3. undone' \subseteq Posts BY <2>1, <2>4 DEF TypeOK
    <3> QED BY <1>0, <1>5, <2>2, <2>4, <3>1, <3>2, <3>3 DEF RegisterOrphan, RolledBack, TypeOK
  <2> QED BY <1>5, <2>3, <2>4 DEF RegisterOrphan
<1>6. CASE Crash
  <2>1. ASSUME NEW t \in Tasks PROVE RecoveredStatus(status[t], TRUE) \in Statuses
    BY <1>a DEF RecoveredStatus, Statuses
  <2>2. status' \in [ Tasks -> Statuses ] BY <1>6, <2>1 DEF Crash
  <2>3. worker' \in [ Tasks -> Worker ] BY <1>6, NoWorkerIsWorker DEF Crash
  <2>4. transfers' \in [ Tasks -> [ Posts -> Transfer ] ] BY <1>6, IdleIsTyped DEF Crash
  <2> QED BY <1>0, <1>6, <2>2, <2>3, <2>4 DEF Crash, TypeOK
<1> QED
  BY <1>1, <1>2, <1>3, <1>4, <1>5, <1>6 DEF Next
-----------------------------------------------------------------------------
(* The inductive invariant, in three layers.                                *)

Inside == { "ready", "body", "ended", "settled", "leaving" }

\* Past the wait for the root a worker has it, and only a body has transfers.
RootHeld ==
  /\ \A t \in Tasks : worker[t].pc \in Inside => root = t
  /\ \A t \in Tasks, p \in Posts : transfers[t][p].pc # "none" => worker[t].pc = "body"

\* What is yet to be fetched has no transfer.
TodoFresh ==
  \A t \in Tasks : \A i \in worker[t].todo :
    i \in DOMAIN PostIds[t] /\ transfers[t][PostIds[t][i]].pc = "none"

\* Only a transfer that is registering has made a file.
NewRegisters ==
  \A t \in Tasks, p \in Posts : transfers[t][p].new => transfers[t][p].pc = "registering"

RootInv == RootHeld /\ TodoFresh /\ NewRegisters

\* The transfer makes the media file of the post, or has made it.
Making(t, p) ==
  \/ At(t, p, "writing") \/ At(t, p, "renamed")
  \/ At(t, p, "registering") /\ transfers[t][p].new

\* A post has one maker at a time, orphans included.
MakerInv ==
  /\ PartsStay
  /\ \A t \in Tasks, p \in Posts :
       At(t, p, "registering") /\ transfers[t][p].new => disk[p].media
  /\ \A x \in orphans : x.new =>
       disk[x.post].media /\ \A t \in Tasks : ~ Making(t, x.post)
  /\ \A x, y \in orphans : x.new /\ y.new /\ x.post = y.post => x = y

\* What is registered has its files; what registers, too; a post that is being
\* made is not registered, unless that was undone.
WholeInv ==
  /\ \A p \in Posts : located[p] => disk[p].media \/ p \in undone
  /\ \A t \in Tasks, p \in Posts : At(t, p, "registering") => disk[p].media \/ p \in undone
  /\ \A x \in orphans : disk[x.post].media \/ x.post \in undone
  /\ \A t \in Tasks, p \in Posts :
       Making(t, p) /\ (located[p] \/ \E x \in orphans : x.post = p) => p \in undone

CaptionInv ==
  /\ \A t \in Tasks, p \in Posts : transfers[t][p].made => transfers[t][p].new
  /\ \A x \in orphans : x.made => x.new
  /\ \A p \in Posts : disk[p].media =>
       disk[p].caption \/ p \in cut \/ \E t \in Tasks : At(t, p, "renamed")
  /\ \A p \in Posts : located[p] => disk[p].caption \/ p \in cut \cup undone
-----------------------------------------------------------------------------
\* A position stands for a post, and no other position does.
LEMMA PostsOfPositions ==
  ASSUME NEW t \in Tasks, NEW i \in DOMAIN PostIds[t]
  PROVE  /\ PostIds[t][i] \in Posts
         /\ \A j \in DOMAIN PostIds[t] : PostIds[t][i] = PostIds[t][j] => i = j
<1>1. PostIds[t] \in Seq(Posts) /\ IsInjective(PostIds[t]) BY DownloadsAssumption
<1> QED BY <1>1 DEF IsInjective

\* A transfer's step moves that transfer on, and nothing of its worker.
LEMMA TransferStepMovesOne ==
  ASSUME TypeOK, NewRegisters, NEW t \in Tasks, NEW p \in Posts,
         TransferStep(t, p) \/ TransferFault(t, p)
  PROVE  /\ transfers[t][p].pc # "none"
         /\ UNCHANGED << worker, root, orphans, undone >>
         /\ \E x \in Transfer :
              /\ transfers' = [ transfers EXCEPT ![t][p] = x ]
              /\ x.pc # "none"
              /\ x.new => x.pc = "registering"
<1> USE DEF TransferOnly, At
<1>a. transfers[t][p] \in Transfer BY DEF TypeOK
<1>b. transfers[t][p].new => transfers[t][p].pc = "registering" BY DEF NewRegisters
<1>1. ASSUME NEW r \in { "downloaded", "skipped", "stopped", "failed", "retryable" }, Done(t, p, r)
      PROVE  \E x \in Transfer :
               /\ transfers' = [ transfers EXCEPT ![t][p] = x ]
               /\ x.pc # "none"
               /\ x.new => x.pc = "registering"
  <2> DEFINE x == [ NoTransfer EXCEPT !.pc = "done", !.result = r ]
  <2>1. x \in Transfer BY TransferEnds
  <2>2. x.pc = "done" /\ x.new = FALSE BY DEF NoTransfer
  <2>3. transfers' = [ transfers EXCEPT ![t][p] = x ] BY <1>1 DEF Done
  <2> QED BY <2>1, <2>2, <2>3
<1>2. CASE NoticeStop(t, p) BY <1>1, <1>2 DEF NoticeStop
<1>3. CASE SkipPost(t, p) BY <1>1, <1>3 DEF SkipPost
<1>4. CASE TakeFile(t, p)
  <2>1. [ transfers[t][p] EXCEPT !.pc = "registering" ] \in Transfer BY <1>a, TransferMoves
  <2>2. [ transfers[t][p] EXCEPT !.pc = "registering" ].pc = "registering" BY <1>a DEF Transfer
  <2>3. transfers' = [ transfers EXCEPT ![t][p] = [ transfers[t][p] EXCEPT !.pc = "registering" ] ]
    BY <1>4 DEF TakeFile
  <2> QED BY <1>4, <2>1, <2>2, <2>3 DEF TakeFile
<1>5. CASE OpenPart(t, p)
  <2> DEFINE x == [ transfers[t][p] EXCEPT !.pc = "writing" ]
  <2>1. x \in Transfer BY <1>a, TransferMoves
  <2>2. x.pc = "writing" /\ x.new = transfers[t][p].new BY <1>a DEF Transfer
  <2>3. transfers' = [ transfers EXCEPT ![t][p] = x ] BY <1>5 DEF OpenPart, TypeOK
  <2> QED BY <1>5, <1>b, <2>1, <2>2, <2>3 DEF OpenPart
<1>6. CASE StopTransfer(t, p) BY <1>1, <1>6 DEF StopTransfer
<1>7. CASE CommitPart(t, p)
  <2> DEFINE x == [ transfers[t][p] EXCEPT !.pc = "renamed" ]
  <2>1. x \in Transfer BY <1>a, TransferMoves
  <2>2. x.pc = "renamed" /\ x.new = transfers[t][p].new BY <1>a DEF Transfer
  <2>3. transfers' = [ transfers EXCEPT ![t][p] = x ] BY <1>7 DEF CommitPart, TypeOK
  <2> QED BY <1>7, <1>b, <2>1, <2>2, <2>3 DEF CommitPart
<1>8. CASE WriteCaption(t, p)
  <2> DEFINE b == ~ disk[p].caption
             x == [ transfers[t][p] EXCEPT !.pc = "registering", !.new = TRUE, !.made = b ]
  <2>0. b \in BOOLEAN OBVIOUS
  <2>1. x \in Transfer BY <1>a, <2>0, TransferMakes
  <2>2. x.pc = "registering" BY <1>a DEF Transfer
  <2>3. transfers' = [ transfers EXCEPT ![t][p] = x ] BY <1>8 DEF WriteCaption, TypeOK
  <2> QED BY <1>8, <2>1, <2>2, <2>3 DEF WriteCaption
<1>9. CASE Register(t, p)
  <2>1. \E r \in { "downloaded", "skipped", "failed" } : Done(t, p, r) BY <1>9 DEF Register
  <2> QED BY <1>1, <1>9, <2>1 DEF Register
<1>10. CASE AskFails(t, p) BY <1>1, <1>10 DEF AskFails
<1>11. CASE TransferFails(t, p) BY <1>1, <1>11 DEF TransferFails
<1>12. CASE CaptionFails(t, p) BY <1>1, <1>12 DEF CaptionFails
<1> QED
  BY <1>2, <1>3, <1>4, <1>5, <1>6, <1>7, <1>8, <1>9, <1>10, <1>11, <1>12 DEF TransferStep, TransferFault

\* One task at a time has transfers.
LEMMA OneTaskTransfers ==
  ASSUME RootHeld, NEW t \in Tasks, NEW p \in Posts, NEW u \in Tasks, NEW q \in Posts,
         transfers[t][p].pc # "none", transfers[u][q].pc # "none"
  PROVE  t = u
  BY DEF RootHeld, Inside

\* Every step keeps RootHeld: a worker leaves the root only when it is through.
LEMMA RootHeldInductive == ASSUME TypeOK, RootInv, [Next]_vars PROVE RootHeld'
<1> USE DEF Inside, files, history, bounds
<1>a. worker \in [ Tasks -> Worker ] BY DEF TypeOK
<1>b. transfers \in [ Tasks -> [ Posts -> Transfer ] ] BY DEF TypeOK
<1>c. root \in Tasks \cup { NoTask } /\ NoTask \notin Tasks BY DownloadsAssumption DEF TypeOK
<1>d. RootHeld BY DEF RootInv
<1>1. CASE UNCHANGED vars BY <1>1, <1>d DEF vars, RootHeld
<1>2. ASSUME NEW t \in Tasks, UserStep(t) PROVE RootHeld'
  <2>1. UNCHANGED << root, transfers >>
    BY <1>2 DEF UserStep, PauseTask, ResumeTask, CancelTask, RetryTask, Control
  <2>2. \/ worker' = worker
        \/ worker[t].pc = "none" /\ worker' = [ worker EXCEPT ![t].pc = "waiting" ]
    <3>1. CASE PauseTask(t)  BY <3>1 DEF PauseTask
    <3>2. CASE ResumeTask(t) BY <3>2 DEF ResumeTask, SpawnWorker
    <3>3. CASE CancelTask(t) BY <3>3 DEF CancelTask
    <3>4. CASE RetryTask(t)  BY <3>4 DEF RetryTask, SpawnWorker
    <3> QED BY <1>2, <3>1, <3>2, <3>3, <3>4 DEF UserStep
  <2> QED BY <1>a, <1>d, <2>1, <2>2 DEF RootHeld, Worker
<1>3. ASSUME NEW t \in Tasks, WorkerStep(t) PROVE RootHeld'
  <2> USE DEF WorkerOnly
  <2>1. CASE EnterRoot(t) BY <1>a, <1>c, <1>d, <2>1 DEF EnterRoot, RootHeld, Worker
  <2>2. CASE StopsWaiting(t) BY <1>a, <1>d, <2>2 DEF StopsWaiting, RootHeld, Worker, NoWorker
  <2>3. CASE StartBody(t)
    <3>1. UNCHANGED << root, transfers >> /\ worker[t].pc = "ready" BY <2>3 DEF StartBody
    <3>2. worker'[t].pc \in { "body", "ended" } /\ \A u \in Tasks \ { t } : worker'[u] = worker[u]
      BY <1>a, <2>3 DEF StartBody, Worker
    <3> QED BY <1>d, <3>1, <3>2 DEF RootHeld
  <2>4. CASE SpawnTransfer(t)
    <3>1. PICK i \in worker[t].todo :
            /\ transfers' = [ transfers EXCEPT ![t][PostIds[t][i]].pc = "asking" ]
            /\ worker' = [ worker EXCEPT ![t].todo = @ \ { i } ]
      BY <2>4 DEF SpawnTransfer
    <3>2. \A u \in Tasks : worker'[u].pc = worker[u].pc BY <1>a, <3>1 DEF Worker
    <3>3. \A u \in Tasks \ { t } : transfers'[u] = transfers[u] BY <1>b, <3>1
    <3> QED BY <1>d, <2>4, <3>2, <3>3 DEF RootHeld, SpawnTransfer
  <2>5. CASE EndBody(t)
    <3>1. \A p \in Posts : transfers[t][p].pc = "none" BY <2>5 DEF EndBody, Busy
    <3>2. worker'[t].pc = "ended" /\ \A u \in Tasks \ { t } : worker'[u] = worker[u]
      BY <1>a, <2>5 DEF EndBody, Worker
    <3>3. UNCHANGED << root, transfers >> /\ worker[t].pc = "body" BY <2>5 DEF EndBody
    <3> QED BY <1>d, <3>1, <3>2, <3>3 DEF RootHeld
  <2>6. ASSUME NEW p \in Posts, JoinTransfer(t, p) PROVE RootHeld'
    <3>1. worker[t].pc = "body" /\ root' = root BY <2>6 DEF JoinTransfer
    <3>2. CASE AbortAll(t)
      <4>1. worker'[t].pc = "ended" /\ \A u \in Tasks \ { t } : worker'[u] = worker[u]
        BY <1>a, <3>2 DEF AbortAll, Worker
      <4>2. /\ \A q \in Posts : transfers'[t][q].pc = "none"
            /\ \A u \in Tasks \ { t } : transfers'[u] = transfers[u]
        BY <1>b, <3>2 DEF AbortAll, Idle, NoTransfer
      <4> QED BY <1>d, <3>1, <4>1, <4>2 DEF RootHeld
    <3>3. CASE ~ AbortAll(t)
      <4>1. transfers' = [ transfers EXCEPT ![t][p] = NoTransfer ] BY <2>6, <3>3 DEF JoinTransfer
      <4>2. \A u \in Tasks : worker'[u].pc = worker[u].pc
        BY <1>a, <2>6, <3>3 DEF JoinTransfer, Worker
      <4> QED BY <1>b, <1>d, <3>1, <4>1, <4>2 DEF RootHeld, NoTransfer
    <3> QED BY <3>2, <3>3
  <2>7. CASE Settle(t) BY <1>a, <1>d, <2>7 DEF Settle, RootHeld, Worker
  <2>8. CASE SweepParts(t) BY <1>a, <1>d, <2>8 DEF SweepParts, RootHeld, Worker
  <2>9. CASE Leave(t)
    <3>1. root = t /\ UNCHANGED transfers /\ worker[t].pc = "leaving"
      BY <1>d, <2>9 DEF Leave, RootHeld
    <3>2. worker'[t].pc \in { "none", "waiting" } /\ \A u \in Tasks \ { t } : worker'[u] = worker[u]
      BY <1>a, <2>9 DEF Leave, Worker, NoWorker
    <3> QED BY <1>d, <3>1, <3>2 DEF RootHeld
  <2> QED BY <1>3, <2>1, <2>2, <2>3, <2>4, <2>5, <2>6, <2>7, <2>8, <2>9 DEF WorkerStep
<1>4. ASSUME NEW t \in Tasks, NEW p \in Posts, TransferStep(t, p) \/ TransferFault(t, p)
      PROVE  RootHeld'
  BY <1>4, <1>b, <1>d, TransferStepMovesOne DEF RootHeld, RootInv
<1>5. ASSUME NEW x \in orphans, RegisterOrphan(x) PROVE RootHeld'
  BY <1>5, <1>d DEF RegisterOrphan, RootHeld
<1>6. CASE Crash
  BY <1>6 DEF Crash, RootHeld, NoWorker, Idle, NoTransfer
<1> QED
  BY <1>1, <1>2, <1>3, <1>4, <1>5, <1>6 DEF Next

\* Every step keeps TodoFresh: a post is spawned once in a run.
LEMMA TodoFreshInductive == ASSUME TypeOK, RootInv, [Next]_vars PROVE TodoFresh'
<1> USE DEF files, history, bounds
<1>a. worker \in [ Tasks -> Worker ] BY DEF TypeOK
<1>b. transfers \in [ Tasks -> [ Posts -> Transfer ] ] BY DEF TypeOK
<1>c. RootHeld /\ TodoFresh BY DEF RootInv
\* A step that spares the positions and frees transfers, or leaves them alone.
<1>d. ASSUME \A t \in Tasks : worker'[t].todo \subseteq worker[t].todo,
             \A t \in Tasks, p \in Posts :
               transfers'[t][p] = transfers[t][p] \/ transfers'[t][p].pc = "none"
      PROVE  TodoFresh'
  BY <1>c, <1>d, PostsOfPositions DEF TodoFresh
<1>1. CASE UNCHANGED vars BY <1>1, <1>c DEF vars, TodoFresh
<1>2. ASSUME NEW t \in Tasks, UserStep(t) PROVE TodoFresh'
  <2>1. transfers' = transfers
    BY <1>2 DEF UserStep, PauseTask, ResumeTask, CancelTask, RetryTask, Control
  <2>2. worker' = worker \/ worker' = [ worker EXCEPT ![t].pc = "waiting" ]
    <3>1. CASE PauseTask(t)  BY <3>1 DEF PauseTask
    <3>2. CASE ResumeTask(t) BY <3>2 DEF ResumeTask, SpawnWorker
    <3>3. CASE CancelTask(t) BY <3>3 DEF CancelTask
    <3>4. CASE RetryTask(t)  BY <3>4 DEF RetryTask, SpawnWorker
    <3> QED BY <1>2, <3>1, <3>2, <3>3, <3>4 DEF UserStep
  <2>3. \A u \in Tasks : worker'[u].todo = worker[u].todo BY <1>a, <2>2 DEF Worker
  <2> QED BY <1>d, <2>1, <2>3
<1>3. ASSUME NEW t \in Tasks, WorkerStep(t) PROVE TodoFresh'
  <2> USE DEF WorkerOnly
  <2>1. CASE EnterRoot(t) \/ Settle(t) \/ SweepParts(t) \/ EndBody(t)
    <3>1. transfers' = transfers BY <2>1 DEF EnterRoot, Settle, SweepParts, EndBody
    <3>2. \A u \in Tasks : worker'[u].todo = worker[u].todo
      BY <1>a, <2>1 DEF EnterRoot, Settle, SweepParts, EndBody, Worker
    <3> QED BY <1>d, <3>1, <3>2
  <2>2. CASE StopsWaiting(t) \/ Leave(t)
    <3>1. transfers' = transfers BY <2>2 DEF StopsWaiting, Leave
    <3>2. \A u \in Tasks : worker'[u].todo \subseteq worker[u].todo
      BY <1>a, <2>2 DEF StopsWaiting, Leave, NoWorker
    <3> QED BY <1>d, <3>1, <3>2
  <2>3. CASE StartBody(t)
    <3>1. transfers' = transfers /\ worker[t].pc = "ready" BY <2>3 DEF StartBody
    <3>2. \A p \in Posts : transfers[t][p].pc = "none" BY <1>c, <3>1 DEF RootHeld
    <3>3. \A u \in Tasks \ { t } : worker'[u] = worker[u] BY <1>a, <2>3 DEF StartBody
    <3>4. worker'[t].todo \subseteq worker[t].todo \cup DOMAIN PostIds[t]
      <4>1. CASE status[t] = "queued"
        <5>1. worker'[t].todo = { i \in DOMAIN PostIds[t] : items[t][PostIds[t][i]] = "queued" }
          BY <1>a, <2>3, <4>1 DEF StartBody
        <5> QED BY <5>1
      <4>2. CASE status[t] # "queued"
        <5>1. worker'[t].todo = worker[t].todo BY <1>a, <2>3, <4>2 DEF StartBody, Worker
        <5> QED BY <5>1
      <4> QED BY <4>1, <4>2
    <3>5. \A i \in worker'[t].todo : i \in DOMAIN PostIds[t] BY <1>c, <3>4 DEF TodoFresh
    <3>6. \A i \in worker'[t].todo : transfers[t][PostIds[t][i]].pc = "none"
      BY <3>2, <3>5, PostsOfPositions
    <3> QED BY <1>c, <3>1, <3>3, <3>5, <3>6 DEF TodoFresh
  <2>4. CASE SpawnTransfer(t)
    <3>1. PICK i \in worker[t].todo :
            /\ transfers' = [ transfers EXCEPT ![t][PostIds[t][i]].pc = "asking" ]
            /\ worker' = [ worker EXCEPT ![t].todo = @ \ { i } ]
      BY <2>4 DEF SpawnTransfer
    <3>2. worker'[t].todo = worker[t].todo \ { i } /\ \A u \in Tasks \ { t } : worker'[u] = worker[u]
      BY <1>a, <3>1 DEF Worker
    <3>3. \A u \in Tasks \ { t } : transfers'[u] = transfers[u] BY <1>b, <3>1
    <3>4. ASSUME NEW j \in worker'[t].todo
          PROVE  j \in DOMAIN PostIds[t] /\ transfers'[t][PostIds[t][j]].pc = "none"
      <4>1. /\ j \in DOMAIN PostIds[t] /\ transfers[t][PostIds[t][j]].pc = "none"
            /\ i \in DOMAIN PostIds[t] /\ i # j
        BY <1>c, <3>2 DEF TodoFresh
      <4>2. PostIds[t][i] # PostIds[t][j] /\ PostIds[t][j] \in Posts BY <4>1, PostsOfPositions
      <4>3. transfers'[t][PostIds[t][j]] = transfers[t][PostIds[t][j]] BY <1>b, <3>1, <4>2
      <4> QED BY <4>1, <4>3
    <3> QED BY <1>c, <3>2, <3>3, <3>4 DEF TodoFresh
  <2>5. ASSUME NEW p \in Posts, JoinTransfer(t, p) PROVE TodoFresh'
    <3>1. CASE AbortAll(t)
      <4>1. \A u \in Tasks : worker'[u].todo = worker[u].todo BY <1>a, <3>1 DEF AbortAll, Worker
      <4>2. \A u \in Tasks, q \in Posts :
              transfers'[u][q] = transfers[u][q] \/ transfers'[u][q].pc = "none"
        BY <1>b, <3>1 DEF AbortAll, Idle, NoTransfer
      <4> QED BY <1>d, <4>1, <4>2
    <3>2. CASE ~ AbortAll(t)
      <4>1. transfers' = [ transfers EXCEPT ![t][p] = NoTransfer ] BY <2>5, <3>2 DEF JoinTransfer
      <4>2. \A u \in Tasks : worker'[u].todo = worker[u].todo
        BY <1>a, <2>5, <3>2 DEF JoinTransfer, Worker
      <4>3. \A u \in Tasks, q \in Posts :
              transfers'[u][q] = transfers[u][q] \/ transfers'[u][q].pc = "none"
        BY <1>b, <4>1 DEF NoTransfer
      <4> QED BY <1>d, <4>2, <4>3
    <3> QED BY <3>1, <3>2
  <2> QED BY <1>3, <2>1, <2>2, <2>3, <2>4, <2>5 DEF WorkerStep
<1>4. ASSUME NEW t \in Tasks, NEW p \in Posts, TransferStep(t, p) \/ TransferFault(t, p)
      PROVE  TodoFresh'
  <2>1. /\ transfers[t][p].pc # "none" /\ worker' = worker
        /\ \A u \in Tasks, q \in Posts : (u # t \/ q # p) => transfers'[u][q] = transfers[u][q]
    BY <1>4, <1>b, TransferStepMovesOne DEF RootInv
  <2> QED BY <1>c, <2>1, PostsOfPositions DEF TodoFresh
<1>5. ASSUME NEW x \in orphans, RegisterOrphan(x) PROVE TodoFresh'
  BY <1>5, <1>c DEF RegisterOrphan, TodoFresh
<1>6. CASE Crash
  BY <1>6 DEF Crash, TodoFresh, NoWorker
<1> QED
  BY <1>1, <1>2, <1>3, <1>4, <1>5, <1>6 DEF Next

\* Every step keeps NewRegisters.
LEMMA NewRegistersInductive == ASSUME TypeOK, RootInv, [Next]_vars PROVE NewRegisters'
<1> USE DEF files, history, bounds
<1>a. transfers \in [ Tasks -> [ Posts -> Transfer ] ] BY DEF TypeOK
<1>b. NewRegisters BY DEF RootInv
<1>1. CASE UNCHANGED transfers BY <1>1, <1>b DEF NewRegisters
<1>2. ASSUME NEW t \in Tasks, SpawnTransfer(t) PROVE NewRegisters'
  <2>1. PICK i \in worker[t].todo : transfers' = [ transfers EXCEPT ![t][PostIds[t][i]].pc = "asking" ]
    BY <1>2 DEF SpawnTransfer
  <2>2. i \in DOMAIN PostIds[t] /\ transfers[t][PostIds[t][i]].pc = "none"
    BY <2>1 DEF RootInv, TodoFresh
  <2>3. PostIds[t][i] \in Posts BY <2>2, PostsOfPositions
  <2>4. ~ transfers[t][PostIds[t][i]].new BY <1>b, <2>2, <2>3 DEF NewRegisters
  <2>5. ~ transfers'[t][PostIds[t][i]].new BY <1>a, <2>1, <2>3, <2>4 DEF Transfer
  <2>6. \A u \in Tasks, q \in Posts :
          (u # t \/ q # PostIds[t][i]) => transfers'[u][q] = transfers[u][q]
    BY <1>a, <2>1
  <2> QED BY <1>b, <2>5, <2>6 DEF NewRegisters
<1>3. ASSUME NEW t \in Tasks, NEW p \in Posts, JoinTransfer(t, p) PROVE NewRegisters'
  <2>1. \/ transfers' = [ transfers EXCEPT ![t] = Idle ]
        \/ transfers' = [ transfers EXCEPT ![t][p] = NoTransfer ]
    BY <1>3 DEF JoinTransfer, AbortAll
  <2>2. \A u \in Tasks, q \in Posts :
          transfers'[u][q] = transfers[u][q] \/ transfers'[u][q] = NoTransfer
    <3>1. CASE transfers' = [ transfers EXCEPT ![t] = Idle ] BY <1>a, <3>1 DEF Idle
    <3>2. CASE transfers' = [ transfers EXCEPT ![t][p] = NoTransfer ] BY <1>a, <3>2
    <3> QED BY <2>1, <3>1, <3>2
  <2> QED BY <1>b, <2>2 DEF NoTransfer, NewRegisters
<1>4. ASSUME NEW t \in Tasks, NEW p \in Posts, TransferStep(t, p) \/ TransferFault(t, p)
      PROVE  NewRegisters'
  <2>1. PICK x \in Transfer :
          transfers' = [ transfers EXCEPT ![t][p] = x ] /\ (x.new => x.pc = "registering")
    BY <1>4, <1>b, TransferStepMovesOne
  <2>2. \A u \in Tasks, q \in Posts :
          transfers'[u][q] = IF u = t /\ q = p THEN x ELSE transfers[u][q]
    BY <1>a, <2>1
  <2> QED BY <1>b, <2>1, <2>2 DEF NewRegisters
<1>5. CASE Crash BY <1>5 DEF Crash, Idle, NoTransfer, NewRegisters
<1>6. ASSUME NEW t \in Tasks, UserStep(t) PROVE UNCHANGED transfers
  BY <1>6 DEF UserStep, PauseTask, ResumeTask, CancelTask, RetryTask, Control
<1>7. ASSUME NEW t \in Tasks,
             \/ EnterRoot(t) \/ StopsWaiting(t) \/ StartBody(t) \/ EndBody(t)
             \/ Settle(t) \/ SweepParts(t) \/ Leave(t)
      PROVE  UNCHANGED transfers
  BY <1>7 DEF EnterRoot, StopsWaiting, StartBody, EndBody, Settle, SweepParts, Leave, WorkerOnly
<1>8. ASSUME NEW x \in orphans, RegisterOrphan(x) PROVE UNCHANGED transfers
  BY <1>8 DEF RegisterOrphan
<1>9. CASE UNCHANGED vars BY <1>1, <1>9 DEF vars
<1>10. CASE Next
  BY <1>10, <1>1, <1>2, <1>3, <1>4, <1>5, <1>6, <1>7, <1>8 DEF Next, WorkerStep
<1> QED BY <1>9, <1>10

-----------------------------------------------------------------------------
(* What a step does to the files of a post and to its transfers.            *)

\* The user, and a worker outside its transfers, leave files and transfers alone.
LEMMA QuietSteps ==
  ASSUME NEW t \in Tasks,
         \/ UNCHANGED vars \/ UserStep(t)
         \/ EnterRoot(t) \/ StopsWaiting(t) \/ StartBody(t) \/ EndBody(t) \/ Settle(t) \/ Leave(t)
  PROVE  UNCHANGED << transfers, orphans, disk, located, cut, undone >>
<1> USE DEF files, history
<1>1. CASE UNCHANGED vars BY <1>1 DEF vars
<1>2. CASE UserStep(t)
  BY <1>2 DEF UserStep, PauseTask, ResumeTask, CancelTask, RetryTask, Control
<1>3. CASE EnterRoot(t) \/ StopsWaiting(t) \/ StartBody(t) \/ EndBody(t) \/ Settle(t) \/ Leave(t)
  BY <1>3 DEF EnterRoot, StopsWaiting, StartBody, EndBody, Settle, Leave, WorkerOnly
<1> QED BY <1>1, <1>2, <1>3

\* A transfer's step is about its own post.
LEMMA TransferIsLocal ==
  ASSUME TypeOK, NEW t \in Tasks, NEW p \in Posts, TransferStep(t, p) \/ TransferFault(t, p)
  PROVE  /\ \A u \in Tasks, q \in Posts :
              (u # t \/ q # p) => transfers'[u][q] = transfers[u][q]
         /\ \A q \in Posts : q # p => disk'[q] = disk[q] /\ located'[q] = located[q]
         /\ UNCHANGED << orphans, undone, cut >>
<1> USE DEF TransferOnly
<1>a. transfers \in [ Tasks -> [ Posts -> Transfer ] ] BY DEF TypeOK
<1>b. disk \in [ Posts -> [ FileKinds -> BOOLEAN ] ] /\ located \in [ Posts -> BOOLEAN ] BY DEF TypeOK
<1>1. /\ \A u \in Tasks, q \in Posts : (u # t \/ q # p) => transfers'[u][q] = transfers[u][q]
      /\ UNCHANGED << orphans, undone, cut >>
  <2>1. CASE NoticeStop(t, p) BY <1>a, <2>1 DEF NoticeStop, Done
  <2>2. CASE SkipPost(t, p) BY <1>a, <2>2 DEF SkipPost, Done
  <2>3. CASE TakeFile(t, p) BY <1>a, <2>3 DEF TakeFile
  <2>4. CASE OpenPart(t, p) BY <1>a, <2>4 DEF OpenPart
  <2>5. CASE StopTransfer(t, p) BY <1>a, <2>5 DEF StopTransfer, Done
  <2>6. CASE CommitPart(t, p) BY <1>a, <2>6 DEF CommitPart
  <2>7. CASE WriteCaption(t, p) BY <1>a, <2>7 DEF WriteCaption
  <2>8. CASE Register(t, p) BY <1>a, <2>8 DEF Register, Done
  <2>9. CASE AskFails(t, p) BY <1>a, <2>9 DEF AskFails, Done
  <2>10. CASE TransferFails(t, p) BY <1>a, <2>10 DEF TransferFails, Done
  <2>11. CASE CaptionFails(t, p) BY <1>a, <2>11 DEF CaptionFails, Done
  <2> QED BY <2>1, <2>2, <2>3, <2>4, <2>5, <2>6, <2>7, <2>8, <2>9, <2>10, <2>11
          DEF TransferStep, TransferFault
<1>2. \A q \in Posts : q # p => disk'[q] = disk[q] /\ located'[q] = located[q]
  <2>1. CASE NoticeStop(t, p) \/ SkipPost(t, p) \/ TakeFile(t, p) \/ AskFails(t, p)
    BY <2>1 DEF NoticeStop, SkipPost, TakeFile, AskFails
  <2>2. CASE OpenPart(t, p) \/ CommitPart(t, p) \/ WriteCaption(t, p) \/ StopTransfer(t, p)
    BY <1>b, <2>2 DEF OpenPart, CommitPart, WriteCaption, StopTransfer
  <2>3. CASE TransferFails(t, p) \/ CaptionFails(t, p)
    BY <1>b, <2>3 DEF TransferFails, CaptionFails
  <2>4. CASE Register(t, p) BY <1>b, <2>4 DEF Register, Registered, RolledBack
  <2> QED BY <2>1, <2>2, <2>3, <2>4 DEF TransferStep, TransferFault
<1> QED BY <1>1, <1>2

\* The ways a transfer x, the files d of its post and the record l of it change.
Gives(x, y, d, e, l, m) ==
  /\ x.pc \in { "asking", "writing" } /\ y.pc = "done" /\ ~ y.new /\ ~ y.made
  /\ e.media = d.media /\ e.caption = d.caption /\ m = l

Takes(x, y, d, e, l, m) ==
  /\ x.pc = "asking" /\ y.pc = "registering" /\ y.new = x.new /\ y.made = x.made
  /\ e = d /\ d.media /\ m = l

Opens(x, y, d, e, l, m) ==
  /\ x.pc = "asking" /\ y.pc = "writing" /\ y.new = x.new /\ y.made = x.made
  /\ ~ l /\ ~ d.media /\ e.part /\ e.media = d.media /\ e.caption = d.caption /\ m = l

Commits(x, y, d, e, l, m) ==
  /\ x.pc = "writing" /\ y.pc = "renamed" /\ y.new = x.new /\ y.made = x.made
  /\ e.media /\ ~ e.part /\ e.caption = d.caption /\ m = l

Captions(x, y, d, e, l, m) ==
  /\ x.pc = "renamed" /\ y.pc = "registering" /\ y.new
  /\ e.caption /\ e.media = d.media /\ m = l

Registers(x, y, d, e, l, m) ==
  /\ x.pc = "registering" /\ y.pc = "done" /\ ~ y.new /\ ~ y.made /\ e = d /\ m

TakesBack(x, y, d, e, l, m) ==
  /\ x.pc = "renamed" /\ y.pc = "done" /\ ~ y.new /\ ~ y.made
  /\ ~ e.media /\ e.caption = d.caption /\ m = l

RollsBack(x, y, d, e, l, m) ==
  /\ x.pc = "registering" /\ y.pc = "done" /\ ~ y.new /\ ~ y.made /\ m = l
  /\ ~ x.new => e.media = d.media
  /\ x.new => ~ e.media
  /\ ~ x.made => e.caption = d.caption

Kind(x, y, d, e, l, m) ==
  \/ Gives(x, y, d, e, l, m) \/ Takes(x, y, d, e, l, m) \/ Opens(x, y, d, e, l, m)
  \/ Commits(x, y, d, e, l, m) \/ Captions(x, y, d, e, l, m)
  \/ Registers(x, y, d, e, l, m) \/ TakesBack(x, y, d, e, l, m) \/ RollsBack(x, y, d, e, l, m)

\* Every step of a transfer is of one of these kinds.
LEMMA TransferKinds ==
  ASSUME TypeOK, NEW t \in Tasks, NEW p \in Posts, TransferStep(t, p) \/ TransferFault(t, p)
  PROVE  Kind(transfers[t][p], transfers'[t][p], disk[p], disk'[p], located[p], located'[p])
<1> USE DEF TransferOnly, At
<1>a. transfers \in [ Tasks -> [ Posts -> Transfer ] ] BY DEF TypeOK
<1>b. disk \in [ Posts -> [ FileKinds -> BOOLEAN ] ] /\ located \in [ Posts -> BOOLEAN ] BY DEF TypeOK
<1>c. ASSUME NEW r, Done(t, p, r)
      PROVE  transfers'[t][p].pc = "done" /\ ~ transfers'[t][p].new /\ ~ transfers'[t][p].made
  BY <1>a, <1>c DEF Done, NoTransfer
<1>1. CASE NoticeStop(t, p) BY <1>1, <1>c DEF NoticeStop, Kind, Gives
<1>2. CASE SkipPost(t, p) BY <1>2, <1>c DEF SkipPost, Kind, Gives
<1>3. CASE TakeFile(t, p)
  <2>1. transfers'[t][p] = [ transfers[t][p] EXCEPT !.pc = "registering" ] BY <1>a, <1>3 DEF TakeFile
  <2>2. /\ transfers'[t][p].pc = "registering"
        /\ transfers'[t][p].new = transfers[t][p].new /\ transfers'[t][p].made = transfers[t][p].made
    BY <1>a, <2>1 DEF Transfer
  <2> QED BY <1>3, <2>2 DEF TakeFile, Kind, Takes
<1>4. CASE OpenPart(t, p)
  <2>1. transfers'[t][p] = [ transfers[t][p] EXCEPT !.pc = "writing" ] BY <1>a, <1>4 DEF OpenPart
  <2>2. /\ transfers'[t][p].pc = "writing"
        /\ transfers'[t][p].new = transfers[t][p].new /\ transfers'[t][p].made = transfers[t][p].made
    BY <1>a, <2>1 DEF Transfer
  <2>3. disk'[p] = [ disk[p] EXCEPT !.part = TRUE ] BY <1>b, <1>4 DEF OpenPart
  <2>4. disk'[p].part /\ disk'[p].media = disk[p].media /\ disk'[p].caption = disk[p].caption
    BY <1>b, <2>3 DEF FileKinds
  <2> QED BY <1>4, <2>2, <2>4 DEF OpenPart, Kind, Opens
<1>5. CASE StopTransfer(t, p)
  <2>1. disk'[p] = [ disk[p] EXCEPT !.part = @ /\ status[t] # "cancelling" ]
    BY <1>b, <1>5 DEF StopTransfer
  <2>2. disk'[p].media = disk[p].media /\ disk'[p].caption = disk[p].caption
    BY <1>b, <2>1 DEF FileKinds
  <2> QED BY <1>5, <1>c, <2>2 DEF StopTransfer, Kind, Gives
<1>6. CASE CommitPart(t, p)
  <2>1. transfers'[t][p] = [ transfers[t][p] EXCEPT !.pc = "renamed" ] BY <1>a, <1>6 DEF CommitPart
  <2>2. /\ transfers'[t][p].pc = "renamed"
        /\ transfers'[t][p].new = transfers[t][p].new /\ transfers'[t][p].made = transfers[t][p].made
    BY <1>a, <2>1 DEF Transfer
  <2>3. disk'[p] = [ disk[p] EXCEPT !.part = FALSE, !.media = TRUE ] BY <1>b, <1>6 DEF CommitPart
  <2>4. disk'[p].media /\ ~ disk'[p].part /\ disk'[p].caption = disk[p].caption
    BY <1>b, <2>3 DEF FileKinds
  <2> QED BY <1>6, <2>2, <2>4 DEF CommitPart, Kind, Commits
<1>7. CASE WriteCaption(t, p)
  <2>1. transfers'[t][p] = [ transfers[t][p] EXCEPT !.pc = "registering", !.new = TRUE,
                                                    !.made = ~ disk[p].caption ]
    BY <1>a, <1>7 DEF WriteCaption
  <2>2. transfers'[t][p].pc = "registering" /\ transfers'[t][p].new BY <1>a, <2>1 DEF Transfer
  <2>3. disk'[p] = [ disk[p] EXCEPT !.caption = TRUE ] BY <1>b, <1>7 DEF WriteCaption
  <2>4. disk'[p].caption /\ disk'[p].media = disk[p].media BY <1>b, <2>3 DEF FileKinds
  <2> QED BY <1>7, <2>2, <2>4 DEF WriteCaption, Kind, Captions
<1>8. CASE Register(t, p)
  <2> DEFINE x == transfers[t][p]
  <2>0. x.pc = "registering" BY <1>8 DEF Register
  <2>1. CASE /\ Registered(t, p, x.new) /\ NoFault
             /\ Done(t, p, IF x.new THEN "downloaded" ELSE "skipped")
    <3>1. located'[p] /\ disk' = disk BY <1>b, <2>1 DEF Registered
    <3> QED BY <2>0, <2>1, <1>c, <3>1 DEF Kind, Registers
  <2>2. CASE RolledBack(t, p, x.new, x.made) /\ Done(t, p, "failed")
    <3>1. disk'[p] = [ disk[p] EXCEPT !.media = @ /\ ~ x.new, !.caption = @ /\ ~ x.made ]
      BY <1>b, <2>2 DEF RolledBack
    <3>2. /\ disk'[p].media = (disk[p].media /\ ~ x.new)
          /\ disk'[p].caption = (disk[p].caption /\ ~ x.made)
      BY <1>b, <3>1 DEF FileKinds
    <3>3. /\ disk[p].media \in BOOLEAN /\ disk[p].caption \in BOOLEAN
          /\ x.new \in BOOLEAN /\ x.made \in BOOLEAN
      BY <1>a, <1>b DEF FileKinds, Transfer
    <3>4. /\ ~ x.new => disk'[p].media = disk[p].media
          /\ x.new => ~ disk'[p].media
          /\ ~ x.made => disk'[p].caption = disk[p].caption
      BY <3>2, <3>3
    <3>5. located' = located BY <2>2 DEF RolledBack
    <3> QED BY <2>0, <2>2, <1>c, <3>4, <3>5 DEF Kind, RollsBack
  <2> QED BY <1>8, <2>1, <2>2 DEF Register
<1>9. CASE AskFails(t, p) BY <1>9, <1>c DEF AskFails, Kind, Gives
<1>10. CASE TransferFails(t, p)
  <2>1. PICK kept \in BOOLEAN : disk' = [ disk EXCEPT ![p].part = @ /\ kept ]
    BY <1>10 DEF TransferFails
  <2>2. disk'[p] = [ disk[p] EXCEPT !.part = @ /\ kept ] BY <1>b, <2>1
  <2>3. disk'[p].media = disk[p].media /\ disk'[p].caption = disk[p].caption
    BY <1>b, <2>2 DEF FileKinds
  <2> QED BY <1>10, <1>c, <2>3 DEF TransferFails, Kind, Gives
<1>11. CASE CaptionFails(t, p)
  <2>1. disk'[p] = [ disk[p] EXCEPT !.media = FALSE ] BY <1>b, <1>11 DEF CaptionFails
  <2>2. ~ disk'[p].media /\ disk'[p].caption = disk[p].caption BY <1>b, <2>1 DEF FileKinds
  <2> QED BY <1>11, <1>c, <2>2 DEF CaptionFails, Kind, TakesBack
<1> QED
  BY <1>1, <1>2, <1>3, <1>4, <1>5, <1>6, <1>7, <1>8, <1>9, <1>10, <1>11 DEF TransferStep, TransferFault

\* A transfer begins where there was none.
LEMMA SpawnKind ==
  ASSUME TypeOK, RootInv, NEW t \in Tasks, SpawnTransfer(t)
  PROVE  /\ UNCHANGED << orphans, disk, located, cut, undone >>
         /\ \E p \in Posts :
              /\ transfers[t][p].pc = "none" /\ transfers'[t][p].pc = "asking"
              /\ transfers'[t][p].new = transfers[t][p].new
              /\ transfers'[t][p].made = transfers[t][p].made
              /\ \A u \in Tasks, q \in Posts :
                   (u # t \/ q # p) => transfers'[u][q] = transfers[u][q]
<1>a. transfers \in [ Tasks -> [ Posts -> Transfer ] ] BY DEF TypeOK
<1>1. PICK i \in worker[t].todo : transfers' = [ transfers EXCEPT ![t][PostIds[t][i]].pc = "asking" ]
  BY DEF SpawnTransfer
<1> DEFINE p == PostIds[t][i]
<1>2. i \in DOMAIN PostIds[t] /\ transfers[t][p].pc = "none" BY <1>1 DEF RootInv, TodoFresh
<1>3. p \in Posts BY <1>2, PostsOfPositions
<1>4. transfers'[t][p] = [ transfers[t][p] EXCEPT !.pc = "asking" ] BY <1>a, <1>1, <1>3
<1>5. /\ transfers'[t][p].pc = "asking" /\ transfers'[t][p].new = transfers[t][p].new
      /\ transfers'[t][p].made = transfers[t][p].made
  BY <1>a, <1>3, <1>4 DEF Transfer
<1>6. \A u \in Tasks, q \in Posts : (u # t \/ q # p) => transfers'[u][q] = transfers[u][q]
  BY <1>a, <1>1
<1>7. UNCHANGED << orphans, disk, located, cut, undone >> BY DEF SpawnTransfer, files, history
<1> QED BY <1>2, <1>3, <1>5, <1>6, <1>7

\* A transfer that is joined is done; an abort leaves the task no transfer.
LEMMA JoinKind ==
  ASSUME TypeOK, NEW t \in Tasks, NEW p \in Posts, JoinTransfer(t, p)
  PROVE  /\ UNCHANGED << disk, located, undone >>
         /\ \A u \in Tasks, q \in Posts : u # t => transfers'[u][q] = transfers[u][q]
         /\ \/ /\ UNCHANGED << orphans, cut >>
               /\ transfers[t][p].pc = "done" /\ transfers'[t][p] = NoTransfer
               /\ \A q \in Posts : q # p => transfers'[t][q] = transfers[t][q]
            \/ /\ \A q \in Posts : transfers'[t][q] = NoTransfer
               /\ orphans' = orphans \cup Orphaned(t)
               /\ cut' = cut \cup { q \in Posts : transfers[t][q].pc = "renamed" }
<1>a. transfers \in [ Tasks -> [ Posts -> Transfer ] ] BY DEF TypeOK
<1>1. UNCHANGED << disk, located, undone >> BY DEF JoinTransfer, files
<1>2. CASE AbortAll(t)
  <2>1. transfers' = [ transfers EXCEPT ![t] = Idle ] BY <1>2 DEF AbortAll
  <2>2. /\ \A u \in Tasks, q \in Posts : u # t => transfers'[u][q] = transfers[u][q]
        /\ \A q \in Posts : transfers'[t][q] = NoTransfer
    BY <1>a, <2>1 DEF Idle
  <2> QED BY <1>1, <1>2, <2>2 DEF AbortAll
<1>3. CASE ~ AbortAll(t)
  <2>1. transfers' = [ transfers EXCEPT ![t][p] = NoTransfer ] /\ UNCHANGED << orphans, cut >>
        /\ transfers[t][p].pc = "done"
    BY <1>3 DEF JoinTransfer
  <2> QED BY <1>a, <1>1, <2>1
<1> QED BY <1>2, <1>3

\* A sweep happens while nobody has a transfer, and removes parts only.
LEMMA SweepKind ==
  ASSUME TypeOK, RootInv, NEW t \in Tasks, SweepParts(t)
  PROVE  /\ UNCHANGED << transfers, orphans, located, cut, undone >>
         /\ \A u \in Tasks, p \in Posts : transfers[u][p].pc = "none"
         /\ \A p \in Posts : disk'[p].media = disk[p].media /\ disk'[p].caption = disk[p].caption
<1>a. disk \in [ Posts -> [ FileKinds -> BOOLEAN ] ] BY DEF TypeOK
<1>1. UNCHANGED << transfers, orphans, located, cut, undone >> BY DEF SweepParts, history
<1>2. \A u \in Tasks, p \in Posts : transfers[u][p].pc = "none"
  BY DEF SweepParts, RootInv, RootHeld, Inside
<1>3. \A p \in Posts : disk'[p].media = disk[p].media /\ disk'[p].caption = disk[p].caption
  <2>1. disk' = disk \/ disk' = [ p \in Posts |-> [ disk[p] EXCEPT !.part = FALSE ] ]
    BY DEF SweepParts
  <2> QED BY <1>a, <2>1 DEF FileKinds
<1> QED BY <1>1, <1>2, <1>3

\* What the registration of an aborted transfer does to its post.
LEMMA OrphanKind ==
  ASSUME TypeOK, NEW x \in orphans, RegisterOrphan(x)
  PROVE  /\ x.post \in Posts /\ UNCHANGED << transfers, cut >> /\ orphans' = orphans \ { x }
         /\ \A q \in Posts : q # x.post => disk'[q] = disk[q] /\ located'[q] = located[q]
         /\ \/ disk' = disk /\ undone' = undone /\ located'[x.post]
            \/ /\ located' = located
               /\ ~ x.new => disk'[x.post].media = disk[x.post].media /\ undone' = undone
               /\ x.new => ~ disk'[x.post].media /\ undone' = undone \cup { x.post }
               /\ ~ x.made => disk'[x.post].caption = disk[x.post].caption
               /\ disk'[x.post].part = disk[x.post].part
<1> DEFINE p == x.post
<1>a. disk \in [ Posts -> [ FileKinds -> BOOLEAN ] ] /\ located \in [ Posts -> BOOLEAN ] BY DEF TypeOK
<1>1. p \in Posts /\ x.new \in BOOLEAN /\ x.made \in BOOLEAN BY DEF TypeOK
<1>2. UNCHANGED << transfers, cut >> /\ orphans' = orphans \ { x } BY DEF RegisterOrphan
<1>3. CASE Registered(x.task, p, x.new) /\ UNCHANGED undone
  BY <1>a, <1>1, <1>2, <1>3 DEF Registered
<1>4. CASE /\ RolledBack(x.task, p, x.new, x.made)
           /\ undone' = (IF x.new THEN undone \cup { p } ELSE undone)
  <2>1. \A q \in Posts : q # p => disk'[q] = disk[q] BY <1>a, <1>4 DEF RolledBack
  <2>2. disk'[p] = [ disk[p] EXCEPT !.media = @ /\ ~ x.new, !.caption = @ /\ ~ x.made ]
    BY <1>a, <1>1, <1>4 DEF RolledBack
  <2>3. /\ disk'[p].media = (disk[p].media /\ ~ x.new)
        /\ disk'[p].caption = (disk[p].caption /\ ~ x.made)
        /\ disk'[p].part = disk[p].part
    BY <1>a, <1>1, <2>2 DEF FileKinds
  <2>4. disk[p].media \in BOOLEAN /\ disk[p].caption \in BOOLEAN BY <1>a, <1>1 DEF FileKinds
  <2>5. /\ ~ x.new => disk'[p].media = disk[p].media
        /\ x.new => ~ disk'[p].media
        /\ ~ x.made => disk'[p].caption = disk[p].caption
    BY <1>1, <2>3, <2>4
  <2>6. located' = located BY <1>4 DEF RolledBack
  <2> QED BY <1>1, <1>2, <1>4, <2>1, <2>3, <2>5, <2>6
<1> QED BY <1>3, <1>4 DEF RegisterOrphan

\* A crash drops every transfer where it is.
LEMMA CrashKind ==
  ASSUME Crash
  PROVE  /\ UNCHANGED << disk, located, undone >> /\ orphans' = {}
         /\ \A t \in Tasks, p \in Posts : transfers'[t][p] = NoTransfer
         /\ cut' = cut \cup { p \in Posts : \E t \in Tasks : transfers[t][p].pc = "renamed" }
  BY DEF Crash, Idle, files, At

\* The steps that touch files or transfers.
LEMMA StepCases ==
  ASSUME [Next]_vars
  PROVE  \/ UNCHANGED << transfers, orphans, disk, located, cut, undone >>
         \/ \E t \in Tasks : SpawnTransfer(t)
         \/ \E t \in Tasks : SweepParts(t)
         \/ \E t \in Tasks, p \in Posts : JoinTransfer(t, p)
         \/ \E t \in Tasks, p \in Posts : TransferStep(t, p) \/ TransferFault(t, p)
         \/ \E x \in orphans : RegisterOrphan(x)
         \/ Crash
<1>1. CASE UNCHANGED vars BY <1>1 DEF vars, files, history
<1>2. ASSUME NEW t \in Tasks, UserStep(t) \/ WorkerStep(t)
      PROVE  \/ UNCHANGED << transfers, orphans, disk, located, cut, undone >>
             \/ SpawnTransfer(t) \/ SweepParts(t) \/ \E p \in Posts : JoinTransfer(t, p)
  BY <1>2, QuietSteps DEF WorkerStep
<1> QED BY <1>1, <1>2 DEF Next

-----------------------------------------------------------------------------
\* Every step keeps MakerInv: the sweep waits for the root, and who opens a part
\* has seen that there is no file, so no registration of a new one is under way.
LEMMA MakerInductive ==
  ASSUME TypeOK, RootInv, MakerInv, [Next]_vars
  PROVE  MakerInv'
<1> USE DEF At, Making, PartsStay
<1>1. CASE UNCHANGED << transfers, orphans, disk, located, cut, undone >>
  BY <1>1 DEF MakerInv
<1>2. ASSUME NEW t \in Tasks, SpawnTransfer(t) PROVE MakerInv'
  <2>1. UNCHANGED << orphans, disk >> BY <1>2, SpawnKind
  <2>2. \A u \in Tasks, q \in Posts :
          /\ \A pc \in { "writing", "renamed", "registering" } : At(u, q, pc)' <=> At(u, q, pc)
          /\ transfers'[u][q].new = transfers[u][q].new
    <3>1. PICK p \in Posts :
            /\ transfers[t][p].pc = "none" /\ transfers'[t][p].pc = "asking"
            /\ transfers'[t][p].new = transfers[t][p].new
            /\ \A u \in Tasks, q \in Posts :
                 (u # t \/ q # p) => transfers'[u][q] = transfers[u][q]
      BY <1>2, SpawnKind
    <3> QED BY <3>1
  <2>3. \A u \in Tasks, q \in Posts : Making(u, q)' <=> Making(u, q) BY <2>2
  <2>4. PartsStay' BY <2>1, <2>2 DEF MakerInv
  <2>5. \A x \in orphans : x.post \in Posts BY DEF TypeOK
  <2> QED BY <2>1, <2>2, <2>3, <2>4, <2>5 DEF MakerInv
<1>3. ASSUME NEW t \in Tasks, SweepParts(t) PROVE MakerInv'
  <2>1. \A x \in orphans : x.post \in Posts BY DEF TypeOK
  <2> QED BY <1>3, <2>1, SweepKind DEF MakerInv
<1>4. ASSUME NEW t \in Tasks, NEW p \in Posts, JoinTransfer(t, p) PROVE MakerInv'
  <2>1. UNCHANGED disk BY <1>4, JoinKind
  <2>2. \A u \in Tasks, q \in Posts :
          transfers'[u][q] = transfers[u][q] \/ transfers'[u][q] = NoTransfer
    BY <1>4, JoinKind
  <2>3. /\ PartsStay'
        /\ (\A u \in Tasks, q \in Posts :
              At(u, q, "registering") /\ transfers[u][q].new => disk[q].media)'
    BY <2>1, <2>2 DEF MakerInv, NoTransfer
  <2>4. CASE UNCHANGED orphans
    <3>1. \A x \in orphans : x.post \in Posts BY DEF TypeOK
    <3>2. \A u \in Tasks, q \in Posts : Making(u, q)' => Making(u, q)
      BY <2>2 DEF Making, At, NoTransfer
    <3> QED BY <2>1, <2>3, <2>4, <3>1, <3>2 DEF MakerInv
  <2>5. CASE /\ \A q \in Posts : transfers'[t][q] = NoTransfer
             /\ orphans' = orphans \cup Orphaned(t)
    <3>1. \A u \in Tasks, q \in Posts : ~ Making(u, q)' \/ (Making(u, q) /\ u # t)
      BY <2>2, <2>5 DEF NoTransfer
    <3>2. ASSUME NEW x \in Orphaned(t), x.new
          PROVE  /\ x.post \in Posts /\ Making(t, x.post) /\ disk[x.post].media
                 /\ x = [ task |-> t, post |-> x.post, new |-> transfers[t][x.post].new,
                          made |-> transfers[t][x.post].made ]
      BY <3>2 DEF Orphaned, MakerInv
    <3>3. \A x \in Orphaned(t), u \in Tasks : x.new => ~ Making(u, x.post)'
      BY <3>1, <3>2, OneTaskTransfers DEF RootInv
    <3>4. \A x \in orphans, u \in Tasks : x.new => ~ Making(u, x.post)'
      BY <3>1 DEF MakerInv, TypeOK
    <3>5. \A x, y \in orphans' : x.new /\ y.new /\ x.post = y.post => x = y
      BY <2>5, <3>2 DEF MakerInv
    <3> QED BY <2>1, <2>3, <2>5, <3>2, <3>3, <3>4, <3>5 DEF MakerInv
  <2> QED BY <1>4, <2>4, <2>5, JoinKind
<1>5. ASSUME NEW t \in Tasks, NEW p \in Posts, TransferStep(t, p) \/ TransferFault(t, p)
      PROVE  MakerInv'
  <2> DEFINE x == transfers[t][p]  y == transfers'[t][p]
             d == disk[p]  e == disk'[p]  l == located[p]  m == located'[p]
  <2>1. Kind(x, y, d, e, l, m) BY <1>5, TransferKinds
  <2>2. /\ \A u \in Tasks, q \in Posts : (u # t \/ q # p) => transfers'[u][q] = transfers[u][q]
        /\ \A q \in Posts : q # p => disk'[q] = disk[q]
        /\ UNCHANGED orphans
    BY <1>5, TransferIsLocal
  <2>3. x.pc # "none" BY <2>1 DEF Kind, Gives, Takes, Opens, Commits, Captions, Registers, TakesBack, RollsBack
  <2>4. \A u \in Tasks, q \in Posts : transfers[u][q].pc # "none" => u = t
    BY <2>3, OneTaskTransfers DEF RootInv
  <2>5. ~ x.new \/ x.pc = "registering" BY DEF RootInv, NewRegisters
  <2>6. /\ y.pc = "writing" => e.part
        /\ y.pc = "renamed" => e.media /\ ~ e.part
        /\ y.pc = "registering" /\ y.new => e.media
    BY <2>1, <2>5 DEF Kind, Gives, Takes, Opens, Commits, Captions, Registers, TakesBack, RollsBack, MakerInv
  <2>7. PartsStay' BY <2>2, <2>4, <2>6 DEF MakerInv
  <2>8. (\A u \in Tasks, q \in Posts :
           At(u, q, "registering") /\ transfers[u][q].new => disk[q].media)'
    BY <2>2, <2>4, <2>6 DEF MakerInv
  <2>9. ASSUME NEW o \in orphans, o.new, o.post = p
        PROVE  e.media /\ ~ Making(t, p)'
    <3>1. d.media /\ ~ Making(t, p) BY <2>9 DEF MakerInv
    <3> QED
      BY <2>1, <2>5, <3>1 DEF Kind, Gives, Takes, Opens, Commits, Captions, Registers, TakesBack, RollsBack
  <2>10. ASSUME NEW o \in orphans', o.new
         PROVE  disk'[o.post].media /\ \A u \in Tasks : ~ Making(u, o.post)'
    <3>1. o \in orphans /\ o.post \in Posts BY <2>2 DEF TypeOK
    <3>2. CASE o.post # p BY <2>2, <2>10, <3>1, <3>2 DEF MakerInv
    <3>3. CASE o.post = p
      <4>1. \A u \in Tasks : u # t => ~ Making(u, p)' BY <2>2, <2>4
      <4> QED BY <2>9, <2>10, <3>1, <3>3, <4>1
    <3> QED BY <3>2, <3>3
  <2> QED BY <2>2, <2>7, <2>8, <2>10 DEF MakerInv
<1>6. ASSUME NEW x \in orphans, RegisterOrphan(x) PROVE MakerInv'
  <2> DEFINE p == x.post
  <2>1. /\ p \in Posts /\ UNCHANGED transfers /\ orphans' = orphans \ { x }
        /\ \A q \in Posts : q # p => disk'[q] = disk[q]
        /\ \/ disk' = disk
           \/ ~ x.new /\ disk'[p].media = disk[p].media /\ disk'[p].part = disk[p].part
           \/ x.new /\ disk'[p].part = disk[p].part
    BY <1>6, OrphanKind
  <2>2. CASE ~ x.new \/ disk' = disk
    <3>1. \A q \in Posts : disk'[q].media = disk[q].media /\ disk'[q].part = disk[q].part
      BY <2>1, <2>2
    <3>2. \A o \in orphans : o.post \in Posts BY DEF TypeOK
    <3> QED BY <2>1, <3>1, <3>2 DEF MakerInv
  <2>3. CASE x.new /\ disk'[p].part = disk[p].part
    <3>1. \A u \in Tasks : ~ Making(u, p) BY <2>3 DEF MakerInv
    <3>2. \A o \in orphans' : o.new => o \in orphans /\ o.post # p /\ o.post \in Posts
      BY <2>1, <2>3 DEF MakerInv, TypeOK
    <3> QED BY <2>1, <3>1, <3>2 DEF MakerInv
  <2> QED BY <2>1, <2>2, <2>3
<1>7. CASE Crash
  BY <1>7, CrashKind DEF MakerInv, NoTransfer
<1> QED
  BY <1>1, <1>2, <1>3, <1>4, <1>5, <1>6, <1>7, StepCases

-----------------------------------------------------------------------------
\* Of an orphan, for the posts that have one.
Orphan(p) == \E x \in orphans : x.post = p

\* Every step keeps WholeInv.
LEMMA WholeInductive ==
  ASSUME TypeOK, RootInv, MakerInv, WholeInv, [Next]_vars
  PROVE  WholeInv'
<1> USE DEF At, Making
<1>a. \A x \in orphans : x.post \in Posts BY DEF TypeOK
<1>1. CASE UNCHANGED << transfers, orphans, disk, located, cut, undone >>
  BY <1>1 DEF WholeInv
<1>2. ASSUME NEW t \in Tasks, SpawnTransfer(t) PROVE WholeInv'
  <2>1. UNCHANGED << orphans, disk, located, undone >> BY <1>2, SpawnKind
  <2>2. \A u \in Tasks, q \in Posts :
          /\ \A pc \in { "writing", "renamed", "registering" } : At(u, q, pc)' <=> At(u, q, pc)
          /\ transfers'[u][q].new = transfers[u][q].new
    <3>1. PICK p \in Posts :
            /\ transfers[t][p].pc = "none" /\ transfers'[t][p].pc = "asking"
            /\ transfers'[t][p].new = transfers[t][p].new
            /\ \A u \in Tasks, q \in Posts :
                 (u # t \/ q # p) => transfers'[u][q] = transfers[u][q]
      BY <1>2, SpawnKind
    <3> QED BY <3>1
  <2>3. \A u \in Tasks, q \in Posts : Making(u, q)' <=> Making(u, q) BY <2>2
  <2> QED BY <1>a, <2>1, <2>2, <2>3 DEF WholeInv
<1>3. ASSUME NEW t \in Tasks, SweepParts(t) PROVE WholeInv'
  BY <1>a, <1>3, SweepKind DEF WholeInv
<1>4. ASSUME NEW t \in Tasks, NEW p \in Posts, JoinTransfer(t, p) PROVE WholeInv'
  <2>1. UNCHANGED << disk, located, undone >> BY <1>4, JoinKind
  <2>2. \A u \in Tasks, q \in Posts :
          transfers'[u][q] = transfers[u][q] \/ transfers'[u][q] = NoTransfer
    BY <1>4, JoinKind
  <2>3. CASE UNCHANGED orphans
    BY <1>a, <2>1, <2>2, <2>3 DEF WholeInv, NoTransfer
  <2>4. CASE /\ \A q \in Posts : transfers'[t][q] = NoTransfer
             /\ orphans' = orphans \cup Orphaned(t)
    <3>1. \A x \in Orphaned(t) : x.post \in Posts /\ At(t, x.post, "registering")
      BY DEF Orphaned
    <3>2. \A u \in Tasks, q \in Posts : Making(u, q)' => u # t /\ Making(u, q)
      BY <2>2, <2>4 DEF NoTransfer
    <3>3. \A u \in Tasks, q \in Posts : Making(u, q)' => \A x \in Orphaned(t) : x.post # q
      BY <3>1, <3>2, OneTaskTransfers DEF RootInv
    <3> QED BY <1>a, <2>1, <2>2, <2>4, <3>1, <3>2, <3>3 DEF WholeInv, NoTransfer
  <2> QED BY <1>4, <2>3, <2>4, JoinKind
<1>5. ASSUME NEW t \in Tasks, NEW p \in Posts, TransferStep(t, p) \/ TransferFault(t, p)
      PROVE  WholeInv'
  <2> DEFINE x == transfers[t][p]  y == transfers'[t][p]
             d == disk[p]  e == disk'[p]  l == located[p]  m == located'[p]
  <2> USE DEF Kind, Gives, Takes, Opens, Commits, Captions, Registers, TakesBack, RollsBack
  <2>1. Kind(x, y, d, e, l, m) BY <1>5, TransferKinds
  <2>2. /\ \A u \in Tasks, q \in Posts : (u # t \/ q # p) => transfers'[u][q] = transfers[u][q]
        /\ \A q \in Posts : q # p => disk'[q] = disk[q] /\ located'[q] = located[q]
        /\ UNCHANGED << orphans, undone >>
    BY <1>5, TransferIsLocal
  <2>3. x.pc # "none" BY <2>1
  <2>4. \A u \in Tasks, q \in Posts : transfers[u][q].pc # "none" => u = t
    BY <2>3, OneTaskTransfers DEF RootInv
  <2>5. ~ x.new \/ x.pc = "registering" BY DEF RootInv, NewRegisters
  <2>6. /\ l => d.media \/ p \in undone
        /\ x.pc = "registering" => d.media \/ p \in undone
        /\ Orphan(p) => d.media \/ p \in undone
        /\ Making(t, p) /\ (l \/ Orphan(p)) => p \in undone
    BY DEF WholeInv, Orphan
  <2>7. x.pc = "registering" /\ x.new => d.media BY DEF MakerInv
  <2>8. y.pc = "registering" /\ y.new => e.media BY <2>1, <2>5, <2>7 DEF MakerInv, PartsStay
  <2>9. m => e.media \/ p \in undone BY <2>1, <2>6
  <2>10. y.pc = "registering" => e.media \/ p \in undone BY <2>1, <2>8
  <2>11. Orphan(p) => e.media \/ p \in undone BY <2>1, <2>6
  <2>12. Making(t, p)' /\ (m \/ Orphan(p)) => p \in undone BY <2>1, <2>5, <2>6
  <2>13. \A q \in Posts : located'[q] => disk'[q].media \/ q \in undone'
    BY <2>2, <2>9 DEF WholeInv
  <2>14. \A u \in Tasks, q \in Posts : At(u, q, "registering")' => disk'[q].media \/ q \in undone'
    BY <2>2, <2>4, <2>10 DEF WholeInv
  <2>15. \A o \in orphans' : disk'[o.post].media \/ o.post \in undone'
    BY <1>a, <2>2, <2>11 DEF WholeInv, Orphan
  <2>16. ASSUME NEW u \in Tasks, NEW q \in Posts, Making(u, q)',
                located'[q] \/ \E o \in orphans' : o.post = q
         PROVE  q \in undone'
    <3>1. CASE q = p
      <4>1. u = t BY <2>2, <2>4, <2>16, <3>1
      <4> QED BY <2>2, <2>12, <2>16, <3>1, <4>1 DEF Orphan
    <3>2. CASE q # p BY <2>2, <2>16, <3>2 DEF WholeInv
    <3> QED BY <3>1, <3>2
  <2> QED BY <2>13, <2>14, <2>15, <2>16 DEF WholeInv
<1>6. ASSUME NEW x \in orphans, RegisterOrphan(x) PROVE WholeInv'
  <2> DEFINE p == x.post
  <2>1. /\ p \in Posts /\ UNCHANGED transfers /\ orphans' = orphans \ { x }
        /\ \A q \in Posts : q # p => disk'[q] = disk[q] /\ located'[q] = located[q]
    BY <1>6, OrphanKind
  <2>2. CASE disk' = disk /\ undone' = undone
    BY <1>a, <2>1, <2>2 DEF WholeInv
  <2>3. CASE located' = located /\ ~ x.new /\ disk'[p].media = disk[p].media /\ undone' = undone
    <3>1. \A q \in Posts : disk'[q].media = disk[q].media BY <2>1, <2>3
    <3> QED BY <1>a, <2>1, <2>3, <3>1 DEF WholeInv
  <2>4. CASE located' = located /\ undone' = undone \cup { p }
    BY <1>a, <2>1, <2>4 DEF WholeInv
  <2> QED BY <1>6, <2>2, <2>3, <2>4, OrphanKind, <1>a
<1>7. CASE Crash
  BY <1>7, CrashKind DEF WholeInv, NoTransfer
<1> QED
  BY <1>1, <1>2, <1>3, <1>4, <1>5, <1>6, <1>7, StepCases

-----------------------------------------------------------------------------
\* Every step keeps CaptionInv.
LEMMA CaptionInductive ==
  ASSUME TypeOK, RootInv, MakerInv, WholeInv, CaptionInv, [Next]_vars
  PROVE  CaptionInv'
<1> USE DEF At
<1>a. \A x \in orphans : x.post \in Posts BY DEF TypeOK
<1>1. CASE UNCHANGED << transfers, orphans, disk, located, cut, undone >>
  BY <1>1 DEF CaptionInv
<1>2. ASSUME NEW t \in Tasks, SpawnTransfer(t) PROVE CaptionInv'
  <2>1. UNCHANGED << orphans, disk, located, cut, undone >> BY <1>2, SpawnKind
  <2>2. \A u \in Tasks, q \in Posts :
          /\ At(u, q, "renamed")' <=> At(u, q, "renamed")
          /\ transfers'[u][q].new = transfers[u][q].new
          /\ transfers'[u][q].made = transfers[u][q].made
    <3>1. PICK p \in Posts :
            /\ transfers[t][p].pc = "none" /\ transfers'[t][p].pc = "asking"
            /\ transfers'[t][p].new = transfers[t][p].new
            /\ transfers'[t][p].made = transfers[t][p].made
            /\ \A u \in Tasks, q \in Posts :
                 (u # t \/ q # p) => transfers'[u][q] = transfers[u][q]
      BY <1>2, SpawnKind
    <3> QED BY <3>1
  <2> QED BY <2>1, <2>2 DEF CaptionInv
<1>3. ASSUME NEW t \in Tasks, SweepParts(t) PROVE CaptionInv'
  BY <1>3, SweepKind DEF CaptionInv
<1>4. ASSUME NEW t \in Tasks, NEW p \in Posts, JoinTransfer(t, p) PROVE CaptionInv'
  <2>1. UNCHANGED << disk, located, undone >> BY <1>4, JoinKind
  <2>2. \A u \in Tasks, q \in Posts :
          transfers'[u][q] = transfers[u][q] \/ transfers'[u][q] = NoTransfer
    BY <1>4, JoinKind
  <2>3. \A u \in Tasks, q \in Posts : At(u, q, "renamed") => At(u, q, "renamed")' \/ q \in cut'
    BY <1>4, JoinKind
  <2>4. cut \subseteq cut' BY <1>4, JoinKind
  <2>5. \A o \in orphans' : o.made => o.new
    <3>1. \A o \in Orphaned(t) : o.made => o.new BY DEF Orphaned, CaptionInv
    <3> QED BY <1>4, <3>1, JoinKind DEF CaptionInv
  <2> QED BY <2>1, <2>2, <2>3, <2>4, <2>5 DEF CaptionInv, NoTransfer
<1>5. ASSUME NEW t \in Tasks, NEW p \in Posts, TransferStep(t, p) \/ TransferFault(t, p)
      PROVE  CaptionInv'
  <2> DEFINE x == transfers[t][p]  y == transfers'[t][p]
             d == disk[p]  e == disk'[p]  l == located[p]  m == located'[p]
  <2> USE DEF Kind, Gives, Takes, Opens, Commits, Captions, Registers, TakesBack, RollsBack
  <2>1. Kind(x, y, d, e, l, m) BY <1>5, TransferKinds
  <2>2. /\ \A u \in Tasks, q \in Posts : (u # t \/ q # p) => transfers'[u][q] = transfers[u][q]
        /\ \A q \in Posts : q # p => disk'[q] = disk[q] /\ located'[q] = located[q]
        /\ UNCHANGED << orphans, undone, cut >>
    BY <1>5, TransferIsLocal
  <2>3. x.pc # "none" BY <2>1
  <2>4. \A u \in Tasks, q \in Posts : transfers[u][q].pc # "none" => u = t
    BY <2>3, OneTaskTransfers DEF RootInv
  <2>5. /\ ~ x.new \/ x.pc = "registering"
        /\ x.made => x.new
    BY DEF RootInv, NewRegisters, CaptionInv
  <2>6. d.media => d.caption \/ p \in cut \/ x.pc = "renamed"
    <3>1. \A u \in Tasks : At(u, p, "renamed") => u = t BY <2>4
    <3> QED BY <3>1 DEF CaptionInv
  <2>7. l => d.caption \/ p \in cut \cup undone BY DEF CaptionInv
  <2>8. x.pc = "registering" => d.media \/ p \in undone BY DEF WholeInv
  <2>9. x.pc = "registering" /\ x.new /\ l => p \in undone BY DEF WholeInv, Making
  <2>10. y.made => y.new BY <2>1, <2>5
  <2>11. e.media => e.caption \/ p \in cut \/ y.pc = "renamed" BY <2>1, <2>5, <2>6
  <2>12. m => e.caption \/ p \in cut \cup undone BY <2>1, <2>5, <2>6, <2>7, <2>8, <2>9
  <2>13. \A u \in Tasks, q \in Posts : transfers'[u][q].made => transfers'[u][q].new
    BY <2>2, <2>10 DEF CaptionInv
  <2>14. \A q \in Posts : disk'[q].media =>
           disk'[q].caption \/ q \in cut' \/ \E u \in Tasks : At(u, q, "renamed")'
    BY <2>2, <2>11 DEF CaptionInv
  <2>15. \A q \in Posts : located'[q] => disk'[q].caption \/ q \in cut' \cup undone'
    BY <2>2, <2>12 DEF CaptionInv
  <2> QED BY <2>2, <2>13, <2>14, <2>15 DEF CaptionInv
<1>6. ASSUME NEW x \in orphans, RegisterOrphan(x) PROVE CaptionInv'
  <2> DEFINE p == x.post
  <2>1. /\ p \in Posts /\ UNCHANGED << transfers, cut >> /\ orphans' = orphans \ { x }
        /\ \A q \in Posts : q # p => disk'[q] = disk[q] /\ located'[q] = located[q]
    BY <1>6, OrphanKind
  <2>2. CASE disk' = disk /\ undone' = undone /\ located'[p]
    <3>1. disk[p].media \/ p \in undone BY DEF WholeInv
    <3>2. (\E u \in Tasks : At(u, p, "renamed")) => p \in undone BY <2>1 DEF WholeInv, Making
    <3>3. disk[p].caption \/ p \in cut \cup undone BY <2>1, <3>1, <3>2 DEF CaptionInv
    <3> QED BY <2>1, <2>2, <3>3 DEF CaptionInv
  <2>3. CASE /\ located' = located /\ ~ x.new /\ undone' = undone
             /\ disk'[p].media = disk[p].media /\ disk'[p].caption = disk[p].caption
    <3>1. \A q \in Posts : disk'[q].media = disk[q].media /\ disk'[q].caption = disk[q].caption
      BY <2>1, <2>3
    <3> QED BY <2>1, <2>3, <3>1 DEF CaptionInv
  <2>4. CASE located' = located /\ undone' = undone \cup { p } /\ ~ disk'[p].media
    BY <2>1, <2>4 DEF CaptionInv
  <2>5. x.made => x.new BY DEF CaptionInv
  <2> QED BY <1>6, <2>2, <2>3, <2>4, <2>5, OrphanKind
<1>7. CASE Crash
  BY <1>7, CrashKind DEF CaptionInv, NoTransfer
<1> QED
  BY <1>1, <1>2, <1>3, <1>4, <1>5, <1>6, <1>7, StepCases

-----------------------------------------------------------------------------
\* The invariant holds at the start.
LEMMA InitEstablishes ==
  ASSUME Init
  PROVE  TypeOK /\ RootInv /\ MakerInv /\ WholeInv /\ CaptionInv
<1>1. transfers \in [ Tasks -> [ Posts -> Transfer ] ] BY IdleIsTyped DEF Init
<1>2. worker \in [ Tasks -> Worker ] BY NoWorkerIsWorker DEF Init
<1>3. \A t \in Tasks : worker[t].pc = "waiting" /\ worker[t].todo = {} BY DEF Init, NoWorker
<1>4. \A t \in Tasks, p \in Posts : transfers[t][p] = NoTransfer BY DEF Init, Idle
<1>5. disk \in [ Posts -> [ FileKinds -> BOOLEAN ] ] BY DEF Init
<1>6. status \in [ Tasks -> Statuses ] BY DEF Init, Statuses
<1>7. items \in [ Tasks -> [ Posts -> ItemStatuses ] ] BY DEF Init, ItemStatuses
<1>8. /\ retryable \in [ Tasks -> BOOLEAN ] /\ located \in [ Posts -> BOOLEAN ]
      /\ root \in Tasks \cup { NoTask }
      /\ orphans = {} /\ cut = {} /\ undone = {} /\ unswept = {} /\ late = {}
  BY DEF Init
<1>9. controls \in 0 .. MaxControls /\ faults \in 0 .. MaxFaults BY DownloadsAssumption DEF Init
<1>10. TypeOK BY <1>1, <1>2, <1>5, <1>6, <1>7, <1>8, <1>9 DEF TypeOK
<1>11. RootInv BY <1>3, <1>4 DEF RootInv, RootHeld, TodoFresh, NewRegisters, Inside, NoTransfer
<1>12. MakerInv BY <1>4 DEF Init, MakerInv, PartsStay, Making, At, NoTransfer
<1>13. \A p \in Posts : ~ disk[p].media /\ ~ located[p] BY DEF Init, FileKinds
<1>14. WholeInv BY <1>4, <1>13 DEF Init, WholeInv, Making, At, NoTransfer
<1>15. CaptionInv BY <1>4, <1>8, <1>13 DEF CaptionInv, NoTransfer
<1> QED BY <1>11, <1>12, <1>14, <1>15, <1>10

\* The variables have the types the code gives them, for any tasks, posts, targets
\* and numbers of transfers, whatever is aborted or interrupted (run_download_task,
\* download_post_id and the records in task_items).
THEOREM TypeCorrect == Spec => []TypeOK
<1>1. Init => TypeOK BY InitEstablishes
<1>2. TypeOK /\ [Next]_vars => TypeOK' BY TypeInductive
<1> QED BY <1>1, <1>2, PTL DEF Spec

\* The inductive invariant holds: one task at a time has transfers, a post has one
\* maker, and what is registered is whole but for the two holes.
THEOREM InvariantHolds == Spec => [](RootInv /\ MakerInv /\ WholeInv /\ CaptionInv)
<1> DEFINE I == RootInv /\ MakerInv /\ WholeInv /\ CaptionInv
<1>1. Init => I BY InitEstablishes
<1>2. TypeOK /\ I /\ [Next]_vars => I'
  <2> SUFFICES ASSUME TypeOK, I, [Next]_vars PROVE I' OBVIOUS
  <2>1. RootInv' BY RootHeldInductive, TodoFreshInductive, NewRegistersInductive DEF RootInv
  <2> QED BY <2>1, MakerInductive, WholeInductive, CaptionInductive
<1> QED BY <1>1, <1>2, TypeCorrect, PTL DEF Spec

\* The part file of a transfer stays, although cleanup_terminal_download_part_files
\* removes every part of the directory: the sweep has the root, and so has whoever
\* has a transfer; an orphan never takes back a file somebody else is making.
THEOREM PartsStayAlways == Spec => []PartsStay
<1>1. MakerInv => PartsStay BY DEF MakerInv
<1> QED BY <1>1, InvariantHolds, PTL

\* A registered post has its file and its caption, but for the two holes that
\* RegisteredIsWhole names (register_downloaded_post_and_finish_task_item and its
\* rollback).
THEOREM RegisteredAlwaysWhole == Spec => []RegisteredIsWhole
<1>1. WholeInv /\ CaptionInv => RegisteredIsWhole BY DEF WholeInv, CaptionInv, RegisteredIsWhole
<1> QED BY <1>1, InvariantHolds, PTL

-----------------------------------------------------------------------------
(* The second half of the invariant: items, parts and counts.               *)

\* The items of a task are the posts it asks for, and only those are fetched.
Asked ==
  /\ \A t \in Tasks, p \in Posts :
       items[t][p] # "none" <=> \E i \in DOMAIN PostIds[t] : PostIds[t][i] = p
  /\ \A t \in Tasks, p \in Posts : transfers[t][p].pc # "none" => items[t][p] # "none"

Over(t) == status[t] \in TerminalStatuses

\* While no task has ended without a sweep: who waits for the root is not over,
\* and when one that is over leaves, there are no parts.
PartInv ==
  unswept = {} =>
    /\ \A p \in Posts : disk[p].part =>
         \E t \in Tasks : items[t][p] # "none" /\ (~ Over(t) \/ worker[t].pc # "none")
    /\ \A t \in Tasks : worker[t].pc = "waiting" => ~ Over(t)
    /\ \A t \in Tasks : worker[t].pc = "leaving" /\ Over(t) => \A p \in Posts : ~ disk[p].part

\* The new files of a task; those of them that no late registration made; and
\* the ones its body has yet to hear of.
Got(t) == Having(t, { "completed" })
InTime(t) == { p \in Got(t) : << t, p >> \notin late }
Unheard(t) == { p \in Posts : transfers[t][p].pc = "done" /\ transfers[t][p].result = "downloaded" }

\* What a body counts lies between what was made in time and all that was made;
\* with its transfers it stays within the target.
CountInv ==
  \A t \in Tasks :
    /\ Cardinality(InTime(t)) <= Target[t]
    /\ worker[t].pc = "body" =>
         /\ Busy(t) = {} \/ worker[t].downloaded + Cardinality(Busy(t)) <= Target[t]
         /\ Cardinality(InTime(t)) <= worker[t].downloaded + Cardinality(Unheard(t))
         /\ worker[t].downloaded + Cardinality(Unheard(t)) <= Cardinality(Got(t))

\* The task has what it wanted, or has tried everything.
DoneEnough(t) ==
  \/ Cardinality(Got(t)) >= Target[t]
  \/ \A p \in Having(t, { "queued", "failed", "retryable" }) : << t, p >> \in late

\* A body has on its list or under way whatever is queued, has heard or will hear
\* of each failure, and hears only of what is no longer queued.
Attends(t) ==
  worker[t].pc = "body" =>
    /\ status[t] # "failed"
    /\ \A p \in Posts : items[t][p] = "queued" =>
         transfers[t][p].pc # "none" \/ \E i \in worker[t].todo : PostIds[t][i] = p
    /\ \A p \in Posts : items[t][p] \in { "failed", "retryable" } =>
         \/ worker[t].failed # "none" \/ << t, p >> \in late
         \/ At(t, p, "done") /\ transfers[t][p].result \in { "failed", "retryable" }
    /\ \A p \in Posts : At(t, p, "done") /\ items[t][p] = "queued" =>
         transfers[t][p].result \in { "none", "stopped" }

\* What is complete has done enough, and a body attends to the rest.
DoneInv ==
  \A t \in Tasks :
    /\ status[t] = "completed" => DoneEnough(t)
    /\ worker[t].pc = "ended" /\ worker[t].outcome = "complete" => DoneEnough(t)
    /\ Attends(t)

-----------------------------------------------------------------------------
(* What a step does to the items, the workers and the transfers of a task.   *)

\* Only a retry, a transfer and an orphan change items, only orphans are late.
LEMMA StepsWithoutItems ==
  ASSUME NEW t \in Tasks,
         \/ UNCHANGED vars \/ Crash \/ WorkerStep(t)
         \/ PauseTask(t) \/ ResumeTask(t) \/ CancelTask(t)
  PROVE  UNCHANGED << items, late >>
<1> USE DEF history, WorkerOnly
<1>1. CASE UNCHANGED vars \/ Crash
  BY <1>1 DEF vars, Crash
<1>2. CASE EnterRoot(t) \/ StopsWaiting(t) \/ StartBody(t) \/ SpawnTransfer(t) \/ EndBody(t)
  BY <1>2 DEF EnterRoot, StopsWaiting, StartBody, SpawnTransfer, EndBody
<1>3. CASE (\E p \in Posts : JoinTransfer(t, p)) \/ Settle(t) \/ SweepParts(t) \/ Leave(t)
  BY <1>3 DEF JoinTransfer, Settle, SweepParts, Leave
<1>4. CASE PauseTask(t) \/ ResumeTask(t) \/ CancelTask(t)
  BY <1>4 DEF PauseTask, ResumeTask, CancelTask, Control
<1> QED BY <1>1, <1>2, <1>3, <1>4 DEF WorkerStep

\* A retry queues what may be retried, of a task that has failed.
LEMMA RetryItems ==
  ASSUME TypeOK, NEW t \in Tasks, RetryTask(t)
  PROVE  /\ status[t] = "failed" /\ UNCHANGED << transfers, late >>
         /\ \A u \in Tasks, p \in Posts :
              items'[u][p] = IF u = t /\ items[u][p] = "retryable" THEN "queued" ELSE items[u][p]
<1>1. items \in [ Tasks -> [ Posts -> ItemStatuses ] ] BY DEF TypeOK
<1> QED BY <1>1 DEF RetryTask, Control

\* finish_task_item, for one item.
LEMMA FinishedItems ==
  ASSUME TypeOK, NEW t \in Tasks, NEW p \in Posts, NEW r, items' = Finished(t, p, r)
  PROVE  /\ \A u \in Tasks, q \in Posts : u # t \/ q # p => items'[u][q] = items[u][q]
         /\ items'[t][p] = IF items[t][p] = "queued" THEN r ELSE items[t][p]
<1>1. items \in [ Tasks -> [ Posts -> ItemStatuses ] ] BY DEF TypeOK
<1> QED BY <1>1 DEF Finished

\* What a transfer says when it ends, and what it leaves in its item.
Reports(t, p) ==
  LET x == transfers'[t][p] IN
  \/ x.pc \notin { "none", "done" } /\ items'[t][p] = items[t][p]
  \/ x.pc = "done" /\ x.result = "stopped" /\ items'[t][p] = items[t][p]
  \/ /\ x.pc = "done" /\ x.result = "downloaded"
     /\ items[t][p] = "queued" /\ items'[t][p] = "completed"
  \/ /\ x.pc = "done" /\ x.result = "skipped"
     /\ items'[t][p] = IF items[t][p] = "queued" THEN "skipped" ELSE items[t][p]
  \/ /\ x.pc = "done" /\ x.result \in { "failed", "retryable" }
     /\ items'[t][p] = IF items[t][p] = "queued" THEN x.result ELSE items[t][p]

\* A transfer that ends with a result.
LEMMA DoneFields ==
  ASSUME TypeOK, NEW t \in Tasks, NEW p \in Posts, NEW r, Done(t, p, r)
  PROVE  transfers'[t][p].pc = "done" /\ transfers'[t][p].result = r
<1>1. transfers \in [ Tasks -> [ Posts -> Transfer ] ] BY DEF TypeOK
<1> QED BY <1>1 DEF Done, NoTransfer

\* Each step of a transfer.
LEMMA TransferReports ==
  ASSUME TypeOK, NEW t \in Tasks, NEW p \in Posts, TransferStep(t, p) \/ TransferFault(t, p)
  PROVE  /\ transfers[t][p].pc \notin { "none", "done" }
         /\ UNCHANGED << status, worker, late, unswept >>
         /\ \A u \in Tasks, q \in Posts : u # t \/ q # p => items'[u][q] = items[u][q]
         /\ Reports(t, p)
<1> USE DEF TransferOnly, At, Reports
<1>a. transfers \in [ Tasks -> [ Posts -> Transfer ] ] BY DEF TypeOK
<1>b. items \in [ Tasks -> [ Posts -> ItemStatuses ] ] BY DEF TypeOK
<1>1. CASE NoticeStop(t, p)
  BY <1>1, DoneFields DEF NoticeStop
<1>2. CASE SkipPost(t, p)
  BY <1>2, DoneFields, FinishedItems DEF SkipPost
<1>3. CASE StopTransfer(t, p)
  BY <1>3, DoneFields DEF StopTransfer
<1>4. CASE AskFails(t, p)
  <2>1. PICK r \in { "failed", "retryable" } : Done(t, p, r) /\ items' = Finished(t, p, r)
    BY <1>4 DEF AskFails
  <2> QED BY <1>4, <2>1, DoneFields, FinishedItems DEF AskFails
<1>5. CASE TransferFails(t, p)
  <2>1. PICK r \in { "failed", "retryable" } : Done(t, p, r) /\ items' = Finished(t, p, r)
    BY <1>5 DEF TransferFails
  <2> QED BY <1>5, <2>1, DoneFields, FinishedItems DEF TransferFails
<1>6. CASE TakeFile(t, p) \/ OpenPart(t, p) \/ CommitPart(t, p) \/ WriteCaption(t, p)
  <2>1. CASE TakeFile(t, p)
    BY <1>a, <2>1 DEF TakeFile, Transfer
  <2>2. CASE OpenPart(t, p) \/ CommitPart(t, p)
    BY <1>a, <2>2 DEF OpenPart, CommitPart, Transfer
  <2>3. CASE WriteCaption(t, p)
    BY <1>a, <2>3 DEF WriteCaption, Transfer
  <2> QED BY <1>6, <2>1, <2>2, <2>3
<1>7. CASE Register(t, p)
  <2>1. /\ UNCHANGED << status, worker, late, unswept >> /\ transfers[t][p].pc = "registering"
    BY <1>7 DEF Register
  <2> DEFINE x == transfers[t][p]
  <2>2. CASE Registered(t, p, x.new) /\ Done(t, p, IF x.new THEN "downloaded" ELSE "skipped")
    <3>1. /\ items[t][p] = "queued"
          /\ items' = [ items EXCEPT ![t][p] = IF x.new THEN "completed" ELSE "skipped" ]
      BY <2>2 DEF Registered
    <3>2. /\ transfers'[t][p].pc = "done"
          /\ transfers'[t][p].result = IF x.new THEN "downloaded" ELSE "skipped"
      BY <2>2, DoneFields
    <3>3. /\ \A u \in Tasks, q \in Posts : u # t \/ q # p => items'[u][q] = items[u][q]
          /\ items'[t][p] = IF x.new THEN "completed" ELSE "skipped"
      BY <1>b, <3>1
    <3> QED BY <2>1, <3>1, <3>2, <3>3
  <2>3. CASE RolledBack(t, p, x.new, x.made) /\ Done(t, p, "failed")
    BY <2>1, <2>3, DoneFields, FinishedItems DEF RolledBack
  <2> QED BY <1>7, <2>2, <2>3 DEF Register
<1>8. CASE CaptionFails(t, p)
  <2>1. PICK r \in { "failed", "retryable" } : Done(t, p, r) /\ items' = Finished(t, p, r)
    BY <1>8 DEF CaptionFails
  <2> QED BY <1>8, <2>1, DoneFields, FinishedItems DEF CaptionFails
<1> QED BY <1>1, <1>2, <1>3, <1>4, <1>5, <1>6, <1>7, <1>8 DEF TransferStep, TransferFault

\* An orphan concerns its own item, and makes it late.
LEMMA OrphanItems ==
  ASSUME TypeOK, NEW x \in orphans, RegisterOrphan(x)
  PROVE  /\ UNCHANGED << status, worker, transfers, unswept >>
         /\ x.task \in Tasks /\ x.post \in Posts /\ late' = late \cup { << x.task, x.post >> }
         /\ \A u \in Tasks, q \in Posts : u # x.task \/ q # x.post => items'[u][q] = items[u][q]
         /\ \/ items'[x.task][x.post] = items[x.task][x.post]
            \/ /\ items[x.task][x.post] = "queued"
               /\ items'[x.task][x.post] \in { "completed", "skipped", "failed" }
<1>a. items \in [ Tasks -> [ Posts -> ItemStatuses ] ] BY DEF TypeOK
<1>b. x.task \in Tasks /\ x.post \in Posts BY DEF TypeOK
<1>1. UNCHANGED << status, worker, transfers, unswept >> /\ late' = late \cup { << x.task, x.post >> }
  BY DEF RegisterOrphan
<1>2. CASE Registered(x.task, x.post, x.new)
  BY <1>a, <1>b, <1>1, <1>2 DEF Registered
<1>3. CASE RolledBack(x.task, x.post, x.new, x.made)
  BY <1>b, <1>1, <1>3, FinishedItems DEF RolledBack
<1> QED BY <1>2, <1>3 DEF RegisterOrphan

\* So an item is asked for or not for good, and changes in one of three ways.
LEMMA ItemMoves ==
  ASSUME TypeOK, [Next]_vars
  PROVE  /\ late \subseteq late'
         /\ \A t \in Tasks, p \in Posts :
              \/ items'[t][p] = items[t][p]
              \/ items[t][p] = "queued" /\ items'[t][p] \in { "completed", "skipped", "failed", "retryable" }
              \/ items[t][p] = "retryable" /\ items'[t][p] = "queued"
<1>1. CASE UNCHANGED vars
  BY <1>1 DEF vars, history
<1>2. ASSUME NEW t \in Tasks, UserStep(t)
      PROVE  UNCHANGED << items, late >> \/ RetryTask(t)
  BY <1>2, StepsWithoutItems DEF UserStep
<1>3. ASSUME NEW t \in Tasks, WorkerStep(t) PROVE UNCHANGED << items, late >>
  BY <1>3, StepsWithoutItems
<1>4. CASE Crash
  BY <1>4 DEF Crash
<1>5. ASSUME NEW t \in Tasks, RetryTask(t)
      PROVE  /\ late' = late
             /\ \A u \in Tasks, p \in Posts :
                  items'[u][p] = items[u][p] \/ (items[u][p] = "retryable" /\ items'[u][p] = "queued")
  <2>1. late' = late BY <1>5, RetryItems
  <2>2. \A u \in Tasks, p \in Posts :
          items'[u][p] = IF u = t /\ items[u][p] = "retryable" THEN "queued" ELSE items[u][p]
    BY <1>5, RetryItems
  <2> QED BY <2>1, <2>2
<1>6. ASSUME NEW t \in Tasks, NEW p \in Posts, TransferStep(t, p) \/ TransferFault(t, p)
      PROVE  /\ late' = late
             /\ \A u \in Tasks, q \in Posts :
                  \/ items'[u][q] = items[u][q]
                  \/ /\ items[u][q] = "queued"
                     /\ items'[u][q] \in { "completed", "skipped", "failed", "retryable" }
  <2>1. /\ late' = late
        /\ \A u \in Tasks, q \in Posts : u # t \/ q # p => items'[u][q] = items[u][q]
    BY <1>6, TransferReports
  <2>2. \/ items'[t][p] = items[t][p]
        \/ items[t][p] = "queued" /\ items'[t][p] \in { "completed", "skipped", "failed", "retryable" }
    BY <1>6, TransferReports DEF Reports
  <2> QED BY <2>1, <2>2
<1>7. ASSUME NEW x \in orphans, RegisterOrphan(x)
      PROVE  /\ late \subseteq late'
             /\ \A u \in Tasks, q \in Posts :
                  \/ items'[u][q] = items[u][q]
                  \/ /\ items[u][q] = "queued"
                     /\ items'[u][q] \in { "completed", "skipped", "failed", "retryable" }
  BY <1>7, OrphanItems
<1> QED BY <1>1, <1>2, <1>3, <1>4, <1>5, <1>6, <1>7 DEF Next

-----------------------------------------------------------------------------
(* Parts.                                                                   *)

\* A task asks for the posts of its positions, for good.
LEMMA AskedInductive == ASSUME TypeOK, RootInv, Asked, [Next]_vars PROVE Asked'
<1>a. transfers \in [ Tasks -> [ Posts -> Transfer ] ] BY DEF TypeOK
<1>b. \A t \in Tasks, p \in Posts : items'[t][p] # "none" <=> items[t][p] # "none"
  BY ItemMoves
<1> SUFFICES ASSUME NEW t \in Tasks, NEW p \in Posts, transfers'[t][p].pc # "none"
             PROVE  items[t][p] # "none"
  BY <1>b DEF Asked
<1>1. CASE transfers[t][p].pc # "none"
  BY <1>1 DEF Asked
<1>2. ASSUME NEW u \in Tasks, SpawnTransfer(u), transfers[t][p].pc = "none" PROVE items[t][p] # "none"
  <2>1. PICK i \in worker[u].todo :
          transfers' = [ transfers EXCEPT ![u][PostIds[u][i]].pc = "asking" ]
    BY <1>2 DEF SpawnTransfer
  <2>2. i \in DOMAIN PostIds[u] /\ PostIds[u][i] \in Posts
    BY PostsOfPositions DEF RootInv, TodoFresh
  <2>3. t = u /\ p = PostIds[u][i]
    BY <1>a, <1>2, <2>1, <2>2
  <2> QED BY <2>2, <2>3 DEF Asked
<1>3. ASSUME NEW u \in Tasks, NEW q \in Posts, JoinTransfer(u, q), transfers[t][p].pc = "none"
      PROVE  items[t][p] # "none"
  <2>1. \/ transfers' = [ transfers EXCEPT ![u][q] = NoTransfer ]
        \/ transfers' = [ transfers EXCEPT ![u] = Idle ]
    BY <1>3 DEF JoinTransfer, AbortAll
  <2> QED BY <1>a, <1>3, <2>1 DEF Idle, NoTransfer
<1>4. ASSUME NEW u \in Tasks, NEW q \in Posts, TransferStep(u, q) \/ TransferFault(u, q),
             transfers[t][p].pc = "none"
      PROVE  items[t][p] # "none"
  BY <1>4, TransferReports, TransferIsLocal
<1>5. ASSUME NEW x \in orphans, RegisterOrphan(x), transfers[t][p].pc = "none"
      PROVE  items[t][p] # "none"
  BY <1>5, OrphanItems
<1>6. CASE Crash
  BY <1>6, CrashKind DEF NoTransfer
<1>7. ASSUME NEW u \in Tasks, SweepParts(u), transfers[t][p].pc = "none" PROVE items[t][p] # "none"
  BY <1>7 DEF SweepParts
<1> QED
  BY <1>1, <1>2, <1>3, <1>4, <1>5, <1>6, <1>7, StepCases

\* Only a transfer that runs opens a part.
LEMMA PartsAppear ==
  ASSUME TypeOK, [Next]_vars, NEW p \in Posts, disk'[p].part, ~ disk[p].part
  PROVE  \E t \in Tasks : At(t, p, "asking") /\ status[t] = "running"
                           /\ UNCHANGED << status, worker, unswept >>
<1>a. disk \in [ Posts -> [ FileKinds -> BOOLEAN ] ] /\ "part" \in FileKinds BY DEF TypeOK, FileKinds
<1>1. CASE UNCHANGED << transfers, orphans, disk, located, cut, undone >>
  BY <1>1
<1>2. ASSUME NEW t \in Tasks, SpawnTransfer(t) PROVE FALSE
  BY <1>2 DEF SpawnTransfer, files
<1>3. ASSUME NEW t \in Tasks, SweepParts(t) PROVE FALSE
  BY <1>3, <1>a DEF SweepParts
<1>4. ASSUME NEW t \in Tasks, NEW q \in Posts, JoinTransfer(t, q) PROVE FALSE
  BY <1>4 DEF JoinTransfer, files
<1>5. ASSUME NEW t \in Tasks, NEW q \in Posts, TransferStep(t, q) \/ TransferFault(t, q)
      PROVE  At(t, p, "asking") /\ status[t] = "running" /\ UNCHANGED << status, worker, unswept >>
  <2>1. q = p BY <1>5, TransferIsLocal
  <2>2. CASE OpenPart(t, q) BY <2>1, <2>2 DEF OpenPart, TransferOnly
  <2>3. CASE NoticeStop(t, q) \/ SkipPost(t, q) \/ TakeFile(t, q) \/ AskFails(t, q)
    BY <2>3 DEF NoticeStop, SkipPost, TakeFile, AskFails
  <2>4. CASE StopTransfer(t, q) \/ CommitPart(t, q) \/ WriteCaption(t, q)
    BY <1>a, <2>1, <2>4 DEF StopTransfer, CommitPart, WriteCaption, FileKinds
  <2>5. CASE TransferFails(t, q) \/ CaptionFails(t, q)
    BY <1>a, <2>1, <2>5 DEF TransferFails, CaptionFails, FileKinds
  <2>6. CASE Register(t, q)
    BY <1>a, <2>1, <2>6 DEF Register, Registered, RolledBack, FileKinds
  <2> QED BY <1>5, <2>2, <2>3, <2>4, <2>5, <2>6 DEF TransferStep, TransferFault
<1>6. ASSUME NEW x \in orphans, RegisterOrphan(x) PROVE FALSE
  <2>1. x.post \in Posts BY DEF TypeOK
  <2> QED BY <1>6, <1>a, <2>1 DEF RegisterOrphan, Registered, RolledBack, FileKinds
<1>7. CASE Crash
  BY <1>7, CrashKind
<1> QED BY <1>1, <1>2, <1>3, <1>4, <1>5, <1>6, <1>7, StepCases

\* What becomes of a task and its worker: the task is not over, or its worker is
\* between the wait and the end, or both stay; or nobody sweeps, or somebody has;
\* or it stops waiting or leaves.
TaskMoves(t) ==
  \/ ~ Over(t)'
  \/ worker'[t].pc \notin { "none", "waiting", "leaving" }
  \/ status'[t] = status[t] /\ worker'[t].pc = worker[t].pc
  \/ t \in unswept'
  \/ status'[t] = status[t] /\ worker[t].pc = "waiting" /\ worker'[t].pc = "none"
  \/ worker'[t].pc = "leaving" /\ \A p \in Posts : ~ disk'[p].part
  \/ status'[t] = status[t] /\ worker[t].pc = "leaving" /\ worker'[t].pc = "none" /\ disk' = disk

\* A user ends a task only by a cancellation, with a worker that will sweep or
\* without one.
LEMMA UserMoves ==
  ASSUME TypeOK, NEW t \in Tasks, UserStep(t), NEW u \in Tasks
  PROVE  unswept \subseteq unswept' /\ TaskMoves(u)
<1>a. status \in [ Tasks -> Statuses ] /\ worker \in [ Tasks -> Worker ] BY DEF TypeOK
<1>1. CASE u # t
  <2>1. status'[u] = status[u] /\ worker'[u] = worker[u] /\ unswept \subseteq unswept'
    BY <1>1, <1>a DEF UserStep, PauseTask, ResumeTask, CancelTask, RetryTask, Control, SpawnWorker
  <2> QED BY <2>1 DEF TaskMoves
<1>2. CASE u = t /\ (PauseTask(t) \/ ResumeTask(t) \/ RetryTask(t))
  <2>1. /\ unswept' = unswept
        /\ status'[t] \in { "paused", "pausing", "queued" }
    BY <1>2, <1>a DEF PauseTask, ResumeTask, RetryTask, Control, PauseTarget
  <2> QED BY <1>2, <2>1 DEF TaskMoves, Over, TerminalStatuses
<1>3. CASE u = t /\ CancelTask(t)
  <2>1. worker' = worker /\ status'[t] \in { "cancelling", "cancelled" }
    BY <1>3, <1>a DEF CancelTask, Control, CancelTarget
  <2>2. unswept' = IF status'[t] = "cancelled" /\ Sweepless(t) THEN unswept \cup { t } ELSE unswept
    BY <1>3 DEF CancelTask
  <2>3. CASE status'[t] = "cancelling"
    BY <1>3, <2>2, <2>3 DEF TaskMoves, Over, TerminalStatuses
  <2>4. CASE Sweepless(t) /\ status'[t] = "cancelled"
    BY <1>3, <2>2, <2>4 DEF TaskMoves
  <2>5. CASE ~ Sweepless(t)
    BY <1>3, <2>1, <2>2, <2>5 DEF TaskMoves, Sweepless
  <2> QED BY <2>1, <2>3, <2>4, <2>5
<1> QED BY <1>1, <1>2, <1>3 DEF UserStep

\* A worker sweeps before it leaves.
LEMMA WorkerMovesTask ==
  ASSUME TypeOK, NEW t \in Tasks, WorkerStep(t), NEW u \in Tasks
  PROVE  unswept \subseteq unswept' /\ TaskMoves(u)
<1> USE DEF WorkerOnly, history, files, bounds
<1>a. /\ status \in [ Tasks -> Statuses ] /\ worker \in [ Tasks -> Worker ]
      /\ disk \in [ Posts -> [ FileKinds -> BOOLEAN ] ]
  BY DEF TypeOK
<1>1. unswept' = unswept
  BY DEF WorkerStep, EnterRoot, StopsWaiting, StartBody, SpawnTransfer, EndBody, JoinTransfer, Settle,
         SweepParts, Leave
<1>2. CASE EnterRoot(t)
  BY <1>1, <1>2, <1>a DEF EnterRoot, TaskMoves, Worker
<1>3. CASE StopsWaiting(t)
  BY <1>1, <1>3, <1>a DEF StopsWaiting, TaskMoves, Worker, NoWorker
<1>4. CASE StartBody(t)
  <2>1. worker'[t].pc \in { "body", "ended" } /\ (u # t => worker'[u] = worker[u] /\ status'[u] = status[u])
    BY <1>4, <1>a DEF StartBody, Worker
  <2> QED BY <1>1, <2>1 DEF TaskMoves
<1>5. CASE SpawnTransfer(t)
  <2>1. PICK i \in worker[t].todo : worker' = [ worker EXCEPT ![t].todo = @ \ { i } ]
    BY <1>5 DEF SpawnTransfer
  <2>2. worker'[u].pc = worker[u].pc /\ status' = status
    BY <1>5, <1>a, <2>1 DEF SpawnTransfer, Worker
  <2> QED BY <1>1, <2>2 DEF TaskMoves
<1>6. CASE EndBody(t)
  BY <1>1, <1>6, <1>a DEF EndBody, TaskMoves, Worker
<1>7. ASSUME NEW p \in Posts, JoinTransfer(t, p) PROVE TaskMoves(u)
  <2>1. worker[t].pc = "body" BY <1>7 DEF JoinTransfer
  <2>2. worker'[t].pc \in { "body", "ended" } /\ (u # t => worker'[u].pc = worker[u].pc)
    <3>1. CASE AbortAll(t)
      BY <1>a, <3>1 DEF AbortAll, Worker
    <3>2. CASE ~ AbortAll(t)
      BY <1>a, <1>7, <2>1, <3>2 DEF JoinTransfer, Worker
    <3> QED BY <3>1, <3>2
  <2>3. u # t => status'[u] = status[u]
    BY <1>7, <1>a DEF JoinTransfer
  <2> QED BY <2>2, <2>3 DEF TaskMoves
<1>8. CASE Settle(t)
  <2>1. worker'[t].pc = "settled" /\ (u # t => worker'[u] = worker[u] /\ status'[u] = status[u])
    BY <1>8, <1>a DEF Settle, Worker
  <2> QED BY <1>1, <2>1 DEF TaskMoves
<1>9. CASE SweepParts(t)
  <2>1. /\ worker'[t].pc = "leaving" /\ status' = status /\ (u # t => worker'[u] = worker[u])
        /\ disk' = IF Sweeps(t) THEN [ p \in Posts |-> [ disk[p] EXCEPT !.part = FALSE ] ] ELSE disk
    BY <1>9, <1>a DEF SweepParts, Worker
  <2>2. Sweeps(t) => \A p \in Posts : ~ disk'[p].part
    BY <1>a, <2>1 DEF FileKinds
  <2>3. ~ Sweeps(t) => ~ Over(t)'
    BY <2>1 DEF Sweeps, Over, TerminalStatuses
  <2> QED BY <1>1, <2>1, <2>2, <2>3 DEF TaskMoves
<1>10. CASE Leave(t)
  <2>1. /\ worker[t].pc = "leaving" /\ status' = status /\ disk' = disk
        /\ u # t => worker'[u] = worker[u]
    BY <1>10, <1>a DEF Leave
  <2>2. IF status[t] = "queued" THEN worker'[t].pc = "waiting" ELSE worker'[t].pc = "none"
    BY <1>10, <1>a DEF Leave, NoWorker
  <2>3. status[t] = "queued" => ~ Over(t)'
    BY <2>1 DEF Over, TerminalStatuses
  <2> QED BY <1>1, <2>1, <2>2, <2>3 DEF TaskMoves
<1> QED
  BY <1>1, <1>2, <1>3, <1>4, <1>5, <1>6, <1>7, <1>8, <1>9, <1>10 DEF WorkerStep

\* So it is for every step.
LEMMA TasksMove ==
  ASSUME TypeOK, [Next]_vars, NEW u \in Tasks
  PROVE  unswept \subseteq unswept' /\ TaskMoves(u)
<1>1. CASE UNCHANGED vars
  BY <1>1 DEF vars, history, TaskMoves
<1>2. ASSUME NEW t \in Tasks, UserStep(t) PROVE unswept \subseteq unswept' /\ TaskMoves(u)
  BY <1>2, UserMoves
<1>3. ASSUME NEW t \in Tasks, WorkerStep(t) PROVE unswept \subseteq unswept' /\ TaskMoves(u)
  BY <1>3, WorkerMovesTask
<1>4. ASSUME NEW t \in Tasks, NEW p \in Posts, TransferStep(t, p) \/ TransferFault(t, p)
      PROVE  unswept \subseteq unswept' /\ TaskMoves(u)
  BY <1>4, TransferReports DEF TaskMoves
<1>5. ASSUME NEW x \in orphans, RegisterOrphan(x) PROVE unswept \subseteq unswept' /\ TaskMoves(u)
  BY <1>5, OrphanItems DEF TaskMoves
<1>6. CASE Crash
  <2> DEFINE after == RecoveredStatus(status[u], TRUE)
  <2>1. /\ status'[u] = after
        /\ worker'[u].pc = IF after = "queued" THEN "waiting" ELSE "none"
        /\ unswept \subseteq unswept'
        /\ after \in TerminalStatuses /\ (status[u] # after \/ worker[u].pc # "none") => u \in unswept'
    BY <1>6 DEF Crash, NoWorker
  <2>2. after = "queued" => after \notin TerminalStatuses
    BY DEF TerminalStatuses
  <2> QED BY <2>1, <2>2 DEF TaskMoves, Over
<1> QED BY <1>1, <1>2, <1>3, <1>4, <1>5, <1>6 DEF Next

\* No part is forgotten.
LEMMA PartInductive ==
  ASSUME TypeOK, RootInv, Asked, PartInv, [Next]_vars
  PROVE  PartInv'
<1> SUFFICES ASSUME unswept' = {} PROVE
      /\ \A p \in Posts : disk'[p].part =>
           \E t \in Tasks : items'[t][p] # "none" /\ (~ Over(t)' \/ worker'[t].pc # "none")
      /\ \A t \in Tasks : worker'[t].pc = "waiting" => ~ Over(t)'
      /\ \A t \in Tasks : worker'[t].pc = "leaving" /\ Over(t)' => \A p \in Posts : ~ disk'[p].part
  BY DEF PartInv, Over
<1>a. /\ \A p \in Posts : disk[p].part =>
           \E t \in Tasks : items[t][p] # "none" /\ (~ Over(t) \/ worker[t].pc # "none")
      /\ \A t \in Tasks : worker[t].pc = "waiting" => ~ Over(t)
      /\ \A t \in Tasks : worker[t].pc = "leaving" /\ Over(t) => \A p \in Posts : ~ disk[p].part
  <2>1. \A t \in Tasks : unswept \subseteq unswept' BY TasksMove
  <2>2. Tasks = {} => unswept = {} BY DEF TypeOK
  <2>3. unswept = {} BY <2>1, <2>2
  <2> QED BY <2>3 DEF PartInv
<1>b. \A t \in Tasks : TaskMoves(t) /\ t \notin unswept' BY TasksMove
<1>c. \A t \in Tasks : status'[t] = status[t] => (Over(t)' <=> Over(t)) BY DEF Over
<1>1. ASSUME NEW t \in Tasks, worker'[t].pc = "waiting" PROVE ~ Over(t)'
  BY <1>1, <1>a, <1>b, <1>c DEF TaskMoves
<1>2. ASSUME NEW t \in Tasks, worker'[t].pc = "leaving", Over(t)', NEW p \in Posts PROVE ~ disk'[p].part
  <2>1. CASE \A q \in Posts : ~ disk'[q].part
    BY <2>1
  <2>2. CASE status'[t] = status[t] /\ worker[t].pc = "leaving"
    <3>1. ~ disk[p].part
      BY <1>2, <1>a, <1>c, <2>2
    <3>2. ASSUME NEW u \in Tasks, At(u, p, "asking") PROVE FALSE
      <4>1. worker[u].pc = "body"
        BY <3>2 DEF At, RootInv, RootHeld
      <4> QED BY <2>2, <4>1 DEF RootInv, RootHeld, Inside
    <3> QED BY <3>1, <3>2, PartsAppear
  <2> QED BY <1>2, <1>b, <2>1, <2>2 DEF TaskMoves
<1>3. ASSUME NEW p \in Posts, disk'[p].part
      PROVE  \E t \in Tasks : items'[t][p] # "none" /\ (~ Over(t)' \/ worker'[t].pc # "none")
  <2>a. \A t \in Tasks : items[t][p] # "none" => items'[t][p] # "none" BY ItemMoves
  <2>1. CASE disk[p].part
    <3>1. PICK t \in Tasks : items[t][p] # "none" /\ (~ Over(t) \/ worker[t].pc # "none")
      BY <1>a, <2>1
    <3>2. ~ Over(t)' \/ worker'[t].pc # "none"
      <4>1. CASE disk' = disk /\ status'[t] = status[t] /\ worker[t].pc = "leaving"
        BY <1>a, <1>c, <2>1, <4>1
      <4> QED BY <1>a, <1>b, <1>c, <3>1, <4>1 DEF TaskMoves
    <3> QED BY <2>a, <3>1, <3>2
  <2>2. CASE ~ disk[p].part
    <3>1. PICK t \in Tasks :
            At(t, p, "asking") /\ status[t] = "running" /\ UNCHANGED << status, worker, unswept >>
      BY <1>3, <2>2, PartsAppear
    <3>2. items[t][p] # "none" BY <3>1 DEF At, Asked
    <3>3. ~ Over(t)' BY <3>1 DEF Over, TerminalStatuses
    <3> QED BY <2>a, <3>2, <3>3
  <2> QED BY <2>1, <2>2
<1> QED BY <1>1, <1>2, <1>3

-----------------------------------------------------------------------------
(* Counts.                                                                  *)

\* What becomes of a task's sets and its count: they stay, or it has no body;
\* a body begins; a transfer is spawned, joined or moves on, maybe to a new file;
\* an orphan comes late.
Rests(t) ==
  /\ Got(t)' = Got(t) /\ InTime(t)' = InTime(t)
  /\ worker'[t].pc = "body" =>
       /\ worker[t].pc = "body" /\ worker'[t].downloaded = worker[t].downloaded
       /\ Busy(t)' = Busy(t) /\ Unheard(t)' = Unheard(t)

Begins(t) ==
  /\ Got(t)' = Got(t) /\ InTime(t)' = InTime(t)
  /\ worker'[t].downloaded = Cardinality(Got(t)) /\ Busy(t)' = {} /\ Unheard(t)' = {}

Spawns(t, p) ==
  /\ Got(t)' = Got(t) /\ InTime(t)' = InTime(t) /\ worker[t].pc = "body"
  /\ worker[t].downloaded + Cardinality(Busy(t)) < Target[t]
  /\ worker'[t].downloaded = worker[t].downloaded
  /\ Busy(t)' = Busy(t) \cup { p } /\ Unheard(t)' = Unheard(t)

Joins(t, p) ==
  /\ Got(t)' = Got(t) /\ InTime(t)' = InTime(t) /\ worker[t].pc = "body"
  /\ p \in Busy(t)
  /\ worker'[t].downloaded = IF p \in Unheard(t) THEN worker[t].downloaded + 1 ELSE worker[t].downloaded
  /\ Busy(t)' = Busy(t) \ { p } /\ Unheard(t)' = Unheard(t) \ { p }

Moves(t, p) ==
  /\ worker[t].pc = "body" /\ worker'[t].downloaded = worker[t].downloaded
  /\ p \in Busy(t) \ Unheard(t) /\ Busy(t)' = Busy(t)
  /\ \/ Got(t)' = Got(t) /\ InTime(t)' = InTime(t) /\ Unheard(t)' = Unheard(t)
     \/ /\ p \notin Got(t) /\ Got(t)' = Got(t) \cup { p } /\ InTime(t)' \subseteq InTime(t) \cup { p }
        /\ Unheard(t)' = Unheard(t) \cup { p }

ComesLate(t) ==
  /\ Got(t) \subseteq Got(t)' /\ InTime(t)' \subseteq InTime(t)
  /\ worker'[t] = worker[t] /\ Busy(t)' = Busy(t) /\ Unheard(t)' = Unheard(t)

CountKind(t) ==
  \/ Rests(t) \/ Begins(t) \/ ComesLate(t)
  \/ \E p \in Posts : Spawns(t, p) \/ Joins(t, p) \/ Moves(t, p)

\* The sets in the next state.
LEMMA SetsNext ==
  ASSUME NEW t \in Tasks
  PROVE  /\ Got(t) = { p \in Posts : items[t][p] = "completed" }
         /\ Got(t)' = { p \in Posts : items'[t][p] = "completed" }
         /\ InTime(t)' = { p \in Got(t)' : << t, p >> \notin late' }
         /\ Busy(t)' = { p \in Posts : transfers'[t][p].pc # "none" }
         /\ Unheard(t)' = { p \in Posts : transfers'[t][p].pc = "done"
                                          /\ transfers'[t][p].result = "downloaded" }
  BY DEF Got, Having, InTime, Busy, Unheard

\* The items and the late ones stay.
LEMMA GotStays ==
  ASSUME NEW t \in Tasks, \A p \in Posts : items'[t][p] = "completed" <=> items[t][p] = "completed",
         \A p \in Posts : << t, p >> \in late' <=> << t, p >> \in late
  PROVE  Got(t)' = Got(t) /\ InTime(t)' = InTime(t)
<1>1. Got(t)' = Got(t)
  <2>1. { p \in Posts : items'[t][p] = "completed" } = { p \in Posts : items[t][p] = "completed" }
    OBVIOUS
  <2> QED BY <2>1, SetsNext
<1>2. \A p \in Got(t) : p \in Posts BY SetsNext
<1> QED BY <1>1, <1>2, SetsNext DEF InTime

\* Another task's step.
LEMMA OthersRest ==
  ASSUME NEW t \in Tasks, \A p \in Posts : items'[t][p] = "completed" <=> items[t][p] = "completed",
         \A p \in Posts : << t, p >> \in late' <=> << t, p >> \in late,
         \/ worker'[t].pc # "body"
         \/ worker'[t] = worker[t] /\ \A p \in Posts : transfers'[t][p] = transfers[t][p]
  PROVE  Rests(t)
<1>1. Got(t)' = Got(t) /\ InTime(t)' = InTime(t) BY GotStays
<1>2. (\A p \in Posts : transfers'[t][p] = transfers[t][p]) =>
        Busy(t)' = Busy(t) /\ Unheard(t)' = Unheard(t)
  BY SetsNext DEF Busy, Unheard
<1> QED BY <1>1, <1>2 DEF Rests

\* The user starts no body and ends none.
LEMMA UserRests ==
  ASSUME TypeOK, NEW t \in Tasks, UserStep(t), NEW u \in Tasks
  PROVE  Rests(u)
<1>1. /\ late' = late /\ transfers' = transfers
      /\ \A p \in Posts : items'[u][p] = "completed" <=> items[u][p] = "completed"
  <2>1. CASE RetryTask(t)
    BY <2>1, RetryItems
  <2>2. CASE PauseTask(t) \/ ResumeTask(t) \/ CancelTask(t)
    BY <2>2, StepsWithoutItems DEF PauseTask, ResumeTask, CancelTask, Control
  <2> QED BY <2>1, <2>2 DEF UserStep
<1>2. worker'[u].pc = "body" => worker'[u] = worker[u]
  <2>a. worker \in [ Tasks -> Worker ] BY DEF TypeOK
  <2>1. \/ worker' = worker
        \/ worker[t].pc = "none" /\ worker' = [ worker EXCEPT ![t].pc = "waiting" ]
    <3>1. CASE PauseTask(t)  BY <3>1 DEF PauseTask
    <3>2. CASE ResumeTask(t) BY <3>2 DEF ResumeTask, SpawnWorker
    <3>3. CASE CancelTask(t) BY <3>3 DEF CancelTask
    <3>4. CASE RetryTask(t)  BY <3>4 DEF RetryTask, SpawnWorker
    <3> QED BY <3>1, <3>2, <3>3, <3>4 DEF UserStep
  <2> QED BY <2>a, <2>1 DEF Worker
<1> QED BY <1>1, <1>2, OthersRest

\* A worker begins a body, spawns and joins.
LEMMA WorkerCountKinds ==
  ASSUME TypeOK, RootInv, NEW t \in Tasks, WorkerStep(t), NEW u \in Tasks
  PROVE  CountKind(u)
<1>a. worker \in [ Tasks -> Worker ] /\ transfers \in [ Tasks -> [ Posts -> Transfer ] ]
  BY DEF TypeOK
<1>b. UNCHANGED << items, late >> BY StepsWithoutItems
<1>c. worker'[u].pc # "body" => Rests(u) BY <1>b, OthersRest
<1>d. worker'[u] = worker[u] /\ (\A p \in Posts : transfers'[u][p] = transfers[u][p]) => Rests(u)
  BY <1>b, OthersRest
<1>e. Got(u)' = Got(u) /\ InTime(u)' = InTime(u) BY <1>b, GotStays
<1>1. CASE EnterRoot(t) \/ StopsWaiting(t) \/ EndBody(t) \/ Settle(t) \/ SweepParts(t) \/ Leave(t)
  <2>1. transfers' = transfers /\ (u # t => worker'[u] = worker[u])
    BY <1>1, <1>a DEF EnterRoot, StopsWaiting, EndBody, Settle, SweepParts, Leave, WorkerOnly
  <2>2. worker'[t].pc # "body"
    BY <1>1, <1>a DEF EnterRoot, StopsWaiting, EndBody, Settle, SweepParts, Leave, Worker, NoWorker
  <2> QED BY <1>c, <1>d, <2>1, <2>2 DEF CountKind
<1>2. CASE StartBody(t)
  <2>1. transfers' = transfers /\ (u # t => worker'[u] = worker[u]) /\ worker[t].pc = "ready"
    BY <1>2, <1>a DEF StartBody, WorkerOnly
  <2>2. CASE u = t /\ status[t] = "queued"
    <3>1. worker'[t].downloaded = Cardinality(Got(t))
      BY <1>2, <1>a, <2>2 DEF StartBody, Counts, Got
    <3>2. \A p \in Posts : transfers'[t][p].pc = "none"
      BY <2>1 DEF RootInv, RootHeld
    <3>3. Busy(t)' = {} /\ Unheard(t)' = {}
      BY <3>2, SetsNext
    <3> QED BY <1>e, <2>2, <3>1, <3>3 DEF Begins, CountKind
  <2>3. CASE status[t] # "queued"
    <3>1. worker'[t].pc # "body"
      BY <1>2, <1>a, <2>3 DEF StartBody, Worker
    <3> QED BY <1>c, <1>d, <2>1, <3>1 DEF CountKind
  <2> QED BY <1>d, <2>1, <2>2, <2>3 DEF CountKind
<1>3. CASE SpawnTransfer(t)
  <2>1. PICK i \in worker[t].todo :
          /\ transfers' = [ transfers EXCEPT ![t][PostIds[t][i]].pc = "asking" ]
          /\ worker' = [ worker EXCEPT ![t].todo = @ \ { i } ]
    BY <1>3 DEF SpawnTransfer
  <2> DEFINE p == PostIds[t][i]
  <2>2. p \in Posts /\ transfers[t][p].pc = "none"
    BY PostsOfPositions DEF RootInv, TodoFresh
  <2>3. worker[t].pc = "body" /\ worker[t].downloaded + Cardinality(Busy(t)) < Target[t]
    BY <1>3 DEF SpawnTransfer, CanSpawn
  <2>4. CASE u = t
    <3>1. worker'[t].downloaded = worker[t].downloaded
      BY <1>a, <2>1 DEF Worker
    <3>2. transfers'[t][p].pc = "asking" /\ \A q \in Posts : q # p => transfers'[t][q] = transfers[t][q]
      BY <1>a, <2>1, <2>2 DEF Transfer
    <3> HIDE DEF p
    <3>3. Busy(t)' = Busy(t) \cup { p }
      BY <2>2, <3>2, SetsNext DEF Busy
    <3>4. Unheard(t)' = Unheard(t)
      BY <2>2, <3>2, SetsNext DEF Unheard
    <3> QED BY <1>e, <2>2, <2>3, <2>4, <3>1, <3>3, <3>4 DEF Spawns, CountKind
  <2>5. CASE u # t
    BY <1>a, <1>d, <2>1, <2>5 DEF CountKind
  <2> QED BY <2>4, <2>5
<1>4. ASSUME NEW p \in Posts, JoinTransfer(t, p) PROVE CountKind(u)
  <2>1. worker[t].pc = "body" /\ transfers[t][p].pc = "done"
    BY <1>4 DEF JoinTransfer, At
  <2>2. CASE u = t /\ AbortAll(t)
    <3>1. worker'[t].pc # "body" BY <1>a, <2>2 DEF AbortAll, Worker
    <3> QED BY <1>c, <2>2, <3>1 DEF CountKind
  <2>3. CASE u = t /\ ~ AbortAll(t)
    <3>1. transfers' = [ transfers EXCEPT ![t][p] = NoTransfer ] BY <1>4, <2>3 DEF JoinTransfer
    <3>2. transfers'[t][p].pc = "none" /\ \A q \in Posts : q # p => transfers'[t][q] = transfers[t][q]
      BY <1>a, <3>1 DEF NoTransfer
    <3>3. worker'[t].downloaded =
            IF transfers[t][p].result = "downloaded" THEN worker[t].downloaded + 1 ELSE worker[t].downloaded
      BY <1>4, <1>a, <2>3 DEF JoinTransfer, Worker
    <3>4. p \in Unheard(t) <=> transfers[t][p].result = "downloaded"
      BY <2>1 DEF Unheard
    <3>5. Busy(t)' = Busy(t) \ { p } /\ p \in Busy(t)
      BY <2>1, <3>2, SetsNext DEF Busy
    <3>6. Unheard(t)' = Unheard(t) \ { p }
      BY <3>2, SetsNext DEF Unheard
    <3> QED BY <1>e, <2>1, <2>3, <3>3, <3>4, <3>5, <3>6 DEF Joins, CountKind
  <2>4. CASE u # t
    <3>1. worker'[u] = worker[u] /\ \A q \in Posts : transfers'[u][q] = transfers[u][q]
      BY <1>4, <1>a, <2>4 DEF JoinTransfer, AbortAll
    <3> QED BY <1>d, <3>1 DEF CountKind
  <2> QED BY <2>2, <2>3, <2>4
<1> QED BY <1>1, <1>2, <1>3, <1>4 DEF WorkerStep

\* A transfer moves on, within a body.
LEMMA TransferCountKinds ==
  ASSUME TypeOK, RootInv, NEW t \in Tasks, NEW p \in Posts, TransferStep(t, p) \/ TransferFault(t, p),
         NEW u \in Tasks
  PROVE  CountKind(u)
<1>1. /\ transfers[t][p].pc \notin { "none", "done" } /\ worker' = worker /\ late' = late
      /\ \A v \in Tasks, q \in Posts : v # t \/ q # p => items'[v][q] = items[v][q]
      /\ \A v \in Tasks, q \in Posts : v # t \/ q # p => transfers'[v][q] = transfers[v][q]
  BY TransferReports, TransferIsLocal
<1>2. Reports(t, p) BY TransferReports
<1>3. CASE u # t
  BY <1>1, <1>3, OthersRest DEF CountKind
<1>4. CASE u = t
  <2>1. worker[t].pc = "body" BY <1>1 DEF RootInv, RootHeld
  <2>2. transfers'[t][p].pc # "none" BY <1>2 DEF Reports
  <2>3. p \in Busy(t) /\ p \notin Unheard(t) BY <1>1 DEF Busy, Unheard
  <2>4. Busy(t)' = Busy(t)
    BY <1>1, <2>2, SetsNext DEF Busy
  <2>5. CASE transfers'[t][p].pc = "done" /\ transfers'[t][p].result = "downloaded"
    <3>1. items[t][p] = "queued" /\ items'[t][p] = "completed"
      BY <1>2, <2>5 DEF Reports
    <3>2. Unheard(t)' = Unheard(t) \cup { p }
      BY <1>1, <2>5, SetsNext DEF Unheard
    <3>3. Got(t)' = Got(t) \cup { p } /\ p \notin Got(t)
      BY <1>1, <3>1, SetsNext
    <3>4. InTime(t)' \subseteq InTime(t) \cup { p }
      BY <1>1, <3>3, SetsNext DEF InTime
    <3> QED BY <1>1, <1>4, <2>1, <2>3, <2>4, <3>2, <3>3, <3>4 DEF Moves, CountKind
  <2>6. CASE ~ (transfers'[t][p].pc = "done" /\ transfers'[t][p].result = "downloaded")
    <3>1. items'[t][p] = "completed" <=> items[t][p] = "completed"
      BY <1>2, <2>6 DEF Reports
    <3>2. Unheard(t)' = Unheard(t)
      BY <1>1, <2>6, SetsNext DEF Unheard
    <3>3. Got(t)' = Got(t) /\ InTime(t)' = InTime(t)
      <4>1. \A q \in Posts : items'[t][q] = "completed" <=> items[t][q] = "completed"
        BY <1>1, <3>1
      <4> QED BY <1>1, <4>1, GotStays
    <3> QED BY <1>1, <1>4, <2>1, <2>3, <2>4, <3>2, <3>3 DEF Moves, CountKind
  <2> QED BY <2>5, <2>6
<1> QED BY <1>3, <1>4

\* Every step, for every task.
LEMMA CountKinds ==
  ASSUME TypeOK, RootInv, [Next]_vars, NEW u \in Tasks
  PROVE  CountKind(u)
<1>1. CASE UNCHANGED vars
  BY <1>1, OthersRest DEF vars, history, CountKind
<1>2. ASSUME NEW t \in Tasks, UserStep(t) PROVE CountKind(u)
  BY <1>2, UserRests DEF CountKind
<1>3. ASSUME NEW t \in Tasks, WorkerStep(t) PROVE CountKind(u)
  BY <1>3, WorkerCountKinds
<1>4. ASSUME NEW t \in Tasks, NEW p \in Posts, TransferStep(t, p) \/ TransferFault(t, p)
      PROVE  CountKind(u)
  BY <1>4, TransferCountKinds
<1>5. ASSUME NEW x \in orphans, RegisterOrphan(x) PROVE CountKind(u)
  <2>1. /\ UNCHANGED << worker, transfers >> /\ late \subseteq late'
        /\ \A q \in Posts : << u, q >> \in late' => << u, q >> \in late \/ (u = x.task /\ q = x.post)
        /\ \A q \in Posts : u # x.task \/ q # x.post => items'[u][q] = items[u][q]
        /\ u = x.task => << u, x.post >> \in late'
    BY <1>5, OrphanItems
  <2>2. \A q \in Posts : items[u][q] = "completed" => items'[u][q] = "completed"
    BY <1>5, OrphanItems
  <2>3. Got(u) \subseteq Got(u)' BY <2>2, SetsNext
  <2>4. InTime(u)' \subseteq InTime(u)
    <3> SUFFICES ASSUME NEW q \in InTime(u)' PROVE q \in InTime(u)
      OBVIOUS
    <3>1. q \in Posts /\ items'[u][q] = "completed" /\ << u, q >> \notin late' BY SetsNext
    <3>2. items[u][q] = "completed" /\ << u, q >> \notin late BY <2>1, <3>1
    <3> QED BY <3>1, <3>2, SetsNext DEF InTime
  <2>5. Busy(u)' = Busy(u) /\ Unheard(u)' = Unheard(u)
    BY <2>1, SetsNext DEF Busy, Unheard
  <2> QED BY <2>1, <2>3, <2>4, <2>5 DEF ComesLate, CountKind
<1>6. CASE Crash
  <2>1. worker'[u].pc # "body" BY <1>6 DEF Crash, NoWorker
  <2>2. UNCHANGED << items, late >> BY <1>6 DEF Crash
  <2> QED BY <2>1, <2>2, OthersRest DEF CountKind
<1> QED BY <1>1, <1>2, <1>3, <1>4, <1>5, <1>6 DEF Next

\* Sets of posts can be counted.
LEMMA PostsCounted ==
  ASSUME NEW S \in SUBSET Posts
  PROVE  /\ IsFiniteSet(S) /\ Cardinality(S) \in Nat
         /\ \A T \in SUBSET S : Cardinality(T) \in Nat /\ Cardinality(T) <= Cardinality(S)
         /\ \A p : Cardinality(S \cup { p }) = IF p \in S THEN Cardinality(S) ELSE Cardinality(S) + 1
         /\ \A p : Cardinality(S \ { p }) = IF p \in S THEN Cardinality(S) - 1 ELSE Cardinality(S)
<1>1. IsFiniteSet(S) BY DownloadsAssumption, FS_Subset
<1>2. \A T \in SUBSET S : IsFiniteSet(T) /\ Cardinality(T) <= Cardinality(S) BY <1>1, FS_Subset
<1>3. \A T \in SUBSET S : Cardinality(T) \in Nat BY <1>2, FS_CardinalityType
<1>4. \A p : Cardinality(S \cup { p }) = IF p \in S THEN Cardinality(S) ELSE Cardinality(S) + 1
  BY <1>1, FS_AddElement
<1>5. \A p : Cardinality(S \ { p }) = IF p \in S THEN Cardinality(S) - 1 ELSE Cardinality(S)
  BY <1>1, FS_RemoveElement
<1>6. Cardinality(S) \in Nat BY <1>1, FS_CardinalityType
<1> QED BY <1>1, <1>2, <1>3, <1>4, <1>5, <1>6

\* The sets that are counted.
LEMMA CountSets ==
  ASSUME NEW t \in Tasks
  PROVE  /\ Got(t) \subseteq Posts /\ InTime(t) \subseteq Got(t)
         /\ Busy(t) \subseteq Posts /\ Unheard(t) \subseteq Busy(t)
         /\ Got(t)' \subseteq Posts /\ InTime(t)' \subseteq Got(t)'
  BY DEF Got, Having, InTime, Busy, Unheard

\* A body never has more under way than it may still want.
LEMMA CountInductive ==
  ASSUME TypeOK, TypeOK', RootInv, CountInv, [Next]_vars
  PROVE  CountInv'
<1> SUFFICES ASSUME NEW t \in Tasks
             PROVE  /\ Cardinality(InTime(t)') <= Target[t]
                    /\ worker'[t].pc = "body" =>
                         /\ Busy(t)' = {} \/ worker'[t].downloaded + Cardinality(Busy(t)') <= Target[t]
                         /\ Cardinality(InTime(t)') <= worker'[t].downloaded + Cardinality(Unheard(t)')
                         /\ worker'[t].downloaded + Cardinality(Unheard(t)') <= Cardinality(Got(t)')
  BY DEF CountInv
<1> DEFINE G == Got(t)  I == InTime(t)  B == Busy(t)  U == Unheard(t)
           c == worker[t].downloaded  d == worker'[t].downloaded
<1>1. c \in Nat /\ d \in Nat /\ Target[t] \in Nat
  BY DownloadsAssumption DEF TypeOK, Worker
<1>2. G \in SUBSET Posts /\ I \in SUBSET G /\ B \in SUBSET Posts /\ U \in SUBSET B
      /\ I \in SUBSET Posts /\ U \in SUBSET Posts
      /\ Got(t)' \in SUBSET Posts /\ InTime(t)' \in SUBSET Got(t)' /\ InTime(t)' \in SUBSET Posts
  BY CountSets
<1>3. /\ Cardinality(G) \in Nat /\ Cardinality(I) \in Nat /\ Cardinality(B) \in Nat
      /\ Cardinality(U) \in Nat /\ Cardinality(I) <= Cardinality(G)
      /\ Cardinality(Got(t)') \in Nat /\ Cardinality(InTime(t)') \in Nat
  BY <1>2, PostsCounted
<1>4. /\ Cardinality(I) <= Target[t]
      /\ worker[t].pc = "body" =>
           /\ B = {} \/ c + Cardinality(B) <= Target[t]
           /\ Cardinality(I) <= c + Cardinality(U)
           /\ c + Cardinality(U) <= Cardinality(G)
  BY DEF CountInv
<1>5. CASE Rests(t)
  BY <1>4, <1>5 DEF Rests
<1>6. CASE Begins(t)
  <2>1. Cardinality({}) = 0 BY FS_EmptySet
  <2> QED BY <1>1, <1>3, <1>4, <1>6, <2>1 DEF Begins
<1>7. CASE ComesLate(t)
  <2>1. Cardinality(InTime(t)') <= Cardinality(I)
    BY <1>2, <1>7, PostsCounted DEF ComesLate
  <2>2. Cardinality(G) <= Cardinality(Got(t)')
    BY <1>2, <1>7, PostsCounted DEF ComesLate
  <2>3. worker'[t] = worker[t] /\ Busy(t)' = B /\ Unheard(t)' = U
    BY <1>7 DEF ComesLate
  <2> HIDE DEF G, I, B, U
  <2>4. Cardinality(InTime(t)') <= Target[t]
    BY <1>1, <1>3, <1>4, <2>1
  <2>5. ASSUME worker'[t].pc = "body"
        PROVE  /\ B = {} \/ d + Cardinality(B) <= Target[t]
               /\ Cardinality(InTime(t)') <= d + Cardinality(U)
               /\ d + Cardinality(U) <= Cardinality(Got(t)')
    <3>1. worker[t].pc = "body" /\ d = c BY <2>3, <2>5
    <3> HIDE DEF c, d
    <3> QED BY <1>1, <1>3, <1>4, <2>1, <2>2, <3>1
  <2> QED BY <2>3, <2>4, <2>5
<1>8. ASSUME NEW p \in Posts, Spawns(t, p)
      PROVE  /\ Cardinality(InTime(t)') <= Target[t]
             /\ Busy(t)' = {} \/ d + Cardinality(Busy(t)') <= Target[t]
             /\ Cardinality(InTime(t)') <= d + Cardinality(Unheard(t)')
             /\ d + Cardinality(Unheard(t)') <= Cardinality(Got(t)')
  <2>1. Cardinality(B \cup { p }) \in Nat /\ Cardinality(B \cup { p }) <= Cardinality(B) + 1
    BY <1>2, <1>3, PostsCounted
  <2>2. /\ worker[t].pc = "body" /\ d = c /\ Busy(t)' = B \cup { p } /\ Unheard(t)' = U
        /\ Got(t)' = G /\ InTime(t)' = I /\ c + Cardinality(B) < Target[t]
    BY <1>8 DEF Spawns
  <2> HIDE DEF G, I, B, U, c, d
  <2> QED BY <1>1, <1>3, <1>4, <2>1, <2>2
<1>9. ASSUME NEW p \in Posts, Joins(t, p)
      PROVE  /\ Cardinality(InTime(t)') <= Target[t]
             /\ Busy(t)' = {} \/ d + Cardinality(Busy(t)') <= Target[t]
             /\ Cardinality(InTime(t)') <= d + Cardinality(Unheard(t)')
             /\ d + Cardinality(Unheard(t)') <= Cardinality(Got(t)')
  <2>1. /\ worker[t].pc = "body" /\ p \in B /\ Got(t)' = G /\ InTime(t)' = I
        /\ Busy(t)' = B \ { p } /\ Unheard(t)' = U \ { p }
        /\ d = IF p \in U THEN c + 1 ELSE c
    BY <1>9 DEF Joins
  <2>2. Cardinality(B \ { p }) = Cardinality(B) - 1
    BY <1>2, <2>1, PostsCounted
  <2>3. Cardinality(U \ { p }) = IF p \in U THEN Cardinality(U) - 1 ELSE Cardinality(U)
    BY <1>2, PostsCounted
  <2>4. c + Cardinality(B) <= Target[t]
    BY <1>4, <2>1
  <2> HIDE DEF G, I, B, U, c, d
  <2> QED BY <1>1, <1>3, <1>4, <2>1, <2>2, <2>3, <2>4
<1>10. ASSUME NEW p \in Posts, Moves(t, p)
       PROVE  /\ Cardinality(InTime(t)') <= Target[t]
              /\ Busy(t)' = {} \/ d + Cardinality(Busy(t)') <= Target[t]
              /\ Cardinality(InTime(t)') <= d + Cardinality(Unheard(t)')
              /\ d + Cardinality(Unheard(t)') <= Cardinality(Got(t)')
  <2>1. worker[t].pc = "body" /\ d = c /\ p \in B \ U /\ Busy(t)' = B
    BY <1>10 DEF Moves
  <2>2. CASE Got(t)' = G /\ InTime(t)' = I /\ Unheard(t)' = U
    BY <1>4, <2>1, <2>2
  <2>3. CASE /\ p \notin G /\ Got(t)' = G \cup { p } /\ InTime(t)' \subseteq I \cup { p }
             /\ Unheard(t)' = U \cup { p }
    <3>1. Cardinality(Got(t)') = Cardinality(G) + 1
      BY <1>2, <2>3, PostsCounted
    <3>2. Cardinality(Unheard(t)') = Cardinality(U) + 1
      BY <1>2, <2>1, <2>3, PostsCounted
    <3>3. Cardinality(InTime(t)') <= Cardinality(I) + 1
      <4>1. I \cup { p } \in SUBSET Posts BY <1>2
      <4>2. Cardinality(InTime(t)') <= Cardinality(I \cup { p })
        BY <2>3, <4>1, PostsCounted
      <4>3. Cardinality(I \cup { p }) \in Nat /\ Cardinality(I \cup { p }) <= Cardinality(I) + 1
        BY <1>2, <1>3, <4>1, PostsCounted
      <4> HIDE DEF I
      <4> QED BY <1>3, <4>2, <4>3
    <3>4. Cardinality(U) + 1 <= Cardinality(B)
      <4>1. U \cup { p } \in SUBSET B BY <1>2, <2>1
      <4>2. Cardinality(U \cup { p }) <= Cardinality(B) BY <1>2, <4>1, PostsCounted
      <4> QED BY <2>3, <3>2, <4>2
    <3>5. c + Cardinality(B) <= Target[t]
      BY <1>4, <2>1
    <3>6. Busy(t)' = B /\ d = c /\ worker[t].pc = "body" BY <2>1
    <3> HIDE DEF G, I, B, U, c, d
    <3> QED BY <1>1, <1>3, <1>4, <3>1, <3>2, <3>3, <3>4, <3>5, <3>6
  <2> QED BY <1>10, <2>2, <2>3 DEF Moves
<1>11. CountKind(t) BY CountKinds
<1> QED BY <1>5, <1>6, <1>7, <1>8, <1>9, <1>10, <1>11 DEF CountKind

\* Of the late registrations of a task there is one for each post.
LEMMA LateCounted ==
  ASSUME TypeOK, NEW t \in Tasks
  PROVE  LET S == { p \in Got(t) : << t, p >> \in late }
             T == { x \in late : x[1] = t } IN
         Cardinality(T) \in Nat /\ Cardinality(S) <= Cardinality(T)
<1> DEFINE S == { p \in Got(t) : << t, p >> \in late }
           T == { x \in late : x[1] = t }
           f == [ p \in S |-> << t, p >> ]
<1>1. late \subseteq Tasks \X Posts BY DEF TypeOK
<1>2. T \in SUBSET ({ t } \X Posts) BY <1>1
<1>3. IsFiniteSet({ t } \X Posts) BY DownloadsAssumption, FS_Singleton, FS_Product
<1>4. IsFiniteSet(T) BY <1>2, <1>3, FS_Subset
<1>5. f \in Injection(S, T) BY DEF Injection, IsInjective
<1> QED BY <1>4, <1>5, FS_Injection, FS_CardinalityType

\* So the target is kept.
LEMMA CountsBound == ASSUME TypeOK, CountInv PROVE AtMostTarget
<1> SUFFICES ASSUME NEW t \in Tasks
             PROVE  Cardinality(Got(t)) <= Target[t] + Cardinality({ x \in late : x[1] = t })
  BY DEF AtMostTarget, Got
<1> DEFINE S == { p \in Got(t) : << t, p >> \in late }
           n == Cardinality({ x \in late : x[1] = t })
<1>1. n \in Nat /\ Cardinality(S) <= n BY LateCounted
<1>2. Cardinality(InTime(t)) <= Target[t] /\ Target[t] \in Nat
  BY DownloadsAssumption DEF CountInv
<1>3. Got(t) = InTime(t) \cup S /\ InTime(t) \cap S = {} BY DEF InTime
<1>4. IsFiniteSet(InTime(t)) /\ IsFiniteSet(S)
  <2>1. InTime(t) \in SUBSET Posts /\ S \in SUBSET Posts BY CountSets
  <2> QED BY <2>1, PostsCounted
<1>5. /\ Cardinality(Got(t)) = Cardinality(InTime(t)) + Cardinality(S) - Cardinality({})
      /\ Cardinality(InTime(t)) \in Nat /\ Cardinality(S) \in Nat
  <2>1. Cardinality(InTime(t)) \in Nat /\ Cardinality(S) \in Nat BY <1>4, FS_CardinalityType
  <2> HIDE DEF S
  <2>2. Cardinality(InTime(t) \cup S) =
          Cardinality(InTime(t)) + Cardinality(S) - Cardinality(InTime(t) \cap S)
    BY <1>4, FS_Union
  <2> QED BY <1>3, <2>1, <2>2
<1>6. Cardinality({}) = 0 BY FS_EmptySet
<1> HIDE DEF S, n
<1> QED BY <1>1, <1>2, <1>5, <1>6 DEF n

-----------------------------------------------------------------------------
(* What is complete.                                                        *)

\* Once a task has done enough it stays so.
LEMMA EnoughStays ==
  ASSUME TypeOK, [Next]_vars, NEW t \in Tasks, DoneEnough(t)
  PROVE  DoneEnough(t)'
<1>1. CASE Cardinality(Got(t)) >= Target[t]
  <2>1. \A p \in Posts : items[t][p] = "completed" => items'[t][p] = "completed" BY ItemMoves
  <2>2. Got(t) \in SUBSET Got(t)' BY <2>1, SetsNext
  <2>3. Got(t)' \in SUBSET Posts BY CountSets
  <2>4. Cardinality(Got(t)) <= Cardinality(Got(t)') BY <2>2, <2>3, PostsCounted
  <2>5. Cardinality(Got(t)) \in Nat /\ Cardinality(Got(t)') \in Nat
    <3>1. Got(t) \in SUBSET Posts BY CountSets
    <3> QED BY <2>3, <3>1, PostsCounted
  <2>6. Target[t] \in Nat BY DownloadsAssumption
  <2> QED BY <1>1, <2>4, <2>5, <2>6 DEF DoneEnough
<1>2. CASE \A p \in Having(t, { "queued", "failed", "retryable" }) : << t, p >> \in late
  <2>1. ASSUME NEW p \in Posts, items'[t][p] \in { "queued", "failed", "retryable" }
        PROVE  << t, p >> \in late'
    <3>1. items[t][p] \in { "queued", "failed", "retryable" } /\ late \subseteq late'
      BY <2>1, ItemMoves
    <3> QED BY <1>2, <3>1 DEF Having
  <2> QED BY <2>1 DEF DoneEnough, Having
<1> QED BY <1>1, <1>2 DEF DoneEnough

\* Who turns to what: a status to completed or failed, a worker to its end.
Turns(t) ==
  /\ status'[t] = "completed" =>
       status[t] = "completed" \/ (worker[t].pc = "ended" /\ worker[t].outcome = "complete")
  /\ status'[t] = "failed" => status[t] = "failed" \/ worker'[t].pc # "body"
  /\ worker'[t].pc = "ended" /\ worker'[t].outcome = "complete" =>
       \/ worker[t].pc = "ended" /\ worker[t].outcome = "complete"
       \/ EndBody(t)

\* A user makes no task complete or failed.
LEMMA UserTurns ==
  ASSUME TypeOK, NEW t \in Tasks, UserStep(t), NEW u \in Tasks
  PROVE  Turns(u)
<1>a. status \in [ Tasks -> Statuses ] /\ worker \in [ Tasks -> Worker ] BY DEF TypeOK
<1>1. \/ worker' = worker
      \/ worker[t].pc = "none" /\ worker' = [ worker EXCEPT ![t].pc = "waiting" ]
  <2>1. CASE PauseTask(t)  BY <2>1 DEF PauseTask
  <2>2. CASE ResumeTask(t) BY <2>2 DEF ResumeTask, SpawnWorker
  <2>3. CASE CancelTask(t) BY <2>3 DEF CancelTask
  <2>4. CASE RetryTask(t)  BY <2>4 DEF RetryTask, SpawnWorker
  <2> QED BY <2>1, <2>2, <2>3, <2>4 DEF UserStep
<1>2. worker'[u].pc # "none" => worker'[u] = worker[u] \/ worker'[u].pc = "waiting"
  BY <1>a, <1>1 DEF Worker
<1>3. status'[u] = status[u] \/ status'[u] \notin { "completed", "failed" }
  <2>1. CASE PauseTask(t)
    BY <1>a, <2>1 DEF PauseTask, Control, PauseTarget
  <2>2. CASE CancelTask(t)
    BY <1>a, <2>2 DEF CancelTask, Control, CancelTarget
  <2>3. CASE ResumeTask(t) \/ RetryTask(t)
    BY <1>a, <2>3 DEF ResumeTask, RetryTask, Control
  <2> QED BY <2>1, <2>2, <2>3 DEF UserStep
<1> QED BY <1>2, <1>3 DEF Turns

\* A worker does so when it settles, and ends with a verdict.
LEMMA WorkerTurns ==
  ASSUME TypeOK, NEW t \in Tasks, WorkerStep(t), NEW u \in Tasks
  PROVE  Turns(u)
<1> USE DEF WorkerOnly
<1>a. status \in [ Tasks -> Statuses ] /\ worker \in [ Tasks -> Worker ] BY DEF TypeOK
<1>1. CASE EnterRoot(t) \/ StopsWaiting(t) \/ SweepParts(t) \/ Leave(t)
  <2>1. status' = status /\ (u # t => worker'[u] = worker[u])
    BY <1>1, <1>a DEF EnterRoot, StopsWaiting, SweepParts, Leave
  <2>2. worker'[t].pc # "ended"
    BY <1>1, <1>a DEF EnterRoot, StopsWaiting, SweepParts, Leave, Worker, NoWorker
  <2> QED BY <2>1, <2>2 DEF Turns
<1>2. CASE StartBody(t)
  <2>1. /\ u # t => worker'[u] = worker[u] /\ status'[u] = status[u]
        /\ status'[t] = status[t] \/ status'[t] = "running"
    BY <1>2, <1>a DEF StartBody
  <2>2. worker'[t].pc = "ended" => worker'[t].outcome = "stopped"
    BY <1>2, <1>a DEF StartBody, Worker
  <2> QED BY <2>1, <2>2 DEF Turns
<1>3. CASE SpawnTransfer(t)
  <2>1. PICK i \in worker[t].todo : worker' = [ worker EXCEPT ![t].todo = @ \ { i } ]
    BY <1>3 DEF SpawnTransfer
  <2>2. worker'[u].pc = worker[u].pc /\ worker'[u].outcome = worker[u].outcome /\ status' = status
    BY <1>3, <1>a, <2>1 DEF SpawnTransfer, Worker
  <2> QED BY <2>2 DEF Turns
<1>4. CASE EndBody(t)
  <2>1. status' = status /\ (u # t => worker'[u] = worker[u])
    BY <1>4, <1>a DEF EndBody
  <2> QED BY <1>4, <2>1 DEF Turns
<1>5. ASSUME NEW p \in Posts, JoinTransfer(t, p) PROVE Turns(u)
  <2>1. /\ u # t => worker'[u] = worker[u] /\ status'[u] = status[u]
        /\ status'[t] = status[t] \/ status'[t] = "running"
    BY <1>5, <1>a DEF JoinTransfer, AbortAll
  <2>2. worker[t].pc = "body" BY <1>5 DEF JoinTransfer
  <2>3. worker'[t].pc = "ended" => worker'[t].outcome = "stopped"
    <3>1. CASE AbortAll(t) BY <1>a, <3>1 DEF AbortAll, Worker
    <3>2. CASE ~ AbortAll(t)
      BY <1>a, <1>5, <2>2, <3>2 DEF JoinTransfer, Worker
    <3> QED BY <3>1, <3>2
  <2> QED BY <2>1, <2>3 DEF Turns
<1>6. CASE Settle(t)
  <2>1. /\ u # t => worker'[u] = worker[u] /\ status'[u] = status[u]
        /\ worker[t].pc = "ended" /\ worker'[t].pc = "settled" /\ status'[t] = Settled(t)
    BY <1>6, <1>a DEF Settle, Worker
  <2>2. Settled(t) = "completed" => worker[t].outcome = "complete" \/ status[t] = "completed"
    BY DEF Settled, AckTarget, StopRequested
  <2> QED BY <2>1, <2>2 DEF Turns
<1> QED BY <1>1, <1>2, <1>3, <1>4, <1>5, <1>6 DEF WorkerStep

\* So it is for every step.
LEMMA EveryTurn ==
  ASSUME TypeOK, [Next]_vars, NEW u \in Tasks
  PROVE  Turns(u)
<1>1. CASE UNCHANGED vars
  BY <1>1 DEF vars, Turns
<1>2. ASSUME NEW t \in Tasks, UserStep(t) \/ WorkerStep(t) PROVE Turns(u)
  BY <1>2, UserTurns, WorkerTurns
<1>3. ASSUME NEW t \in Tasks, NEW p \in Posts, TransferStep(t, p) \/ TransferFault(t, p)
      PROVE  Turns(u)
  BY <1>3, TransferReports DEF Turns
<1>4. ASSUME NEW x \in orphans, RegisterOrphan(x) PROVE Turns(u)
  BY <1>4, OrphanItems DEF Turns
<1>5. CASE Crash
  <2>1. status'[u] = RecoveredStatus(status[u], TRUE) /\ worker'[u].pc \in { "none", "waiting" }
    BY <1>5 DEF Crash, NoWorker
  <2>2. RecoveredStatus(status[u], TRUE) = "completed" => status[u] = "completed"
    BY DEF RecoveredStatus
  <2> QED BY <2>1, <2>2 DEF Turns
<1> QED BY <1>1, <1>2, <1>3, <1>4, <1>5 DEF Next

\* A body that ends complete has reached its target, or has nothing on its list,
\* nothing under way and no failure.
LEMMA VerdictIsDone ==
  ASSUME TypeOK, CountInv, NEW t \in Tasks, EndBody(t), worker'[t].outcome = "complete", Attends(t)
  PROVE  DoneEnough(t)
<1> DEFINE c == worker[t].downloaded
<1>a. worker \in [ Tasks -> Worker ] BY DEF TypeOK
<1>1. worker[t].pc = "body" /\ ~ CanSpawn(t) /\ Busy(t) = {}
  BY DEF EndBody
<1>2. Verdict(t) = "complete"
  BY <1>a DEF EndBody, Worker
<1>3. c \in Nat /\ worker[t].failed \in { "none", "failed", "retryable" }
  BY <1>a DEF Worker
<1>4. ~ (c < Target[t] /\ worker[t].failed # "none")
  BY <1>2, <1>3 DEF Verdict
<1>5. worker[t].todo = {} \/ ~ (c + 0 < Target[t])
  <2>1. Cardinality(Busy(t)) = 0 BY <1>1, FS_EmptySet
  <2>2. Concurrency[t] \in Nat \ { 0 } BY DownloadsAssumption
  <2> QED BY <1>1, <2>1, <2>2 DEF CanSpawn
<1>6. CASE c < Target[t]
  <2>1. worker[t].todo = {} /\ worker[t].failed = "none"
    BY <1>3, <1>4, <1>5, <1>6
  <2>2. \A p \in Posts : transfers[t][p].pc = "none" BY <1>1 DEF Busy
  <2>3. ASSUME NEW p \in Posts, items[t][p] \in { "queued", "failed", "retryable" }
        PROVE  << t, p >> \in late
    BY <1>1, <2>1, <2>2, <2>3 DEF Attends, At
  <2> QED BY <2>3 DEF DoneEnough, Having
<1>7. CASE ~ (c < Target[t])
  <2>1. c + Cardinality(Unheard(t)) <= Cardinality(Got(t)) BY <1>1 DEF CountInv
  <2>2. Cardinality(Unheard(t)) \in Nat /\ Cardinality(Got(t)) \in Nat
    <3>1. Got(t) \in SUBSET Posts /\ Unheard(t) \in SUBSET Posts BY CountSets
    <3> QED BY <3>1, PostsCounted
  <2>3. Target[t] \in Nat BY DownloadsAssumption
  <2> HIDE DEF c
  <2>4. Cardinality(Got(t)) >= Target[t] BY <1>3, <1>7, <2>1, <2>2, <2>3 DEF c
  <2> QED BY <2>4 DEF DoneEnough
<1> QED BY <1>6, <1>7

\* A body whose list, transfers and failure stay attends as before.
LEMMA AttendsStays ==
  ASSUME NEW t \in Tasks, Attends(t), worker'[t].pc = "body" => worker'[t] = worker[t],
         worker'[t].pc = "body" => status'[t] # "failed",
         \A p \in Posts : transfers'[t][p] = transfers[t][p] /\ items'[t][p] = items[t][p],
         late \subseteq late'
  PROVE  Attends(t)'
  BY DEF Attends, At

\* A user may retry a task only when it has failed, and then it has no body.
LEMMA UserAttends ==
  ASSUME TypeOK, NEW t \in Tasks, UserStep(t), NEW u \in Tasks, Attends(u)
  PROVE  Attends(u)'
<1>a. worker \in [ Tasks -> Worker ] BY DEF TypeOK
<1>1. worker'[u].pc = "body" => worker'[u] = worker[u]
  <2>1. \/ worker' = worker
        \/ worker[t].pc = "none" /\ worker' = [ worker EXCEPT ![t].pc = "waiting" ]
    <3>1. CASE PauseTask(t)  BY <3>1 DEF PauseTask
    <3>2. CASE ResumeTask(t) BY <3>2 DEF ResumeTask, SpawnWorker
    <3>3. CASE CancelTask(t) BY <3>3 DEF CancelTask
    <3>4. CASE RetryTask(t)  BY <3>4 DEF RetryTask, SpawnWorker
    <3> QED BY <3>1, <3>2, <3>3, <3>4 DEF UserStep
  <2> QED BY <1>a, <2>1 DEF Worker
<1>2. worker'[u].pc = "body" => status'[u] # "failed"
  <2>1. worker'[u].pc = "body" => status[u] # "failed" BY <1>1 DEF Attends
  <2> QED BY <2>1, UserTurns DEF Turns
<1>3. transfers' = transfers /\ late' = late
  BY DEF UserStep, PauseTask, ResumeTask, CancelTask, RetryTask, Control
<1>4. worker'[u].pc = "body" => \A p \in Posts : items'[u][p] = items[u][p]
  <2>1. CASE RetryTask(t)
    BY <1>1, <2>1, RetryItems DEF Attends
  <2>2. CASE PauseTask(t) \/ ResumeTask(t) \/ CancelTask(t)
    BY <2>2, StepsWithoutItems
  <2> QED BY <2>1, <2>2 DEF UserStep
<1>5. CASE worker'[u].pc # "body" BY <1>5 DEF Attends
<1>6. CASE worker'[u].pc = "body" BY <1>1, <1>2, <1>3, <1>4, <1>6, AttendsStays
<1> QED BY <1>5, <1>6

\* A body begins with what is queued, and an old failure.
LEMMA BodyBegins ==
  ASSUME TypeOK, RootInv, Asked, NEW t \in Tasks, StartBody(t), worker'[t].pc = "body"
  PROVE  Attends(t)'
<1>a. status \in [ Tasks -> Statuses ] /\ worker \in [ Tasks -> Worker ] BY DEF TypeOK
<1>1. status[t] = "queued"
  BY <1>a DEF StartBody, Worker
<1>2. /\ status'[t] = "running" /\ UNCHANGED << items, transfers >> /\ worker[t].pc = "ready"
      /\ worker'[t].failed = Counts(t).failed
      /\ worker'[t].todo = { i \in DOMAIN PostIds[t] : items[t][PostIds[t][i]] = "queued" }
  BY <1>1, <1>a DEF StartBody, WorkerOnly
<1>3. \A p \in Posts : transfers'[t][p].pc = "none"
  BY <1>2 DEF RootInv, RootHeld
<1>4. ASSUME NEW p \in Posts, items'[t][p] = "queued"
      PROVE  \E i \in worker'[t].todo : PostIds[t][i] = p
  <2>1. PICK i \in DOMAIN PostIds[t] : PostIds[t][i] = p BY <1>2, <1>4 DEF Asked
  <2> QED BY <1>2, <1>4, <2>1
<1>5. ASSUME NEW p \in Posts, items'[t][p] \in { "failed", "retryable" }
      PROVE  worker'[t].failed # "none"
  <2>1. Having(t, { "failed", "retryable" }) # {} BY <1>2, <1>5 DEF Having
  <2> QED BY <1>2, <2>1 DEF Counts
<1> QED BY <1>2, <1>3, <1>4, <1>5 DEF Attends, At

\* What a body spawns leaves its list and is under way.
LEMMA SpawnAttends ==
  ASSUME TypeOK, RootInv, NEW t \in Tasks, SpawnTransfer(t), Attends(t)
  PROVE  Attends(t)'
<1>a. worker \in [ Tasks -> Worker ] /\ transfers \in [ Tasks -> [ Posts -> Transfer ] ]
  BY DEF TypeOK
<1>1. PICK i \in worker[t].todo :
        /\ transfers' = [ transfers EXCEPT ![t][PostIds[t][i]].pc = "asking" ]
        /\ worker' = [ worker EXCEPT ![t].todo = @ \ { i } ]
  BY DEF SpawnTransfer
<1> DEFINE p == PostIds[t][i]
<1>2. p \in Posts BY PostsOfPositions DEF RootInv, TodoFresh
<1>3. /\ transfers'[t][p].pc = "asking"
      /\ \A q \in Posts : q # p => transfers'[t][q] = transfers[t][q]
  BY <1>a, <1>1, <1>2 DEF Transfer
<1>4. /\ worker'[t].todo = worker[t].todo \ { i } /\ worker'[t].failed = worker[t].failed
      /\ worker[t].pc = "body"
  BY <1>a, <1>1 DEF Worker, SpawnTransfer
<1>5. status' = status /\ items' = items /\ late' = late
  BY DEF SpawnTransfer, history
<1>6. ASSUME NEW q \in Posts, items[t][q] = "queued"
      PROVE  transfers'[t][q].pc # "none" \/ \E j \in worker'[t].todo : PostIds[t][j] = q
  <2>1. CASE q = p BY <1>3, <2>1
  <2>2. CASE q # p
    <3>1. transfers[t][q].pc # "none" \/ \E j \in worker[t].todo : PostIds[t][j] = q
      BY <1>4, <1>6 DEF Attends
    <3> QED BY <1>3, <1>4, <2>2, <3>1
  <2> QED BY <2>1, <2>2
<1>7. ASSUME NEW q \in Posts, transfers[t][q].pc = "done"
      PROVE  transfers'[t][q] = transfers[t][q]
  <2>1. transfers[t][p].pc = "none" BY DEF RootInv, TodoFresh
  <2> QED BY <1>3, <1>7, <2>1
<1>8. ASSUME NEW q \in Posts, transfers'[t][q].pc = "done"
      PROVE  transfers'[t][q] = transfers[t][q]
  BY <1>3, <1>8
<1> HIDE DEF p
<1> QED BY <1>4, <1>5, <1>6, <1>7, <1>8 DEF Attends, At

\* What a body hears of is no longer queued, and a failure is remembered.
LEMMA JoinAttends ==
  ASSUME TypeOK, NEW t \in Tasks, NEW p \in Posts, JoinTransfer(t, p), ~ AbortAll(t), Attends(t)
  PROVE  Attends(t)'
<1> DEFINE r == transfers[t][p].result
<1>a. worker \in [ Tasks -> Worker ] /\ transfers \in [ Tasks -> [ Posts -> Transfer ] ]
      /\ status \in [ Tasks -> Statuses ]
  BY DEF TypeOK
<1>1. transfers' = [ transfers EXCEPT ![t][p] = NoTransfer ]
      /\ r \in { "downloaded", "skipped", "failed", "retryable" }
  BY DEF JoinTransfer
<1>2. /\ transfers'[t][p].pc = "none"
      /\ \A q \in Posts : q # p => transfers'[t][q] = transfers[t][q]
  BY <1>a, <1>1 DEF NoTransfer
<1>3. /\ worker[t].pc = "body" /\ transfers[t][p].pc = "done"
      /\ items' = items /\ late' = late
      /\ status'[t] = status[t] \/ status'[t] = "running"
  BY <1>a DEF JoinTransfer, At
<1>4. /\ worker'[t].todo = worker[t].todo
      /\ worker'[t].failed = IF r \in { "failed", "retryable" } THEN r ELSE worker[t].failed
  BY <1>a DEF JoinTransfer, Worker
<1>5. items[t][p] # "queued" BY <1>1, <1>3 DEF Attends, At
<1>6. ASSUME NEW q \in Posts, items[t][q] = "queued"
      PROVE  transfers'[t][q].pc # "none" \/ \E j \in worker'[t].todo : PostIds[t][j] = q
  BY <1>2, <1>3, <1>4, <1>5, <1>6 DEF Attends
<1>7. ASSUME NEW q \in Posts, items[t][q] \in { "failed", "retryable" }
      PROVE  \/ worker'[t].failed # "none" \/ << t, q >> \in late
             \/ /\ transfers'[t][q].pc = "done"
                /\ transfers'[t][q].result \in { "failed", "retryable" }
  <2>1. CASE q = p /\ r \in { "failed", "retryable" } BY <1>4, <2>1
  <2>2. CASE ~ (q = p /\ r \in { "failed", "retryable" })
    <3>1. \/ worker[t].failed # "none" \/ << t, q >> \in late
          \/ transfers[t][q].pc = "done" /\ transfers[t][q].result \in { "failed", "retryable" }
      BY <1>3, <1>7 DEF Attends, At
    <3>2. worker[t].failed # "none" => worker'[t].failed # "none" BY <1>4
    <3> QED BY <1>2, <2>2, <3>1, <3>2
  <2> QED BY <2>1, <2>2
<1>8. \A q \in Posts : transfers'[t][q].pc = "done" => transfers'[t][q] = transfers[t][q]
  BY <1>2
<1>9. status'[t] # "failed" BY <1>3 DEF Attends
<1> HIDE DEF r
<1> QED BY <1>3, <1>6, <1>7, <1>8, <1>9 DEF Attends, At

\* A worker's steps.
LEMMA WorkerAttends ==
  ASSUME TypeOK, RootInv, Asked, NEW t \in Tasks, WorkerStep(t), NEW u \in Tasks, Attends(u)
  PROVE  Attends(u)'
<1>a. worker \in [ Tasks -> Worker ] /\ transfers \in [ Tasks -> [ Posts -> Transfer ] ]
      /\ status \in [ Tasks -> Statuses ]
  BY DEF TypeOK
<1>b. UNCHANGED << items, late >> BY StepsWithoutItems
<1>1. CASE worker'[u].pc # "body"
  BY <1>1 DEF Attends
<1>2. CASE u # t
  <2>1. worker'[u].pc = "body" => worker'[u] = worker[u]
    BY <1>2, <1>a DEF WorkerStep, EnterRoot, StopsWaiting, StartBody, SpawnTransfer, EndBody, JoinTransfer,
         AbortAll, Settle, SweepParts, Leave
  <2>2. \A p \in Posts : transfers'[u][p] = transfers[u][p]
    BY <1>2, <1>a DEF WorkerStep, EnterRoot, StopsWaiting, StartBody, SpawnTransfer, EndBody, JoinTransfer,
         AbortAll, Settle, SweepParts, Leave, WorkerOnly
  <2>3. worker'[u].pc = "body" => status'[u] # "failed"
    <3>1. worker'[u].pc = "body" => status[u] # "failed" BY <2>1 DEF Attends
    <3> QED BY <3>1, WorkerTurns DEF Turns
  <2> QED BY <1>b, <2>1, <2>2, <2>3, AttendsStays
<1>3. CASE u = t /\ worker'[t].pc = "body"
  <2>1. CASE EnterRoot(t) \/ StopsWaiting(t) \/ EndBody(t) \/ Settle(t) \/ SweepParts(t) \/ Leave(t)
    <3>1. worker'[t].pc # "body"
      BY <2>1, <1>a DEF EnterRoot, StopsWaiting, EndBody, Settle, SweepParts, Leave, Worker, NoWorker
    <3> QED BY <1>3, <3>1
  <2>2. CASE StartBody(t)
    BY <1>3, <2>2, BodyBegins
  <2>3. CASE SpawnTransfer(t)
    BY <1>3, <2>3, SpawnAttends
  <2>4. ASSUME NEW p \in Posts, JoinTransfer(t, p) PROVE Attends(u)'
    <3>1. ~ AbortAll(t) BY <1>3, <1>a DEF AbortAll, Worker
    <3> QED BY <1>3, <2>4, <3>1, JoinAttends
  <2> QED BY <2>1, <2>2, <2>3, <2>4 DEF WorkerStep
<1> QED BY <1>1, <1>2, <1>3

\* A transfer that ends without a file says so.
LEMMA TransferAttends ==
  ASSUME TypeOK, NEW t \in Tasks, NEW p \in Posts, TransferStep(t, p) \/ TransferFault(t, p),
         NEW u \in Tasks, Attends(u)
  PROVE  Attends(u)'
<1>1. /\ transfers[t][p].pc \notin { "none", "done" } /\ UNCHANGED << status, worker, late >>
      /\ \A v \in Tasks, q \in Posts : v # t \/ q # p => items'[v][q] = items[v][q]
      /\ \A v \in Tasks, q \in Posts : v # t \/ q # p => transfers'[v][q] = transfers[v][q]
  BY TransferReports, TransferIsLocal
<1>2. Reports(t, p) BY TransferReports
<1>3. CASE u # t
  BY <1>1, <1>3 DEF Attends, At
<1>4. CASE u = t /\ worker[t].pc = "body"
  <2>1. transfers'[t][p].pc # "none" BY <1>2 DEF Reports
  <2>2. transfers'[t][p].pc = "done" /\ items'[t][p] = "queued" =>
          transfers'[t][p].result \in { "none", "stopped" }
    BY <1>2 DEF Reports
  <2>3. items'[t][p] \in { "failed", "retryable" } =>
          \/ worker[t].failed # "none" \/ << t, p >> \in late
          \/ transfers'[t][p].pc = "done" /\ transfers'[t][p].result \in { "failed", "retryable" }
    <3>1. CASE items[t][p] \in { "failed", "retryable" }
      BY <1>1, <1>4, <3>1 DEF Attends, At
    <3>2. CASE items[t][p] \notin { "failed", "retryable" }
      BY <1>2, <3>2 DEF Reports
    <3> QED BY <3>1, <3>2
  <2>4. ASSUME NEW q \in Posts, q # p
        PROVE  items'[t][q] = items[t][q] /\ transfers'[t][q] = transfers[t][q]
    BY <1>1, <2>4
  <2>5. \A q \in Posts : items'[t][q] = "queued" =>
          transfers'[t][q].pc # "none" \/ \E i \in worker[t].todo : PostIds[t][i] = q
    BY <1>4, <2>1, <2>4 DEF Attends
  <2>6. \A q \in Posts : items'[t][q] \in { "failed", "retryable" } =>
          \/ worker[t].failed # "none" \/ << t, q >> \in late
          \/ transfers'[t][q].pc = "done" /\ transfers'[t][q].result \in { "failed", "retryable" }
    BY <1>4, <2>3, <2>4 DEF Attends, At
  <2>7. \A q \in Posts : transfers'[t][q].pc = "done" /\ items'[t][q] = "queued" =>
          transfers'[t][q].result \in { "none", "stopped" }
    BY <1>4, <2>2, <2>4 DEF Attends, At
  <2>8. status[t] # "failed" BY <1>4 DEF Attends
  <2> QED BY <1>1, <1>4, <2>5, <2>6, <2>7, <2>8 DEF Attends, At
<1>5. CASE worker[u].pc # "body"
  BY <1>1, <1>5 DEF Attends
<1> QED BY <1>3, <1>4, <1>5

\* Every step.
LEMMA AttendsInductive ==
  ASSUME TypeOK, RootInv, Asked, [Next]_vars, NEW u \in Tasks, Attends(u)
  PROVE  Attends(u)'
<1>1. CASE UNCHANGED vars
  BY <1>1, AttendsStays DEF vars, history, Attends
<1>2. ASSUME NEW t \in Tasks, UserStep(t) \/ WorkerStep(t) PROVE Attends(u)'
  BY <1>2, UserAttends, WorkerAttends
<1>3. ASSUME NEW t \in Tasks, NEW p \in Posts, TransferStep(t, p) \/ TransferFault(t, p)
      PROVE  Attends(u)'
  BY <1>3, TransferAttends
<1>4. ASSUME NEW x \in orphans, RegisterOrphan(x) PROVE Attends(u)'
  <2>1. /\ UNCHANGED << status, worker, transfers >> /\ late \subseteq late'
        /\ \A q \in Posts : items'[u][q] = items[u][q]
             \/ (<< u, q >> \in late' /\ items'[u][q] # "queued")
    <3>1. /\ UNCHANGED << status, worker, transfers >> /\ late' = late \cup { << x.task, x.post >> }
          /\ \A q \in Posts : u # x.task \/ q # x.post => items'[u][q] = items[u][q]
          /\ \/ items'[x.task][x.post] = items[x.task][x.post]
             \/ items'[x.task][x.post] \in { "completed", "skipped", "failed" }
      BY <1>4, OrphanItems
    <3> QED BY <3>1
  <2>2. CASE worker[u].pc # "body" BY <2>1, <2>2 DEF Attends
  <2>3. CASE worker[u].pc = "body"
    <3>1. /\ status[u] # "failed"
          /\ \A q \in Posts : items'[u][q] = "queued" =>
               transfers[u][q].pc # "none" \/ \E i \in worker[u].todo : PostIds[u][i] = q
      BY <2>1, <2>3 DEF Attends
    <3>2. \A q \in Posts : items'[u][q] \in { "failed", "retryable" } =>
            \/ worker[u].failed # "none" \/ << u, q >> \in late'
            \/ transfers[u][q].pc = "done" /\ transfers[u][q].result \in { "failed", "retryable" }
      BY <2>1, <2>3 DEF Attends, At
    <3>3. \A q \in Posts : transfers[u][q].pc = "done" /\ items'[u][q] = "queued" =>
            transfers[u][q].result \in { "none", "stopped" }
      BY <2>1, <2>3 DEF Attends, At
    <3> QED BY <2>1, <3>1, <3>2, <3>3 DEF Attends, At
  <2> QED BY <2>2, <2>3
<1>5. CASE Crash
  BY <1>5 DEF Crash, NoWorker, Attends
<1> QED BY <1>1, <1>2, <1>3, <1>4, <1>5 DEF Next

\* A task is complete only when it has done enough.
LEMMA DoneInductive ==
  ASSUME TypeOK, RootInv, Asked, CountInv, DoneInv, [Next]_vars
  PROVE  DoneInv'
<1> SUFFICES ASSUME NEW t \in Tasks
             PROVE  /\ status'[t] = "completed" => DoneEnough(t)'
                    /\ worker'[t].pc = "ended" /\ worker'[t].outcome = "complete" => DoneEnough(t)'
                    /\ Attends(t)'
  BY DEF DoneInv
<1>1. Turns(t) BY EveryTurn
<1>2. Attends(t) /\ Attends(t)' BY AttendsInductive DEF DoneInv
<1>3. DoneEnough(t) => DoneEnough(t)' BY EnoughStays
<1>4. status'[t] = "completed" => DoneEnough(t) BY <1>1 DEF Turns, DoneInv
<1>5. worker'[t].pc = "ended" /\ worker'[t].outcome = "complete" => DoneEnough(t)
  BY <1>1, <1>2, VerdictIsDone DEF Turns, DoneInv
<1> QED BY <1>2, <1>3, <1>4, <1>5

-----------------------------------------------------------------------------
\* The second half holds at the start.
LEMMA InitCounts ==
  ASSUME Init
  PROVE  Asked /\ PartInv /\ CountInv /\ DoneInv
<1>1. \A t \in Tasks, p \in Posts : items[t][p] = IF Contains(PostIds[t], p) THEN "queued" ELSE "none"
  BY DEF Init
<1>2. \A t \in Tasks, p \in Posts : Contains(PostIds[t], p) <=> \E i \in DOMAIN PostIds[t] : PostIds[t][i] = p
  <2>1. \A t \in Tasks : PostIds[t] \in Seq(Posts) BY DownloadsAssumption
  <2> QED BY <2>1 DEF Contains
<1>3. \A t \in Tasks, p \in Posts : transfers[t][p].pc = "none" BY DEF Init, Idle, NoTransfer
<1>4. \A t \in Tasks : worker[t].pc = "waiting" /\ status[t] = "queued" BY DEF Init, NoWorker
<1>5. \A p \in Posts : ~ disk[p].part BY DEF Init, FileKinds
<1>6. \A t \in Tasks : Got(t) = {} /\ InTime(t) = {}
  BY <1>1 DEF Got, Having, InTime
<1>7. Asked BY <1>1, <1>2, <1>3 DEF Asked
<1>8. PartInv BY <1>4, <1>5 DEF PartInv, Over, TerminalStatuses
<1>9. CountInv
  <2>1. Cardinality({}) = 0 /\ \A t \in Tasks : Target[t] \in Nat BY FS_EmptySet, DownloadsAssumption
  <2> QED BY <1>4, <1>6, <2>1 DEF CountInv
<1>10. DoneInv BY <1>4 DEF DoneInv, Attends
<1> QED BY <1>7, <1>8, <1>9, <1>10

\* The inductive invariant of the items, the parts and the counts.
THEOREM CountsHold == Spec => [](Asked /\ PartInv /\ CountInv /\ DoneInv)
<1> DEFINE I == Asked /\ PartInv /\ CountInv /\ DoneInv
<1>1. Init => I BY InitCounts
<1>2. TypeOK /\ TypeOK' /\ RootInv /\ I /\ [Next]_vars => I'
  BY AskedInductive, PartInductive, CountInductive, DoneInductive
<1> QED BY <1>1, <1>2, TypeCorrect, InvariantHolds, PTL DEF Spec

\* No task makes more new files than it was asked for: run_download_task spawns a
\* transfer only while what it has counted and what is under way stay below the
\* target, and counts at the start what earlier runs made.
THEOREM NeverAboveTarget == Spec => []AtMostTarget
<1>1. TypeOK /\ CountInv => AtMostTarget BY CountsBound
<1> QED BY <1>1, TypeCorrect, CountsHold, PTL

\* A download that is completed has its target or has tried everything: the body
\* ends only with nothing under way, and its verdict remembers every failure.
THEOREM CompletedAlwaysDone == Spec => []CompletedMeansDone
<1>1. DoneInv => CompletedMeansDone BY DEF DoneInv, DoneEnough, Got, CompletedMeansDone
<1> QED BY <1>1, CountsHold, PTL

\* No part file outlives the tasks that could go on with it: who ends a task has
\* the root until cleanup_terminal_download_part_files is through.
THEOREM NoPartIsLeft == Spec => []NoPartLeft
<1>1. PartInv => NoPartLeft BY DEF PartInv, Over, NoPartLeft
<1> QED BY <1>1, CountsHold, PTL

=============================================================================
