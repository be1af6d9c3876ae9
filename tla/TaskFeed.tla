------------------------------- MODULE TaskFeed -------------------------------
(***************************************************************************)
(* How a browser follows the tasks: the numbered events of TaskManager     *)
(* with their replay buffer and broadcast channel (backend/src/tasks.rs),  *)
(* the event stream and the snapshot of backend/src/routes/api.rs, and the *)
(* store of the page (frontend/src/stores/tasks.ts), which merges          *)
(* snapshots, events and the answers to its own requests by revision.      *)
(*                                                                         *)
(* The page runs one callback at a time, so a callback is one action, with *)
(* whatever continues in the same turn.  Of a task the module keeps its    *)
(* revision and whether it is "running" (its updates are held back for a   *)
(* moment), "idle" (otherwise active) or "ended".  Names Fault_X are       *)
(* faulty variants of X; no specification uses them.                       *)
(***************************************************************************)
EXTENDS Naturals, Sequences, SequencesExt, FiniteSets, FiniteSetsExt

CONSTANTS
  NumTasks,       \* bound: this many tasks are created, 1 first, then 2, ...
  ReplayCapacity, \* events the replay buffer keeps (4096 in the code)
  ChannelCapacity,\* events the channel keeps for a slow stream (1024 in the code)
  MaxChanges,     \* bound: users and workers change tasks at most this often
  MaxFaults       \* bound: requests and connections fail, and the server restarts,
                  \* at most this often taken together

ASSUME TaskFeedAssumption ==
  /\ NumTasks \in Nat
  /\ ReplayCapacity \in Nat \ { 0 }
  /\ ChannelCapacity \in Nat \ { 0 }
  /\ MaxChanges \in Nat /\ MaxFaults \in Nat

Tasks == 1 .. NumTasks

VARIABLES
  tasks,    \* the server's tasks: TaskManager.snapshots
  gone,     \* history: the ids deleted so far
  base,     \* TaskManager.sequence when the server started
  log,      \* the events of this server, numbered base + 1, base + 2, ...
  sent,     \* how many of them were put into the replay buffer and the channel
  stream,   \* the server's side of the page's event stream
  wire,     \* what the stream has sent and the page has not read
  known,    \* tasks.value
  lastId,   \* lastEventId
  pending,  \* pendingProgressEvents: updates of running tasks, held back
  sync,     \* the snapshot request in flight ("syncing")
  source,   \* the EventSource: "none", "open", "broken"; or connect() on its way:
            \* "waiting" for the retry timer, "loading" the snapshot first
  error,    \* the last snapshot request failed
  answer,   \* the answer to a pause, resume, cancel, retry or confirm, in flight
  holes,    \* history: how the page lost track, and the first snapshot that mends it
  changes, faults  \* history: what the bounds count

serverVars == << tasks, gone, base, log, sent >>
pageVars   == << known, lastId, pending, sync, source, error, answer, holes >>
bounds     == << changes, faults >>
vars       == << serverVars, stream, wire, pageVars, bounds >>

Moods == { "running", "idle", "ended" }
Entry == [ rev : Nat, mood : Moods \cup { "absent" } ]
Absent == [ rev |-> 0, mood |-> "absent" ]
Event == [ num : Nat, kind : { "updated", "deleted", "resync" }, task : Tasks \cup { 0 },
           entry : Entry ]

\* "overrun" is history: the first events of replays that came too late.
NoStream == [ pc |-> "none", last |-> 0, pos |-> 0, latest |-> 0, overrun |-> {} ]
NoSync   == [ state |-> "none", tasks |-> [ t \in Tasks |-> Absent ], num |-> 0 ]
Hole(why, num) == [ why |-> why, num |-> num ]
NoAnswer == [ task |-> 0, entry |-> Absent ]

-----------------------------------------------------------------------------
(* The server.                                                              *)

Sequence == base + Len(log)

\* A method of TaskManager holds the mutation lock until its event is sent.
Unlocked == sent = Len(log)

\* Something fails.
Fault ==
  /\ faults < MaxFaults
  /\ faults' = faults + 1

\* What is left of the replay buffer, and what of it comes after number n: the
\* numbers go up by one, so that is where the buffer begins or right behind n.
Dropped == IF sent > ReplayCapacity THEN sent - ReplayCapacity ELSE 0
Replay == SubSeq(log, Dropped + 1, sent)
ReplayAfter(n) ==
  SubSeq(log, IF n > base + Dropped THEN n - base + 1 ELSE Dropped + 1, sent)

Active(e) == e.mood \in { "running", "idle" }

\* What the methods of TaskManager make of a task, this module's view of it.
NextMoods(mood) ==
  CASE mood = "absent"  -> { "idle" }
    [] mood = "idle"    -> { "running", "idle", "ended" }
    [] mood = "running" -> Moods
    [] mood = "ended"   -> { "idle" }

\* emit, first part: the event has its number.
Number(t, kind, entry) ==
  log' = Append(log, [ num |-> Sequence + 1, kind |-> kind, task |-> t, entry |-> entry ])

Change(t, mood) ==
  LET entry == [ rev |-> tasks[t].rev + 1, mood |-> mood ] IN
  /\ Unlocked
  /\ changes < MaxChanges
  /\ t \notin gone
  /\ \A u \in 1 .. t - 1 : tasks[u] # Absent \/ u \in gone
  /\ mood \in NextMoods(tasks[t].mood)
  /\ tasks' = [ tasks EXCEPT ![t] = entry ]
  /\ Number(t, "updated", entry)
  /\ changes' = changes + 1

\* A worker or another page changes a task.
ChangeTask(t) ==
  /\ \E mood \in Moods : Change(t, mood)
  /\ UNCHANGED << gone, base, sent, stream, wire, pageVars, faults >>

\* This page asks for the change; the answer is the task as of this change.
ControlTask(t) ==
  /\ known[t] # Absent
  /\ tasks[t] # Absent
  /\ answer = NoAnswer
  /\ \E mood \in { "idle", "ended" } : Change(t, mood)
  /\ answer' = [ task |-> t, entry |-> tasks'[t] ]
  /\ UNCHANGED << gone, base, sent, stream, wire, known, lastId, pending, sync,
                  source, error, holes, faults >>

\* delete_terminal
DeleteTask(t) ==
  /\ Unlocked
  /\ changes < MaxChanges
  /\ tasks[t].mood = "ended"
  /\ tasks' = [ tasks EXCEPT ![t] = Absent ]
  /\ gone' = gone \cup { t }
  /\ Number(t, "deleted", tasks[t])
  /\ changes' = changes + 1
  /\ UNCHANGED << base, sent, stream, wire, pageVars, faults >>

\* emit, second part: into the buffer, then to the channel.  A stream that looks
\* in between reads the event twice, as it does when its receiver lags.
SendEvent ==
  /\ ~ Unlocked
  /\ sent' = sent + 1
  /\ UNCHANGED << tasks, gone, base, log, stream, wire, pageVars, bounds >>

\* TaskManager::new and recover_interrupted: the numbers go on from the sum of
\* the revisions, the buffer is empty, and what was running, pausing or
\* cancelling has moved on.  A restart outlasts whatever is in flight.
RestartServer ==
  LET sum == FoldFunction(LAMBDA e, n : e.rev + n, 0, tasks)
      Moved(t, mood) == [ rev |-> tasks[t].rev + 1, mood |-> mood ]
  IN
  /\ Fault
  /\ \E moving \in SUBSET { t \in Tasks : Active(tasks[t]) }, mood \in { "idle", "ended" } :
       LET order == SetToSeq(moving) IN
       /\ \A t \in Tasks : tasks[t].mood = "running" => t \in moving
       /\ tasks' = [ t \in Tasks |-> IF t \in moving THEN Moved(t, mood) ELSE tasks[t] ]
       /\ log' = [ i \in 1 .. Len(order) |->
                     [ num |-> sum + i, kind |-> "updated", task |-> order[i],
                       entry |-> Moved(order[i], mood) ] ]
  /\ base' = sum
  /\ sent' = Len(log')
  /\ stream' = NoStream
  /\ wire' = << >>
  /\ source' = IF source = "open" THEN "broken" ELSE source
  /\ sync' = [ NoSync EXCEPT !.state = IF sync.state = "none" THEN "none" ELSE "failed" ]
  /\ answer' = NoAnswer
  /\ holes' = IF lastId > sum THEN holes \cup { Hole("renumbered", lastId) } ELSE holes
  /\ UNCHANGED << gone, known, lastId, pending, error, changes >>

-----------------------------------------------------------------------------
(* task_events: the stream, as far as the channel and the socket let it.    *)

\* The receiver hears what is sent from now on.
OpenStream ==
  /\ stream.pc = "opening"
  /\ stream' = [ stream EXCEPT !.pc = "replay", !.pos = sent ]
  /\ UNCHANGED << serverVars, wire, pageVars, bounds >>

\* replay_after reads the latest number before it has the buffer's lock.
ReadLatest ==
  /\ stream.pc = "replay"
  /\ stream' = [ stream EXCEPT !.pc = "locked", !.latest = Sequence ]
  /\ UNCHANGED << serverVars, wire, pageVars, bounds >>

RequiresResync ==
  /\ stream.last < stream.latest
  /\ Replay = << >> \/ stream.last + 1 < Head(Replay).num

Resync == [ num |-> stream.latest, kind |-> "resync", task |-> 0,
            entry |-> Absent ]

\* More events than the buffer holds were sent since replay_after has read the
\* latest number: RequiresResync then compares what is no longer there.
Overrun == base + sent > stream.latest + ReplayCapacity

ReplayEvents ==
  LET events == ReplayAfter(stream.last) IN
  /\ stream.pc = "locked"
  /\ IF RequiresResync
     THEN /\ wire' = Append(wire, Resync)
          /\ stream' = [ stream EXCEPT !.pc = "replay", !.last = stream.latest, !.latest = 0 ]
     ELSE /\ wire' = wire \o events
          /\ stream' = [ stream EXCEPT !.pc = "receive", !.latest = 0,
                           !.last = IF events = << >> THEN @ ELSE Last(events).num,
                           !.overrun = IF Overrun /\ events # << >>
                                       THEN @ \cup { Head(events).num } ELSE @ ]
  /\ UNCHANGED << serverVars, pageVars, bounds >>

\* Fault: a receiver that fell behind goes on with the oldest event there is.
Fault_ReceiveEvent ==
  LET oldest == IF sent - stream.pos > ChannelCapacity THEN sent - ChannelCapacity
                ELSE stream.pos
      event  == log[oldest + 1]
      fresh  == event.num > stream.last
  IN
  /\ stream.pc = "receive"
  /\ stream.pos < sent
  /\ wire' = IF fresh THEN Append(wire, event) ELSE wire
  /\ stream' = [ stream EXCEPT !.pc = "replay", !.pos = oldest + 1,
                               !.last = IF fresh THEN event.num ELSE @ ]
  /\ UNCHANGED << serverVars, pageVars, bounds >>

\* A receiver that fell behind the channel goes back to the buffer.
ReceiveEvent ==
  LET event == log[stream.pos + 1]
      fresh == event.num > stream.last
  IN
  /\ stream.pc = "receive"
  /\ stream.pos < sent
  /\ IF sent - stream.pos > ChannelCapacity
     THEN /\ stream' = [ stream EXCEPT !.pc = "replay", !.pos = sent - ChannelCapacity ]
          /\ UNCHANGED wire
     ELSE /\ wire' = IF fresh THEN Append(wire, event) ELSE wire
          /\ stream' = [ stream EXCEPT !.pc = "replay", !.pos = @ + 1,
                                       !.last = IF fresh THEN event.num ELSE @ ]
  /\ UNCHANGED << serverVars, pageVars, bounds >>

-----------------------------------------------------------------------------
(* The page: snapshots.                                                     *)

\* loadSnapshot: a request that is in flight serves everybody who asks.
Asked == IF sync.state = "none" THEN [ sync EXCEPT !.state = "asked" ] ELSE sync

\* The poll of updateSnapshotPolling, while the page shows an active task.
Polling == \E t \in Tasks : Active(known[t])

Poll ==
  /\ Polling
  /\ sync.state = "none"
  /\ sync' = Asked
  /\ UNCHANGED << serverVars, stream, wire, known, lastId, pending, source, error,
                  answer, holes, bounds >>

\* A view loads a snapshot after an action of its own, or when told to.  While
\* the page polls, that is what Poll does.
VisitTasks ==
  /\ sync.state = "none"
  /\ ~ Polling
  /\ sync' = Asked
  /\ UNCHANGED << serverVars, stream, wire, known, lastId, pending, source, error,
                  answer, holes, bounds >>

\* list_tasks: tasks and number under the mutation lock.
AnswerSnapshot ==
  /\ sync.state = "asked"
  /\ Unlocked
  /\ sync' = [ state |-> "answered", tasks |-> tasks, num |-> Sequence ]
  /\ UNCHANGED << serverVars, stream, wire, known, lastId, pending, source, error,
                  answer, holes, bounds >>

\* mergeSnapshot: the newer revision wins, and what the snapshot lacks stays.
Merge(shown, snapshot) ==
  [ t \in Tasks |-> IF snapshot[t] = Absent \/ shown[t].rev > snapshot[t].rev
                    THEN shown[t] ELSE snapshot[t] ]

\* connect() goes on once its snapshot request is over.
ConnectGoesOn(failed) ==
  IF source # "loading"
  THEN UNCHANGED << source, stream >>
  ELSE IF failed
       THEN source' = "waiting" /\ UNCHANGED stream
       ELSE /\ source' = "open"
            /\ stream' = [ NoStream EXCEPT !.pc = "opening", !.last = lastId' ]

\* Fault: an old snapshot is merged as well.
Fault_ReceiveSnapshot ==
  /\ sync.state = "answered"
  /\ sync' = NoSync
  /\ known' = Merge(known, sync.tasks)
  /\ lastId' = sync.num
  /\ pending' = [ t \in Tasks |-> Absent ]
  /\ error' = FALSE
  /\ holes' = { hole \in holes : hole.num > sync.num }
  /\ ConnectGoesOn(error')
  /\ UNCHANGED << serverVars, wire, answer, bounds >>

\* A snapshot from before the last event the page has heard of is dropped,
\* and leaves the error of an earlier failure where it is.
ReceiveSnapshot ==
  /\ sync.state = "answered"
  /\ sync' = NoSync
  /\ IF sync.num < lastId
     THEN UNCHANGED << known, lastId, pending, error, holes >>
     ELSE /\ holes' = { hole \in holes : hole.num > sync.num }
          /\ known' = Merge(known, sync.tasks)
          /\ lastId' = sync.num
          /\ pending' = [ t \in Tasks |-> Absent ]
          /\ error' = FALSE
  /\ ConnectGoesOn(error')
  /\ UNCHANGED << serverVars, wire, answer, bounds >>

\* The request fails: because the server restarted, or by itself.
SnapshotFails ==
  /\ \/ sync.state = "failed" /\ UNCHANGED faults
     \/ sync.state = "asked" /\ Fault
  /\ sync' = NoSync
  /\ error' = TRUE
  /\ ConnectGoesOn(TRUE)
  /\ UNCHANGED << serverVars, wire, known, lastId, pending, answer, holes, changes >>

-----------------------------------------------------------------------------
(* The page: events.                                                        *)

\* applyTaskEvent
Applied(shown, entry) == IF entry.rev >= shown.rev THEN entry ELSE shown

\* Fault: the event after a gap counts as the next one.
Fault_ReadEvent ==
  LET event == Head(wire) IN
  /\ source = "open"
  /\ wire # << >>
  /\ wire' = Tail(wire)
  /\ IF event.kind = "resync" \/ event.num <= lastId
     THEN UNCHANGED << known, lastId, pending, sync, holes >>
     ELSE /\ lastId' = event.num
          /\ UNCHANGED << sync, holes >>
          /\ IF event.entry.mood = "running"
             THEN pending' = [ pending EXCEPT ![event.task] = event.entry ] /\ UNCHANGED known
             ELSE /\ pending' = [ pending EXCEPT ![event.task] = Absent ]
                  /\ known' = [ known EXCEPT ![event.task] =
                                  IF event.kind = "deleted" THEN Absent
                                  ELSE Applied(@, event.entry) ]
  /\ UNCHANGED << serverVars, stream, source, error, answer, bounds >>

\* onmessage and applyEvent.  The resync frame has an event name of its own,
\* and EventSource hands only unnamed events to onmessage: nobody hears it.
ReadEvent ==
  LET event == Head(wire) IN
  /\ source = "open"
  /\ wire # << >>
  /\ wire' = Tail(wire)
  /\ IF event.kind = "resync" \/ event.num <= lastId
     THEN /\ holes' = IF event.num > lastId THEN holes \cup { Hole("resync", event.num) } ELSE holes
          /\ UNCHANGED << known, lastId, pending, sync >>
     ELSE /\ lastId' = event.num
          /\ holes' = IF event.num # lastId + 1 THEN holes \cup { Hole("gap", event.num) } ELSE holes
          /\ CASE event.num # lastId + 1 ->
                    sync' = Asked /\ UNCHANGED << known, pending >>
               [] event.num = lastId + 1 /\ event.kind = "updated"
                  /\ event.entry.mood = "running" ->
                    /\ pending' = [ pending EXCEPT ![event.task] = event.entry ]
                    /\ UNCHANGED << known, sync >>
               [] OTHER ->
                    /\ pending' = [ pending EXCEPT ![event.task] = Absent ]
                    /\ known' = [ known EXCEPT ![event.task] =
                                    IF event.kind = "deleted" THEN Absent
                                    ELSE Applied(@, event.entry) ]
                    /\ UNCHANGED sync
  /\ UNCHANGED << serverVars, stream, source, error, answer, bounds >>

\* flushProgressEvents
FlushProgress ==
  /\ \E t \in Tasks : pending[t] # Absent
  /\ known' = [ t \in Tasks |-> IF pending[t] = Absent THEN known[t]
                                ELSE Applied(known[t], pending[t]) ]
  /\ pending' = [ t \in Tasks |-> Absent ]
  /\ UNCHANGED << serverVars, stream, wire, lastId, sync, source, error, answer, holes, bounds >>

\* control: the answer replaces what the page has, whatever its revision.
ReceiveAnswer ==
  /\ answer # NoAnswer
  /\ known' = [ known EXCEPT ![answer.task] = answer.entry ]
  /\ answer' = NoAnswer
  /\ holes' = IF answer.entry.rev < known[answer.task].rev
              THEN holes \cup { Hole("overwritten", lastId) } ELSE holes
  /\ UNCHANGED << serverVars, stream, wire, lastId, pending, sync, source, error, bounds >>

-----------------------------------------------------------------------------
(* The page: the connection.                                                *)

BreakConnection ==
  /\ source = "open"
  /\ Fault
  /\ source' = "broken"
  /\ stream' = NoStream
  /\ wire' = << >>
  /\ UNCHANGED << serverVars, known, lastId, pending, sync, error, answer, holes, changes >>

\* Fault: the source is closed and that is all.
Fault_SourceFails ==
  /\ source = "broken"
  /\ source' = "none"
  /\ UNCHANGED << serverVars, stream, wire, known, lastId, pending, sync, error,
                  answer, holes, bounds >>

\* onerror: the source is closed and connect() called again in a while.
SourceFails ==
  /\ source = "broken"
  /\ source' = "waiting"
  /\ UNCHANGED << serverVars, stream, wire, known, lastId, pending, sync, error,
                  answer, holes, bounds >>

\* connect(), from the page's start or from the retry timer.
Connect ==
  /\ source = "waiting"
  /\ source' = "loading"
  /\ sync' = Asked
  /\ UNCHANGED << serverVars, stream, wire, known, lastId, pending, error, answer, holes, bounds >>

-----------------------------------------------------------------------------
Init ==
  /\ tasks = [ t \in Tasks |-> Absent ]
  /\ gone = {}
  /\ base = 0
  /\ log = << >>
  /\ sent = 0
  /\ stream = NoStream
  /\ wire = << >>
  /\ known = [ t \in Tasks |-> Absent ]
  /\ lastId = 0
  /\ pending = [ t \in Tasks |-> Absent ]
  /\ sync = NoSync
  /\ source = "waiting"
  /\ error = FALSE
  /\ answer = NoAnswer
  /\ holes = {}
  /\ changes = 0
  /\ faults = 0

StreamStep == OpenStream \/ ReadLatest \/ ReplayEvents \/ ReceiveEvent
SyncStep   == AnswerSnapshot \/ ReceiveSnapshot \/ SnapshotFails
TaskStep(t) == ChangeTask(t) \/ ControlTask(t) \/ DeleteTask(t)

Next ==
  \/ \E t \in Tasks : TaskStep(t)
  \/ SendEvent \/ StreamStep \/ SyncStep
  \/ Poll \/ VisitTasks \/ ReadEvent \/ FlushProgress \/ ReceiveAnswer
  \/ RestartServer \/ BreakConnection \/ SourceFails \/ Connect

\* Timers fire, requests are answered or fail, the stream's task and the page
\* run on; nobody has to change a task, and nothing has to fail.
Fairness ==
  /\ WF_vars(SendEvent)
  /\ WF_vars(StreamStep)
  /\ SF_vars(AnswerSnapshot) /\ WF_vars(ReceiveSnapshot)
  /\ WF_vars(sync.state = "failed" /\ SnapshotFails)
  /\ WF_vars(ReadEvent) /\ WF_vars(FlushProgress) /\ WF_vars(ReceiveAnswer)
  /\ WF_vars(SourceFails) /\ WF_vars(Connect)
  /\ WF_vars(Poll)

Spec == Init /\ [][Next]_vars /\ Fairness

-----------------------------------------------------------------------------
(* What the page and the stream promise.                                    *)

TypeOK ==
  /\ tasks \in [ Tasks -> Entry ]
  /\ gone \subseteq Tasks
  /\ base \in Nat
  /\ log \in Seq(Event)
  /\ sent \in 0 .. Len(log)
  /\ stream \in [ pc : { "none", "opening", "replay", "locked", "receive" },
                  last : Nat, pos : Nat, latest : Nat, overrun : SUBSET Nat ]
  /\ wire \in Seq(Event)
  /\ known \in [ Tasks -> Entry ] /\ pending \in [ Tasks -> Entry ]
  /\ lastId \in Nat
  /\ sync \in [ state : { "none", "asked", "answered", "failed" },
                tasks : [ Tasks -> Entry ], num : Nat ]
  /\ source \in { "open", "broken", "waiting", "loading" }
  /\ error \in BOOLEAN
  /\ answer \in [ task : Tasks \cup { 0 }, entry : Entry ]
  /\ holes \subseteq [ why : { "resync", "gap", "overwritten", "renumbered" }, num : Nat ]
  /\ changes \in 0 .. MaxChanges /\ faults \in 0 .. MaxFaults

\* The stream repeats nothing and leaves nothing out between two frames, unless
\* it says so with a resync frame: task_events hands over from the replay buffer
\* to the channel and back, at any moment of an emission.  It skips events in
\* silence in one case only, when the buffer was overrun between the two reads
\* of replay_after.
StreamGapless ==
  \A i \in 1 .. Len(wire) - 1 :
    \/ wire[i + 1].num = wire[i].num + 1
    \/ /\ wire[i + 1].num > wire[i].num
       /\ wire[i + 1].kind = "resync" \/ wire[i + 1].num \in stream.overrun

\* lastEventId is honest: whatever the server has told up to that number, the
\* page shows, holds back for its next flush, or saw deleted; unless it has
\* lost track in one of the ways "holes" names, and then only until it takes
\* the next snapshot.
PositionCovered ==
  holes = {} =>
    \A i \in 1 .. Len(log) :
      LET e == log[i] IN
      e.num <= lastId /\ e.task \notin gone =>
        known[e.task].rev >= e.entry.rev \/ pending[e.task].rev >= e.entry.rev

\* The page has been told of t's deletion.
ToldDeleted(t) ==
  \E i \in 1 .. Len(log) : log[i].kind = "deleted" /\ log[i].task = t /\ log[i].num <= lastId

\* The page has jumped over no event, and the numbers are those it counts with.
Followed == ~ \E hole \in holes : hole.why \in { "gap", "renumbered" }

\* No snapshot, event or flush puts an older revision over a newer one; only the
\* answer to the page's own request does that.  Nor does one bring back a task
\* whose deletion the page has read: a deletion it has jumped over can leave an
\* update behind that the next flush shows.
NeverBackwards ==
  [][ \A t \in Tasks :
        \/ known'[t] = Absent
        \/ /\ known'[t].rev >= known[t].rev
           /\ ToldDeleted(t) /\ Followed => known'[t] = known[t]
        \/ answer # NoAnswer /\ answer' = NoAnswer ]_vars

CaughtUp == \A t \in Tasks : tasks[t] # Absent => known[t] = tasks[t]

\* The server counts from below the page's position (TaskManager's numbers go
\* back after a deletion and a restart), so the page takes none of its snapshots.
Behind == lastId > Sequence

\* Once nothing changes any more, the page shows every task as it is.  If it
\* does not, it has lost track in a named way and does not poll, because it
\* shows no active task, or polls in vain, because it is ahead of the server.
CatchesUp == <>[](CaughtUp \/ (holes # {} /\ (~ Polling \/ Behind)))

\* Connections and requests may fail; the page is connected again in the end,
\* unless its snapshots are refused.
Reconnects == <>[](source = "open" \/ Behind)

\* A frame that says events are missing makes the page load a snapshot.
ResyncHeard ==
  [][ wire # << >> /\ wire' = Tail(wire) /\ Head(wire).kind = "resync"
        => sync'.state # "none" ]_vars
=============================================================================
