----------------------------- MODULE VllmRuntime -----------------------------
(***************************************************************************)
(* VllmRuntimeCoordinator of backend/src/routes/api.rs: the tasks and the  *)
(* two handlers that share one vLLM server, which is started for the first *)
(* of them, waited for by the others and stopped after the last.  One      *)
(* section under the coordinator's lock, one run of a script or one wait   *)
(* is one action; the notification that follows a section belongs to it.   *)
(*                                                                         *)
(* A call is one use of acquire_vllm_runtime and release_vllm_runtime, or  *)
(* of the handler vllm_unload.  The server and the scripts that start and  *)
(* stop it are other processes: what the program hears of them, or fails   *)
(* to hear in time, is any answer at any time.  A stop script runs in a    *)
(* blocking thread of its own: it goes on when the wait for it is given up *)
(* after 30 seconds, and when the handler that waits for it is dropped.    *)
(*                                                                         *)
(* Names of the form Fault_X are faulty variants of X, used to show that a *)
(* property notices the fault; no specification uses them.                 *)
(***************************************************************************)
EXTENDS Naturals, FiniteSets

CONSTANTS
  Calls,      \* the calls, each made at most once
  Role,       \* Role[c]: what call c does
  Keys,       \* pairs of an endpoint and a model
  Key,        \* Key[c]: the pair c needs
  NoKey

Roles == { "task", "augmentation", "load", "unload" }

ASSUME VllmRuntimeAssumption ==
  /\ IsFiniteSet(Calls)
  /\ Role \in [ Calls -> Roles ]
  /\ Key \in [ Calls -> Keys ]
  /\ NoKey \notin Keys

VARIABLES
  rt,         \* VllmRuntimeState
  pc,         \* pc[c]: how far call c has come
  gen,        \* gen[c]: the generation of what c has: a reservation, a start,
              \* a lease or a stop; 0 if nothing
  woken,      \* waiting calls that were notified
  script,     \* script[c]: the stop script of call c runs, or runs on after the
              \* wait for it was given up
  leaked,     \* history: calls that ended without returning their lease
  stuck,      \* history: handlers dropped in the middle of a start or a stop
  unloadFailed, \* history: the last unload failed, and nobody had a lease since
  found,      \* history: the last start found a server that ran already
  loads       \* history: users' loads that got a lease of this server

vars == << rt, pc, gen, woken, script, leaked, stuck, unloadFailed, found, loads >>
history == << leaked, stuck, unloadFailed, found, loads >>

\* The steps of a start, with what is known of it, and of a stop.
Probing   == { "probe" }
Launching == { "launch", "poll", "cleanup" }
Outcomes  == { "found", "launched", "notlaunched", "cleaned", "notcleaned" }
Starting  == Probing \cup Launching \cup Outcomes
Stopping  == { "unloading", "unloaded", "notunloaded" }
PCs == { "idle", "entry", "waiting", "cancelling", "using", "stop", "done" }
         \cup Starting \cup Stopping

Keep(c) == Role[c] = "load"

\* The steps at which a stop script is waited for.
AtScript == { "unloading", "cleanup" }

\* To come to one of them is to start the script.
Goto(c, label) ==
  /\ pc' = [ pc EXCEPT ![c] = label ]
  /\ script' = IF label \in AtScript THEN [ script EXCEPT ![c] = "running" ] ELSE script

Has(c, generation) == gen' = [ gen EXCEPT ![c] = generation ]

\* A user's load has got its lease.
Loads(c) == loads' = IF Keep(c) THEN loads \cup { c } ELSE loads

\* notify_waiters
NotifyWaiters == woken' = { c \in Calls : pc[c] = "waiting" }

\* The call is over, and has nothing.
Finish(c) == Goto(c, "done") /\ Has(c, 0)

-----------------------------------------------------------------------------
(* What the coordinator decides, under its lock.                            *)

\* Fault: reservations do not count.
Fault_Unused(leases, pendings) == leases = 0

Unused(leases, pendings) == leases = 0 /\ pendings = 0

StartedForTasks == rt.autoStarted /\ ~ rt.keepLoaded

\* c's reservation has been decided upon.
Decided(c) == gen[c] # 0 /\ gen[c] = rt.generation /\ ~ rt.starting

Activatable(c) == Decided(c) /\ ~ rt.startFailed /\ rt.key = Key[c]
                    /\ rt.ready /\ rt.pendings > 0

\* The reservation is looked at, and leads to nothing.
GoesOn(c) == pc[c] = "entry" /\ ~ (Decided(c) /\ rt.startFailed) /\ ~ Activatable(c)

Reservation(c) == IF gen[c] = rt.generation THEN gen[c] ELSE 0

\* Fault: nobody asks whether the other model is in use.
Fault_Refused(c) ==
  \/ rt.starting /\ rt.key # Key[c]
  \/ ~ rt.starting /\ ~ rt.ready /\ rt.autoStarted

\* Another model is being started, is in use or is ours to stop; or a failed
\* start has left a server behind.
Refused(c) ==
  \/ rt.starting /\ rt.key # Key[c]
  \/ ~ rt.starting /\ rt.ready /\ rt.key # Key[c] /\ (rt.leases > 0 \/ rt.autoStarted)
  \/ ~ rt.starting /\ ~ rt.ready /\ (rt.autoStarted \/ (rt.leases > 0 /\ rt.key # Key[c]))

Shared(c) == ~ rt.starting /\ rt.key = Key[c] /\ (rt.ready \/ rt.leases > 0)

-----------------------------------------------------------------------------
(* acquire_vllm_runtime                                                     *)

Arrive(c) ==
  /\ pc[c] = "idle"
  /\ Goto(c, IF Role[c] = "unload" THEN "stop" ELSE "entry")
  /\ UNCHANGED << rt, gen, woken, history >>

SeeStartFailure(c) ==
  /\ pc[c] = "entry"
  /\ Decided(c)
  /\ rt.startFailed
  /\ Finish(c)
  /\ UNCHANGED << rt, woken, history >>

\* Fault: the reservation is given up, and no lease counted.
Fault_ActivatePending(c) ==
  /\ pc[c] = "entry"
  /\ Activatable(c)
  /\ rt' = [ rt EXCEPT !.pendings = @ - 1, !.keepLoaded = @ \/ Keep(c) ]
  /\ Goto(c, "using")
  /\ Loads(c)
  /\ UNCHANGED << gen, woken, leaked, stuck, unloadFailed, found >>

ActivatePending(c) ==
  /\ pc[c] = "entry"
  /\ Activatable(c)
  /\ rt' = [ rt EXCEPT !.pendings = @ - 1, !.leases = @ + 1, !.keepLoaded = @ \/ Keep(c) ]
  /\ Goto(c, "using")
  /\ Loads(c)
  /\ UNCHANGED << gen, woken, leaked, stuck, unloadFailed, found >>

AwaitStop(c) ==
  /\ GoesOn(c)
  /\ rt.stopping
  /\ Has(c, Reservation(c))
  /\ Goto(c, "waiting")
  /\ UNCHANGED << rt, woken, history >>

\* A reservation is made once for a generation.
AwaitStart(c) ==
  /\ GoesOn(c)
  /\ ~ rt.stopping
  /\ rt.starting
  /\ ~ Refused(c)
  /\ rt' = IF Reservation(c) = 0 THEN [ rt EXCEPT !.pendings = @ + 1 ] ELSE rt
  /\ Has(c, rt.generation)
  /\ Goto(c, "waiting")
  /\ UNCHANGED << woken, history >>

\* The caller gets an error.  An armed reservation is cancelled by a task of its own.
FailWith(c, reservation) ==
  /\ Has(c, reservation)
  /\ Goto(c, IF reservation # 0 THEN "cancelling" ELSE "done")

Refuse(c) ==
  /\ GoesOn(c)
  /\ ~ rt.stopping
  /\ Refused(c)
  /\ FailWith(c, Reservation(c))
  /\ UNCHANGED << rt, woken, history >>

\* Fault: that a user wants the server to stay is noted by who starts it only.
Fault_ShareLease(c) ==
  /\ GoesOn(c)
  /\ ~ rt.stopping
  /\ ~ Refused(c)
  /\ Shared(c)
  /\ rt' = [ rt EXCEPT !.leases = @ + 1 ]
  /\ Has(c, rt.generation)
  /\ Goto(c, "using")
  /\ Loads(c)
  /\ unloadFailed' = FALSE
  /\ UNCHANGED << woken, leaked, stuck, found >>

ShareLease(c) ==
  /\ GoesOn(c)
  /\ ~ rt.stopping
  /\ ~ Refused(c)
  /\ Shared(c)
  /\ rt' = [ rt EXCEPT !.leases = @ + 1, !.keepLoaded = @ \/ Keep(c) ]
  /\ Has(c, rt.generation)
  /\ Goto(c, "using")
  /\ Loads(c)
  /\ unloadFailed' = FALSE
  /\ UNCHANGED << woken, leaked, stuck, found >>

\* begin_generation
BeginGeneration(c) ==
  /\ GoesOn(c)
  /\ ~ rt.stopping
  /\ ~ rt.starting
  /\ ~ Refused(c)
  /\ ~ Shared(c)
  /\ rt' = [ key |-> Key[c], generation |-> rt.generation + 1, starting |-> TRUE,
             ready |-> FALSE, stopping |-> FALSE, autoStarted |-> FALSE,
             keepLoaded |-> Keep(c), leases |-> 0, pendings |-> 0, startFailed |-> FALSE ]
  /\ Has(c, rt.generation + 1)
  /\ Goto(c, "probe")
  /\ loads' = {}
  /\ UNCHANGED << woken, leaked, stuck, unloadFailed, found >>

Wake(c) ==
  /\ pc[c] = "waiting"
  /\ c \in woken
  /\ woken' = woken \ { c }
  /\ Goto(c, "entry")
  /\ UNCHANGED << rt, gen, history >>

\* 60 seconds for a stop, 16 minutes for a start.
WaitTimesOut(c) ==
  /\ pc[c] = "waiting"
  /\ c \notin woken
  /\ FailWith(c, gen[c])
  /\ UNCHANGED << rt, woken, history >>

\* cancel_pending_vllm_acquire, in a task of its own
CancelPending(c) ==
  LET counts == gen[c] = rt.generation /\ rt.pendings > 0
      unload == /\ counts
                /\ rt.ready
                /\ Unused(rt.leases, rt.pendings - 1)
                /\ StartedForTasks IN
  /\ pc[c] = "cancelling"
  /\ rt' = IF counts THEN [ rt EXCEPT !.pendings = @ - 1, !.stopping = @ \/ unload ] ELSE rt
  /\ Goto(c, IF unload THEN "unloading" ELSE "done")
  /\ Has(c, IF unload THEN gen[c] ELSE 0)
  /\ NotifyWaiters
  /\ UNCHANGED history

-----------------------------------------------------------------------------
(* The start of a generation, by the call that began it.                    *)

\* configured_vllm_model_is_ready: whether a server is there, and answers in time.
Probe(c) ==
  /\ pc[c] = "probe"
  /\ found' \in BOOLEAN
  /\ Goto(c, IF found' THEN "found" ELSE "launch")
  /\ UNCHANGED << rt, gen, woken, leaked, stuck, unloadFailed, loads >>

Launch(c) ==
  /\ pc[c] = "launch"
  /\ Goto(c, "poll") \/ Goto(c, "notlaunched")
  /\ UNCHANGED << rt, gen, woken, history >>

PollReady(c) ==
  /\ pc[c] = "poll"
  /\ Goto(c, "launched")
  /\ UNCHANGED << rt, gen, woken, history >>

\* After 15 minutes whatever the launcher started is stopped again.
StartTimesOut(c) ==
  /\ pc[c] = "poll"
  /\ Goto(c, "cleanup")
  /\ UNCHANGED << rt, gen, woken, history >>

StartSucceeds(c) ==
  /\ pc[c] \in { "found", "launched" }
  /\ IF gen[c] # rt.generation
     THEN Goto(c, "entry") /\ Has(c, 0) /\ UNCHANGED << rt, unloadFailed, loads >>
     ELSE /\ rt' = [ rt EXCEPT !.starting = FALSE, !.ready = TRUE,
                               !.autoStarted = (pc[c] = "launched"),
                               !.leases = 1, !.startFailed = FALSE ]
          /\ unloadFailed' = FALSE
          /\ Goto(c, "using")
          /\ Loads(c)
          /\ UNCHANGED gen
  /\ NotifyWaiters
  /\ UNCHANGED << leaked, stuck, found >>

\* Fault: whoever waits for the start is not told.
Fault_StartFails(c) ==
  /\ pc[c] \in { "notlaunched", "cleaned", "notcleaned" }
  /\ rt' = [ rt EXCEPT !.starting = FALSE, !.pendings = 0, !.keepLoaded = FALSE,
                       !.startFailed = TRUE, !.autoStarted = (pc[c] = "notcleaned") ]
  /\ Finish(c)
  /\ UNCHANGED << woken, history >>

\* The waiters with a reservation will see the failure.  What could not be
\* stopped again is remembered as ours.
StartFails(c) ==
  /\ pc[c] \in { "notlaunched", "cleaned", "notcleaned" }
  /\ IF gen[c] # rt.generation
     THEN Goto(c, "entry") /\ Has(c, 0) /\ UNCHANGED rt
     ELSE /\ rt' = [ rt EXCEPT !.starting = FALSE, !.ready = FALSE, !.leases = 0,
                               !.pendings = 0, !.keepLoaded = FALSE, !.startFailed = TRUE,
                               !.key = IF pc[c] = "notcleaned" THEN @ ELSE NoKey,
                               !.autoStarted = (pc[c] = "notcleaned") ]
          /\ Finish(c)
  /\ NotifyWaiters
  /\ UNCHANGED history

-----------------------------------------------------------------------------
(* Use, release, unload.                                                    *)

\* An augmentation returns from between acquire and release with an error.
AbandonLease(c) ==
  /\ pc[c] = "using"
  /\ Role[c] = "augmentation"
  /\ Finish(c)
  /\ leaked' = leaked \cup { c }
  /\ UNCHANGED << rt, woken, stuck, unloadFailed, found, loads >>

\* Fault: nothing is unloaded.
Fault_ReleaseLease(c) ==
  /\ pc[c] = "using"
  /\ rt' = [ rt EXCEPT !.leases = @ - 1 ]
  /\ Finish(c)
  /\ NotifyWaiters
  /\ UNCHANGED history

\* release_vllm_runtime, when the work with the model is done; a handler that only
\* loads the model gets here at once.
ReleaseLease(c) ==
  LET counts == gen[c] = rt.generation /\ rt.leases > 0
      unload == counts /\ Unused(rt.leases - 1, rt.pendings) /\ StartedForTasks IN
  /\ pc[c] = "using"
  /\ rt' = IF counts THEN [ rt EXCEPT !.leases = @ - 1, !.stopping = @ \/ unload ] ELSE rt
  /\ IF unload
     THEN /\ Goto(c, "unloading")
                  /\ UNCHANGED << gen, woken >>
     ELSE Finish(c) /\ NotifyWaiters
  /\ UNCHANGED history

\* vllm_unload and begin_manual_stop
BeginManualStop(c) ==
  /\ pc[c] = "stop"
  /\ Unused(rt.leases, rt.pendings) /\ ~ rt.starting /\ ~ rt.stopping
  /\ rt' = [ rt EXCEPT !.generation = @ + 1, !.stopping = TRUE, !.startFailed = FALSE ]
  /\ Has(c, rt.generation + 1)
  /\ Goto(c, "unloading")
  /\ NotifyWaiters
  /\ UNCHANGED history

RefuseManualStop(c) ==
  /\ pc[c] = "stop"
  /\ ~ Unused(rt.leases, rt.pendings) \/ rt.starting \/ rt.stopping
  /\ Finish(c)
  /\ UNCHANGED << rt, woken, history >>

\* The stop script ends while its caller waits for it.
ScriptEnds(c) ==
  /\ pc[c] \in AtScript
  /\ \E label \in IF pc[c] = "unloading" THEN { "unloaded", "notunloaded" }
                                        ELSE { "cleaned", "notcleaned" } :
       pc' = [ pc EXCEPT ![c] = label ]
  /\ script' = [ script EXCEPT ![c] = "none" ]
  /\ UNCHANGED << rt, gen, woken, history >>

\* The caller gives it up after 30 seconds, and counts the stop as failed.
ScriptTimesOut(c) ==
  /\ pc[c] \in AtScript
  /\ pc' = [ pc EXCEPT ![c] = IF @ = "unloading" THEN "notunloaded" ELSE "notcleaned" ]
  /\ script' = [ script EXCEPT ![c] = "overdue" ]
  /\ UNCHANGED << rt, gen, woken, history >>

\* A script ends that nobody waits for any more.
StrayScriptEnds(c) ==
  /\ pc[c] \notin AtScript
  /\ script[c] # "none"
  /\ script' = [ script EXCEPT ![c] = "none" ]
  /\ UNCHANGED << rt, pc, gen, woken, history >>

\* unload_vllm_generation, after its script
FinishUnload(c) ==
  LET counts == gen[c] = rt.generation /\ rt.stopping
      success == pc[c] = "unloaded" IN
  /\ pc[c] \in { "unloaded", "notunloaded" }
  /\ rt' = CASE ~ counts -> rt
             [] counts /\ success ->
                  [ key |-> NoKey, generation |-> rt.generation, starting |-> rt.starting,
                    ready |-> FALSE, stopping |-> FALSE, autoStarted |-> FALSE,
                    keepLoaded |-> FALSE, leases |-> 0, pendings |-> 0, startFailed |-> FALSE ]
             [] OTHER -> [ rt EXCEPT !.stopping = FALSE ]
  /\ unloadFailed' = (counts /\ ~ success)
  /\ loads' = IF counts /\ success THEN {} ELSE loads
  /\ Finish(c)
  /\ NotifyWaiters
  /\ UNCHANGED << leaked, stuck, found >>

\* The client of a handler goes away, and the handler is dropped at the await
\* it is at: a reservation is cancelled, nothing else is undone, and a script
\* it waited for goes on.
Disconnect(c) ==
  /\ Role[c] \in { "load", "unload" }
  /\ pc[c] \notin { "idle", "cancelling", "done" }
  /\ IF pc[c] \in { "entry", "waiting" } THEN FailWith(c, gen[c]) ELSE Finish(c)
  /\ leaked' = IF pc[c] = "using" THEN leaked \cup { c } ELSE leaked
  /\ stuck' = IF pc[c] \in Starting \cup Stopping THEN stuck \cup { c } ELSE stuck
  /\ woken' = woken \ { c }
  /\ UNCHANGED << rt, unloadFailed, found, loads >>

-----------------------------------------------------------------------------
Init ==
  /\ rt = [ key |-> NoKey, generation |-> 0, starting |-> FALSE, ready |-> FALSE,
            stopping |-> FALSE, autoStarted |-> FALSE, keepLoaded |-> FALSE,
            leases |-> 0, pendings |-> 0, startFailed |-> FALSE ]
  /\ pc = [ c \in Calls |-> "idle" ]
  /\ gen = [ c \in Calls |-> 0 ]
  /\ woken = {}
  /\ leaked = {}
  /\ stuck = {}
  /\ unloadFailed = FALSE
  /\ script = [ c \in Calls |-> "none" ]
  /\ found = FALSE
  /\ loads = {}

Enters(c) == \/ SeeStartFailure(c) \/ ActivatePending(c) \/ AwaitStop(c) \/ AwaitStart(c)
             \/ Refuse(c) \/ ShareLease(c) \/ BeginGeneration(c) \/ Wake(c) \/ CancelPending(c)
Starts(c) == \/ Probe(c) \/ Launch(c) \/ PollReady(c) \/ StartTimesOut(c)
             \/ StartSucceeds(c) \/ StartFails(c)
Ends(c) == \/ AbandonLease(c) \/ ReleaseLease(c) \/ BeginManualStop(c)
           \/ RefuseManualStop(c) \/ ScriptEnds(c) \/ ScriptTimesOut(c) \/ FinishUnload(c)

Next ==
  \/ \E c \in Calls : \/ Enters(c) \/ Starts(c) \/ Ends(c)
                      \/ Arrive(c) \/ WaitTimesOut(c) \/ Disconnect(c) \/ StrayScriptEnds(c)

\* Calls are tokio tasks that run whenever they can; a body, a launch and a
\* poll end in the end, and so does a stop script or the wait for it.  No wait
\* for another call has to time out, and no script nobody waits for has to end.
Fairness == \A c \in Calls : WF_vars(Enters(c) \/ Starts(c) \/ Ends(c))

Spec == Init /\ [][Next]_vars /\ Fairness

-----------------------------------------------------------------------------
(* Properties.                                                              *)

N == Cardinality(Calls)

TypeOK ==
  /\ rt \in [ key : Keys \cup { NoKey }, generation : Nat, starting : BOOLEAN,
              ready : BOOLEAN, stopping : BOOLEAN, autoStarted : BOOLEAN,
              keepLoaded : BOOLEAN, leases : 0..N, pendings : 0..N, startFailed : BOOLEAN ]
  /\ pc \in [ Calls -> PCs ]
  /\ gen \in [ Calls -> Nat ]
  /\ woken \subseteq { c \in Calls : pc[c] = "waiting" }
  /\ leaked \subseteq Calls
  /\ stuck \subseteq Calls
  /\ unloadFailed \in BOOLEAN
  /\ script \in [ Calls -> { "none", "running", "overdue" } ]
  /\ found \in BOOLEAN
  /\ loads \subseteq Calls

Holders == { c \in Calls : pc[c] = "using" }

Reserved == { c \in Calls : /\ pc[c] \in { "entry", "waiting", "cancelling" }
                            /\ gen[c] = rt.generation
                            /\ gen[c] # 0 }

\* The two counters are right, however starts fail and callers time out, give up
\* or come back: the leases are those of the callers that use the model (and of
\* those that ended without a release), the reservations those of the callers
\* that wait for the start, or that are about to cancel.
CountsRight ==
  /\ rt.leases = Cardinality(Holders \cup leaked)
  /\ rt.pendings = IF rt.startFailed THEN 0 ELSE Cardinality(Reserved)

\* Whoever has a lease has one of the present generation and for its own model,
\* and while it has it no stop script runs: neither one that is waited for nor
\* one whose handler was dropped.  The exception is a script that did not end
\* within its 30 seconds: the wait for it is given up, the stop counts as
\* failed, leases are handed out again, and the script runs on beside them.
StopsNobody ==
  \A c \in Holders :
    /\ gen[c] = rt.generation /\ rt.key = Key[c] /\ rt.ready
    /\ \A d \in Calls : script[d] # "running"

\* A start or a stop that everybody else waits for is some call's business; the
\* exceptions are those whose handler was dropped.
BusyHasCall ==
  /\ rt.starting => \E c \in Calls : pc[c] \in Starting \/ c \in stuck
  /\ rt.stopping => \E c \in Calls : pc[c] \in Stopping \/ c \in stuck

\* A server started for tasks is not left behind: once nobody uses it or waits for
\* it, it is being stopped, unless an attempt to do so has just failed.
OwnedIsUnloaded ==
  /\ rt.ready /\ rt.autoStarted /\ ~ rt.keepLoaded
  /\ rt.leases = 0 /\ rt.pendings = 0
  => rt.stopping \/ unloadFailed

\* A stop begins by itself only for a server that the last start did not find
\* running already and that no user's load has had a lease of since; any other
\* one is stopped by a user's unload only, whoever starts, shares, releases,
\* gives up or fails to stop it in between.
KeptLoadedStays ==
  [][ ~ rt.stopping /\ rt'.stopping =>
        \/ ~ found /\ loads = {}
        \/ \E c \in Calls : pc[c] = "stop" /\ pc'[c] = "unloading" ]_vars

\* The runtime is used as a shared resource is: as far as the coordinator's
\* flags tell, that is, which take a stop that was given up for a failed one.
Phase == CASE rt.starting -> "starting"
           [] ~ rt.starting /\ rt.stopping -> "stopping"
           [] ~ rt.starting /\ ~ rt.stopping /\ rt.ready -> "up"
           [] OTHER -> "down"
Resource == INSTANCE SharedResource WITH Users <- Calls, phase <- Phase,
                                         users <- Holders \cup leaked
ResourceSpec == Resource!Spec

\* Nobody waits for ever for a start, a stop or a notification, even if no wait
\* times out, as long as no handler is dropped in the middle of a start or stop.
CallsEnd ==
  []<>(stuck # {} \/ \A c \in Calls : pc[c] \in { "idle", "done" })

\* What README.md says: the model started for tasks is unloaded after the last.
LastTaskUnloads ==
  /\ rt.ready /\ rt.autoStarted /\ ~ rt.keepLoaded
  /\ \A c \in Calls : pc[c] \in { "idle", "done" }
  => unloadFailed
=============================================================================
