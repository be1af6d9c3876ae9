-------------------------- MODULE VllmRuntimeProofs --------------------------
(***************************************************************************)
(* Proofs about VllmRuntime, for any number of calls: its invariant VInv,  *)
(* what follows from it, and that the runtime is the shared resource of    *)
(* module SharedResource.                                                  *)
(*                                                                         *)
(* StopsNobody and CountsRight need each other: a lease protects its       *)
(* holder only as long as it is counted, and it is counted right only as   *)
(* long as no start or stop clears the counters under a holder.  What      *)
(* joins them is Modes (a start or a stop runs with no lease), Owners      *)
(* (it is run by one call, of the present generation) and Holding (so is   *)
(* every lease).  Two more invariants rest on it: Scripts, which calls a   *)
(* running stop script can belong to, and Origins, that the coordinator's  *)
(* flags know where the server comes from and who wants it to stay.        *)
(***************************************************************************)
EXTENDS VllmRuntime, FiniteSetTheorems, TLAPS

\* What VllmRuntimeState may be, with counters of any size.
Runtime == [ key : Keys \cup { NoKey }, generation : Nat, starting : BOOLEAN,
             ready : BOOLEAN, stopping : BOOLEAN, autoStarted : BOOLEAN,
             keepLoaded : BOOLEAN, leases : Nat, pendings : Nat, startFailed : BOOLEAN ]

\* The type without the bounds of the counters: those follow from CountsRight.
Typed ==
  /\ rt \in Runtime
  /\ pc \in [ Calls -> PCs ]
  /\ gen \in [ Calls -> Nat ]
  /\ woken \subseteq { c \in Calls : pc[c] = "waiting" }
  /\ leaked \subseteq Calls /\ stuck \subseteq Calls
  /\ unloadFailed \in BOOLEAN

\* What the coordinator's flags and counters may be at the same time.
Modes ==
  /\ rt.starting => /\ ~ rt.stopping /\ ~ rt.ready /\ ~ rt.startFailed
                    /\ rt.leases = 0 /\ rt.generation > 0
  /\ rt.stopping => rt.leases = 0 /\ rt.pendings = 0 /\ ~ rt.startFailed
  /\ rt.startFailed => ~ rt.ready /\ rt.leases = 0 /\ rt.pendings = 0
  /\ rt.leases > 0 => rt.ready

\* A start and a stop are one call's business, and of this generation.
Owners ==
  /\ \A c \in Calls : gen[c] <= rt.generation
  /\ \A c \in Calls : pc[c] \in { "idle", "stop", "done" } => gen[c] = 0
  /\ \A c \in Calls : pc[c] \in Starting =>
       rt.starting /\ gen[c] = rt.generation /\ rt.key = Key[c]
  /\ \A c \in Calls : pc[c] \in Stopping => rt.stopping /\ gen[c] = rt.generation
  /\ \A c, d \in Calls :
       pc[c] \in Starting \cup Stopping /\ pc[d] \in Starting \cup Stopping => c = d

\* Whoever has a lease has one of this generation and for its model.
Holding ==
  /\ \A c \in Holders : gen[c] = rt.generation /\ rt.key = Key[c]
  /\ \A c \in leaked : pc[c] = "done"

\* The inductive invariant.
VInv == Typed /\ Modes /\ Owners /\ BusyHasCall /\ Holding /\ CountsRight /\ OwnedIsUnloaded

-----------------------------------------------------------------------------
(* The records the coordinator's state may become.                          *)

\* A lease is counted or given back; the last one may begin a stop.
LEMMA RuntimeLeases ==
  ASSUME NEW r \in Runtime, NEW n \in Nat, NEW b \in BOOLEAN
  PROVE  /\ [ r EXCEPT !.leases = n, !.stopping = b ] \in Runtime
         /\ [ r EXCEPT !.leases = n, !.keepLoaded = b ] \in Runtime
  BY DEF Runtime

\* A reservation is cancelled, or becomes a lease.
LEMMA RuntimePendings ==
  ASSUME NEW r \in Runtime, NEW n \in Nat, NEW l \in Nat, NEW b \in BOOLEAN
  PROVE  /\ [ r EXCEPT !.pendings = n, !.stopping = b ] \in Runtime
         /\ [ r EXCEPT !.pendings = n, !.leases = l, !.keepLoaded = b ] \in Runtime
  BY DEF Runtime

\* A start succeeds.
LEMMA RuntimeStarts ==
  ASSUME NEW r \in Runtime, NEW b \in BOOLEAN
  PROVE  [ r EXCEPT !.starting = FALSE, !.ready = TRUE, !.autoStarted = b,
                    !.leases = 1, !.startFailed = FALSE ] \in Runtime
  BY DEF Runtime

\* A start fails.
LEMMA RuntimeFails ==
  ASSUME NEW r \in Runtime, NEW b \in BOOLEAN, NEW k \in Keys \cup { NoKey }
  PROVE  [ r EXCEPT !.starting = FALSE, !.ready = FALSE, !.leases = 0, !.pendings = 0,
                    !.keepLoaded = FALSE, !.startFailed = TRUE, !.key = k,
                    !.autoStarted = b ] \in Runtime
  BY DEF Runtime

\* A user begins a stop.
LEMMA RuntimeStops ==
  ASSUME NEW r \in Runtime, NEW n \in Nat
  PROVE  [ r EXCEPT !.generation = n, !.stopping = TRUE, !.startFailed = FALSE ] \in Runtime
  BY DEF Runtime

-----------------------------------------------------------------------------
\* Every step keeps the types.
LEMMA TypedInductive == ASSUME Typed, [Next]_vars PROVE Typed'
<1> USE DEF Goto, Has, Finish, FailWith, NotifyWaiters, history
<1>a. /\ rt \in Runtime /\ pc \in [ Calls -> PCs ] /\ gen \in [ Calls -> Nat ]
      /\ woken \subseteq { c \in Calls : pc[c] = "waiting" } /\ unloadFailed \in BOOLEAN
      /\ leaked \subseteq Calls /\ stuck \subseteq Calls
  BY DEF Typed
<1>b. /\ rt.generation \in Nat /\ rt.leases \in Nat /\ rt.pendings \in Nat BY <1>a DEF Runtime
<1>c. Key \in [ Calls -> Keys ] /\ \A c \in Calls : Keep(c) \in BOOLEAN
  BY VllmRuntimeAssumption DEF Keep
<1> USE DEF PCs, Starting, Probing, Launching, Outcomes, Stopping
<1>1. CASE UNCHANGED vars \/ \E c \in Calls : StrayScriptEnds(c)
  BY <1>1, <1>a DEF vars, StrayScriptEnds, Typed
<1>2. ASSUME NEW c \in Calls, Arrive(c) PROVE Typed'
  BY <1>2, <1>a DEF Arrive, Typed
<1>3. ASSUME NEW c \in Calls, SeeStartFailure(c) PROVE Typed'
  BY <1>3, <1>a DEF SeeStartFailure, Typed
<1>4. ASSUME NEW c \in Calls, ActivatePending(c) PROVE Typed'
  <2>1. rt.pendings > 0 BY <1>4 DEF ActivatePending, Activatable
  <2> DEFINE b == rt.keepLoaded \/ Keep(c)
  <2>3. rt' = [ rt EXCEPT !.pendings = rt.pendings - 1, !.leases = rt.leases + 1, !.keepLoaded = b ]
    BY <1>4, <1>a DEF ActivatePending, Runtime
  <2>4. b \in BOOLEAN /\ rt.pendings - 1 \in Nat /\ rt.leases + 1 \in Nat BY <1>b, <2>1
  <2> HIDE DEF b
  <2>2. rt' \in Runtime BY <1>a, <2>3, <2>4, RuntimePendings
  <2> QED BY <1>4, <1>a, <2>2 DEF ActivatePending, Typed
<1>5. ASSUME NEW c \in Calls, AwaitStop(c) PROVE Typed'
  BY <1>5, <1>a, <1>b DEF AwaitStop, GoesOn, Reservation, Typed
<1>6. ASSUME NEW c \in Calls, AwaitStart(c) PROVE Typed'
  <2>1. rt' \in Runtime BY <1>6, <1>a, <1>b DEF AwaitStart, Runtime
  <2> QED BY <1>6, <1>a, <1>b, <2>1 DEF AwaitStart, GoesOn, Typed
<1>7. ASSUME NEW c \in Calls, Refuse(c) PROVE Typed'
  BY <1>7, <1>a, <1>b DEF Refuse, GoesOn, Reservation, Typed
<1>8. ASSUME NEW c \in Calls, ShareLease(c) PROVE Typed'
  <2> DEFINE b == rt.keepLoaded \/ Keep(c)
  <2>2. rt' = [ rt EXCEPT !.leases = rt.leases + 1, !.keepLoaded = b ]
    BY <1>8, <1>a DEF ShareLease, Runtime
  <2>3. b \in BOOLEAN /\ rt.leases + 1 \in Nat BY <1>b
  <2> HIDE DEF b
  <2>1. rt' \in Runtime BY <1>a, <2>2, <2>3, RuntimeLeases
  <2> QED BY <1>8, <1>a, <1>b, <2>1 DEF ShareLease, GoesOn, Typed
<1>9. ASSUME NEW c \in Calls, BeginGeneration(c) PROVE Typed'
  <2>1. rt' \in Runtime BY <1>9, <1>a, <1>b, <1>c DEF BeginGeneration, Runtime
  <2> QED BY <1>9, <1>a, <1>b, <2>1 DEF BeginGeneration, GoesOn, Typed
<1>10. ASSUME NEW c \in Calls, Wake(c) PROVE Typed'
  BY <1>10, <1>a DEF Wake, Typed
<1>11. ASSUME NEW c \in Calls, WaitTimesOut(c) PROVE Typed'
  BY <1>11, <1>a DEF WaitTimesOut, Typed
<1>12. ASSUME NEW c \in Calls, CancelPending(c) PROVE Typed'
  <2>1. rt' \in Runtime
    <3>1. CASE gen[c] = rt.generation /\ rt.pendings > 0
      <4>1. PICK u \in BOOLEAN : rt' = [ rt EXCEPT !.pendings = @ - 1, !.stopping = @ \/ u ]
        BY <1>12, <3>1 DEF CancelPending
      <4> DEFINE b == rt.stopping \/ u
      <4>2. rt' = [ rt EXCEPT !.pendings = rt.pendings - 1, !.stopping = b ]
        BY <1>a, <4>1 DEF Runtime
      <4>3. b \in BOOLEAN /\ rt.pendings - 1 \in Nat BY <1>b, <3>1
      <4> HIDE DEF b
      <4> QED BY <1>a, <4>2, <4>3, RuntimePendings
    <3>2. CASE ~ (gen[c] = rt.generation /\ rt.pendings > 0)
      BY <1>12, <1>a, <3>2 DEF CancelPending
    <3> QED BY <3>1, <3>2
  <2>2. \E l \in { "unloading", "done" } : pc' = [ pc EXCEPT ![c] = l ] BY <1>12 DEF CancelPending
  <2>3. \E n \in Nat : gen' = [ gen EXCEPT ![c] = n ] BY <1>12, <1>a DEF CancelPending
  <2> QED BY <1>12, <1>a, <2>1, <2>2, <2>3 DEF CancelPending, Typed
<1>13. ASSUME NEW c \in Calls, Probe(c) \/ Launch(c) \/ PollReady(c) \/ StartTimesOut(c)
       PROVE  Typed'
  BY <1>13, <1>a DEF Probe, Launch, PollReady, StartTimesOut, Typed
<1>14. ASSUME NEW c \in Calls, StartSucceeds(c) PROVE Typed'
  <2> DEFINE b == pc[c] = "launched"
  <2>4. \/ rt' = rt
        \/ rt' = [ rt EXCEPT !.starting = FALSE, !.ready = TRUE, !.autoStarted = b,
                             !.leases = 1, !.startFailed = FALSE ]
    BY <1>14 DEF StartSucceeds
  <2>5. b \in BOOLEAN OBVIOUS
  <2> HIDE DEF b
  <2>1. rt' \in Runtime BY <1>a, <2>4, <2>5, RuntimeStarts
  <2>2. gen' \in [ Calls -> Nat ] BY <1>14, <1>a DEF StartSucceeds
  <2>3. \E l \in { "entry", "using" } : pc' = [ pc EXCEPT ![c] = l ] BY <1>14 DEF StartSucceeds
  <2> QED BY <1>14, <1>a, <2>1, <2>2, <2>3 DEF StartSucceeds, Typed
<1>15. ASSUME NEW c \in Calls, StartFails(c) PROVE Typed'
  <2> DEFINE b == pc[c] = "notcleaned"
             k == IF b THEN rt.key ELSE NoKey
  <2>4. \/ rt' = rt
        \/ rt' = [ rt EXCEPT !.starting = FALSE, !.ready = FALSE, !.leases = 0, !.pendings = 0,
                             !.keepLoaded = FALSE, !.startFailed = TRUE, !.key = k,
                             !.autoStarted = b ]
    BY <1>15, <1>a DEF StartFails, Runtime
  <2>5. b \in BOOLEAN /\ k \in Keys \cup { NoKey } BY <1>a DEF Runtime
  <2> HIDE DEF b, k
  <2>6. [ rt EXCEPT !.starting = FALSE, !.ready = FALSE, !.leases = 0, !.pendings = 0,
                    !.keepLoaded = FALSE, !.startFailed = TRUE, !.key = k,
                    !.autoStarted = b ] \in Runtime
    BY <1>a, <2>5, RuntimeFails
  <2>1. rt' \in Runtime BY <1>a, <2>4, <2>6
  <2>2. gen' \in [ Calls -> Nat ] BY <1>15, <1>a DEF StartFails
  <2>3. \E l \in { "entry", "done" } : pc' = [ pc EXCEPT ![c] = l ] BY <1>15 DEF StartFails
  <2> QED BY <1>15, <1>a, <2>1, <2>2, <2>3 DEF StartFails, Typed
<1>16. ASSUME NEW c \in Calls, AbandonLease(c) PROVE Typed'
  BY <1>16, <1>a DEF AbandonLease, Typed
<1>17. ASSUME NEW c \in Calls, ReleaseLease(c) PROVE Typed'
  <2>1. rt' \in Runtime
    <3>1. CASE gen[c] = rt.generation /\ rt.leases > 0
      <4>1. PICK u \in BOOLEAN : rt' = [ rt EXCEPT !.leases = @ - 1, !.stopping = @ \/ u ]
        BY <1>17, <3>1 DEF ReleaseLease
      <4> DEFINE b == rt.stopping \/ u
      <4>2. rt' = [ rt EXCEPT !.leases = rt.leases - 1, !.stopping = b ]
        BY <1>a, <4>1 DEF Runtime
      <4>3. b \in BOOLEAN /\ rt.leases - 1 \in Nat BY <1>b, <3>1
      <4> HIDE DEF b
      <4> QED BY <1>a, <4>2, <4>3, RuntimeLeases
    <3>2. CASE ~ (gen[c] = rt.generation /\ rt.leases > 0)
      BY <1>17, <1>a, <3>2 DEF ReleaseLease
    <3> QED BY <3>1, <3>2
  <2>2. \/ pc' = [ pc EXCEPT ![c] = "unloading" ] /\ UNCHANGED << gen, woken >>
        \/ Finish(c) /\ NotifyWaiters
    BY <1>17 DEF ReleaseLease
  <2> QED BY <1>17, <1>a, <2>1, <2>2 DEF ReleaseLease, Typed
<1>18. ASSUME NEW c \in Calls, BeginManualStop(c) PROVE Typed'
  <2>2. rt' = [ rt EXCEPT !.generation = rt.generation + 1, !.stopping = TRUE, !.startFailed = FALSE ]
    BY <1>18, <1>a DEF BeginManualStop, Runtime
  <2>3. rt.generation + 1 \in Nat BY <1>b
  <2>1. rt' \in Runtime BY <1>a, <2>2, <2>3, RuntimeStops
  <2> QED BY <1>18, <1>a, <1>b, <2>1 DEF BeginManualStop, Typed
<1>19. ASSUME NEW c \in Calls, RefuseManualStop(c) PROVE Typed'
  BY <1>19, <1>a DEF RefuseManualStop, Typed
<1>20. ASSUME NEW c \in Calls, ScriptEnds(c) \/ ScriptTimesOut(c) PROVE Typed'
  <2>1. \E l \in Starting \cup Stopping : pc' = [ pc EXCEPT ![c] = l ]
    BY <1>20, <1>a DEF ScriptEnds, ScriptTimesOut
  <2>2. pc[c] # "waiting" BY <1>20 DEF ScriptEnds, ScriptTimesOut, AtScript
  <2> QED BY <1>20, <1>a, <2>1, <2>2 DEF ScriptEnds, ScriptTimesOut, Typed
<1>21. ASSUME NEW c \in Calls, FinishUnload(c) PROVE Typed'
  <2>1. rt' \in Runtime BY <1>21, <1>a, <1>b DEF FinishUnload, Runtime
  <2>2. unloadFailed' \in BOOLEAN BY <1>21 DEF FinishUnload
  <2> QED BY <1>21, <1>a, <2>1, <2>2 DEF FinishUnload, Typed
<1>22. ASSUME NEW c \in Calls, Disconnect(c) PROVE Typed'
  BY <1>22, <1>a DEF Disconnect, Typed
<1> QED
  BY <1>1, <1>2, <1>3, <1>4, <1>5, <1>6, <1>7, <1>8, <1>9, <1>10, <1>11, <1>12, <1>13, <1>14,
     <1>15, <1>16, <1>17, <1>18, <1>19, <1>20, <1>21, <1>22 DEF Next, Enters, Starts, Ends

-----------------------------------------------------------------------------
(* The two counters and the sets they count.                                *)

\* Whom the leases are counted for, and where a reservation is kept.
CallUsers == Holders \cup leaked
Claims == { "entry", "waiting", "cancelling" }

\* The sets counted are finite.
LEMMA CountedSetsFinite ==
  ASSUME leaked \subseteq Calls
  PROVE  /\ IsFiniteSet(CallUsers) /\ IsFiniteSet(Reserved)
         /\ Cardinality(CallUsers) \in Nat /\ Cardinality(Reserved) \in Nat
<1>1. CallUsers \in SUBSET Calls /\ Reserved \in SUBSET Calls BY DEF CallUsers, Holders, Reserved
<1>2. IsFiniteSet(CallUsers) /\ IsFiniteSet(Reserved) BY <1>1, VllmRuntimeAssumption, FS_Subset
<1> QED BY <1>2, FS_CardinalityType

\* A call comes to another label, and has another generation.
Moves(c, l, n) ==
  /\ pc'[c] = l /\ \A d \in Calls \ { c } : pc'[d] = pc[d]
  /\ gen'[c] = n /\ \A d \in Calls \ { c } : gen'[d] = gen[d]

\* A step that updates pc and gen of one call, or only its pc, moves that call.
LEMMA MovesAre ==
  ASSUME Typed, NEW c \in Calls, NEW l, NEW n,
         pc' = [ pc EXCEPT ![c] = l ], gen' = [ gen EXCEPT ![c] = n ] \/ (gen' = gen /\ n = gen[c])
  PROVE  Moves(c, l, n)
  BY DEF Moves, Typed

\* Who holds a lease after a call has moved.
LEMMA HoldersMove ==
  ASSUME NEW c \in Calls, NEW l, NEW n, Moves(c, l, n)
  PROVE  Holders' = IF l = "using" THEN Holders \cup { c } ELSE Holders \ { c }
  BY DEF Moves, Holders

\* Who has a reservation after a call has moved within a generation.
LEMMA ReservedMove ==
  ASSUME NEW c \in Calls, NEW l, NEW n, Moves(c, l, n), rt'.generation = rt.generation
  PROVE  Reserved' = IF l \in Claims /\ n = rt.generation /\ n # 0
                     THEN Reserved \cup { c } ELSE Reserved \ { c }
  BY DEF Moves, Reserved, Claims

\* A step of one call that leaves the coordinator's state alone.
Quiet(c, l, n) ==
  /\ Moves(c, l, n) /\ rt' = rt /\ UNCHANGED unloadFailed
  /\ l # "using"
  /\ pc[c] = "using" => l = "done" /\ leaked' = leaked \cup { c }
  /\ pc[c] # "using" => UNCHANGED leaked
  /\ c \in leaked => l = "done"
  /\ l \in Claims /\ n = rt.generation /\ n # 0 => c \in Reserved
  /\ c \in Reserved => rt.startFailed \/ (l \in Claims /\ n = rt.generation)
  /\ n <= rt.generation
  /\ l \in { "idle", "stop", "done" } => n = 0
  /\ l \in Starting => pc[c] \in Starting /\ n = gen[c]
  /\ l \in Stopping => pc[c] \in Stopping /\ n = gen[c]
  /\ pc[c] \in Starting => l \in Starting \/ c \in stuck'
  /\ pc[c] \in Stopping => l \in Stopping \/ c \in stuck'
  /\ stuck \subseteq stuck'

\* A step that is quiet keeps the invariant.
LEMMA QuietKeeps ==
  ASSUME VInv, Typed', NEW c \in Calls, NEW l, NEW n, Quiet(c, l, n)
  PROVE  VInv'
<1> USE DEF Quiet
<1>a. Typed /\ Modes /\ Owners /\ BusyHasCall /\ Holding /\ CountsRight /\ OwnedIsUnloaded
  BY DEF VInv
<1>b. Moves(c, l, n) OBVIOUS
<1>1. Modes' BY <1>a DEF Modes
<1>2. Owners' BY <1>a, <1>b DEF Owners, Moves
<1>3. BusyHasCall' BY <1>a, <1>b DEF BusyHasCall, Moves
<1>4. Holders' = Holders \ { c } BY <1>b, HoldersMove
<1>5. Holding'
  <2>1. \A d \in Holders' : gen'[d] = rt'.generation /\ rt'.key = Key[d]
    BY <1>a, <1>b, <1>4 DEF Holding, Moves, Holders
  <2>2. \A d \in leaked' : pc'[d] = "done" BY <1>a, <1>b DEF Holding, Moves, Typed
  <2> QED BY <2>1, <2>2 DEF Holding
<1>6. CountsRight'
  <2>1. Holders' \cup leaked' = Holders \cup leaked BY <1>4, <1>a DEF Holders, Typed
  <2>2. rt.startFailed \/ Reserved' = Reserved
    <3>1. Reserved' = IF l \in Claims /\ n = rt.generation /\ n # 0
                      THEN Reserved \cup { c } ELSE Reserved \ { c }
      BY <1>b, ReservedMove
    <3>2. c \in Reserved => rt.generation # 0 BY DEF Reserved
    <3> QED BY <3>1, <3>2
  <2> QED BY <1>a, <2>1, <2>2 DEF CountsRight
<1>7. OwnedIsUnloaded' BY <1>a DEF OwnedIsUnloaded
<1> QED BY <1>1, <1>2, <1>3, <1>5, <1>6, <1>7 DEF VInv

\* The steps that leave the coordinator's state alone keep the invariant.
LEMMA QuietActions ==
  ASSUME VInv, Typed', NEW c \in Calls, rt' = rt,
         \/ Arrive(c) \/ SeeStartFailure(c) \/ AwaitStop(c) \/ AwaitStart(c) \/ Refuse(c) \/ Wake(c)
         \/ WaitTimesOut(c) \/ CancelPending(c) \/ Probe(c) \/ Launch(c) \/ PollReady(c)
         \/ StartTimesOut(c) \/ AbandonLease(c) \/ RefuseManualStop(c) \/ ScriptEnds(c)
         \/ ScriptTimesOut(c) \/ Disconnect(c)
  PROVE  VInv'
<1> USE DEF Goto, Has, Finish, FailWith, history, Claims, Starting, Probing, Launching, Outcomes,
            Stopping
<1>a. Typed /\ Modes /\ Owners /\ Holding /\ CountsRight BY DEF VInv
<1>b. /\ c \in Reserved <=> pc[c] \in Claims /\ gen[c] = rt.generation /\ gen[c] # 0
      /\ c \in leaked => pc[c] = "done"
      /\ pc[c] = "using" => gen[c] = rt.generation
      /\ gen[c] <= rt.generation
      /\ pc[c] \in { "idle", "stop", "done" } => gen[c] = 0
      /\ gen[c] \in Nat /\ rt.generation \in Nat /\ rt.generation >= 0
  BY <1>a DEF Reserved, Holding, Holders, Owners, Typed, Runtime
<1>1. CASE Arrive(c)
  <2>1. PICK l \in { "stop", "entry" } : pc' = [ pc EXCEPT ![c] = l ] BY <1>1 DEF Arrive
  <2>2. Moves(c, l, gen[c]) BY <1>1, <1>a, <2>1, MovesAre DEF Arrive
  <2>3. Quiet(c, l, gen[c]) BY <1>1, <1>b, <2>1, <2>2 DEF Arrive, Quiet
  <2> QED BY <2>3, QuietKeeps
<1>2. CASE SeeStartFailure(c)
  <2>1. Moves(c, "done", 0) BY <1>2, <1>a, MovesAre DEF SeeStartFailure
  <2>2. Quiet(c, "done", 0) BY <1>2, <1>b, <2>1 DEF SeeStartFailure, Quiet
  <2> QED BY <2>2, QuietKeeps
<1>3. CASE AwaitStop(c)
  <2>1. Moves(c, "waiting", Reservation(c)) BY <1>3, <1>a, MovesAre DEF AwaitStop
  <2>2. Quiet(c, "waiting", Reservation(c))
    BY <1>3, <1>b, <2>1 DEF AwaitStop, GoesOn, Reservation, Quiet
  <2> QED BY <2>2, QuietKeeps
<1>4. CASE AwaitStart(c)
  <2>1. Moves(c, "waiting", rt.generation) BY <1>4, <1>a, MovesAre DEF AwaitStart
  <2>2. rt.generation > 0 BY <1>4, <1>a DEF AwaitStart, Modes
  <2>3. gen[c] = rt.generation
    <3>1. CASE Reservation(c) = 0
      <4>1. rt' = [ rt EXCEPT !.pendings = @ + 1 ] BY <1>4, <3>1 DEF AwaitStart
      <4>2. rt'.pendings = rt.pendings + 1 /\ rt.pendings \in Nat BY <1>a, <4>1 DEF Typed, Runtime
      <4> QED BY <4>2
    <3>2. CASE Reservation(c) # 0 BY <3>2 DEF Reservation
    <3> QED BY <3>1, <3>2
  <2>4. Quiet(c, "waiting", rt.generation)
    BY <1>4, <1>b, <2>1, <2>2, <2>3 DEF AwaitStart, GoesOn, Quiet
  <2> QED BY <2>4, QuietKeeps
<1>5. CASE Refuse(c)
  <2> DEFINE l == IF Reservation(c) # 0 THEN "cancelling" ELSE "done"
  <2>1. Moves(c, l, Reservation(c)) BY <1>5, <1>a, MovesAre DEF Refuse
  <2>2. Quiet(c, l, Reservation(c)) BY <1>5, <1>b, <2>1 DEF Refuse, GoesOn, Reservation, Quiet
  <2> HIDE DEF l
  <2> QED BY <2>2, QuietKeeps
<1>6. CASE Wake(c)
  <2>1. Moves(c, "entry", gen[c]) BY <1>6, <1>a, MovesAre DEF Wake
  <2>2. Quiet(c, "entry", gen[c]) BY <1>6, <1>b, <2>1 DEF Wake, Quiet
  <2> QED BY <2>2, QuietKeeps
<1>7. CASE WaitTimesOut(c)
  <2> DEFINE l == IF gen[c] # 0 THEN "cancelling" ELSE "done"
  <2>1. Moves(c, l, gen[c]) BY <1>7, <1>a, MovesAre DEF WaitTimesOut
  <2>2. Quiet(c, l, gen[c]) BY <1>7, <1>b, <2>1 DEF WaitTimesOut, Quiet
  <2> HIDE DEF l
  <2> QED BY <2>2, QuietKeeps
<1>8. CASE CancelPending(c)
  <2>1. ~ (gen[c] = rt.generation /\ rt.pendings > 0)
    <3>1. SUFFICES ASSUME gen[c] = rt.generation, rt.pendings > 0 PROVE FALSE OBVIOUS
    <3>2. PICK u \in BOOLEAN : rt' = [ rt EXCEPT !.pendings = @ - 1, !.stopping = @ \/ u ]
      BY <1>8, <3>1 DEF CancelPending
    <3>3. rt'.pendings = rt.pendings - 1 /\ rt.pendings \in Nat BY <1>a, <3>2 DEF Typed, Runtime
    <3> QED BY <3>3
  <2>2. Moves(c, "done", 0) BY <1>8, <1>a, <2>1, MovesAre DEF CancelPending
  <2>3. c \in Reserved => rt.startFailed
    <3>1. SUFFICES ASSUME c \in Reserved, ~ rt.startFailed PROVE FALSE OBVIOUS
    <3>2. rt.pendings = Cardinality(Reserved) BY <1>a, <3>1 DEF CountsRight
    <3>3. leaked \subseteq Calls BY <1>a DEF Typed
    <3>4. Cardinality(Reserved) = 0 => Reserved = {} BY <3>3, CountedSetsFinite, FS_EmptySet
    <3>5. Cardinality(Reserved) \in Nat BY <3>3, CountedSetsFinite
    <3> QED BY <1>b, <2>1, <3>1, <3>2, <3>4, <3>5
  <2>4. Quiet(c, "done", 0) BY <1>8, <1>b, <2>2, <2>3 DEF CancelPending, Quiet
  <2> QED BY <2>4, QuietKeeps
<1>9. CASE Probe(c) \/ Launch(c) \/ PollReady(c) \/ StartTimesOut(c)
  <2>1. PICK l \in Starting : pc' = [ pc EXCEPT ![c] = l ]
    BY <1>9 DEF Probe, Launch, PollReady, StartTimesOut
  <2>2. gen' = gen /\ pc[c] \in Starting BY <1>9 DEF Probe, Launch, PollReady, StartTimesOut
  <2>3. Moves(c, l, gen[c]) BY <1>a, <2>1, <2>2, MovesAre
  <2>4. Quiet(c, l, gen[c])
    BY <1>9, <1>b, <2>1, <2>2, <2>3 DEF Probe, Launch, PollReady, StartTimesOut, Quiet
  <2> QED BY <2>4, QuietKeeps
<1>10. CASE AbandonLease(c)
  <2>1. Moves(c, "done", 0) BY <1>10, <1>a, MovesAre DEF AbandonLease
  <2>2. Quiet(c, "done", 0) BY <1>10, <1>b, <2>1 DEF AbandonLease, Quiet
  <2> QED BY <2>2, QuietKeeps
<1>11. CASE RefuseManualStop(c)
  <2>1. Moves(c, "done", 0) BY <1>11, <1>a, MovesAre DEF RefuseManualStop
  <2>2. Quiet(c, "done", 0) BY <1>11, <1>b, <2>1 DEF RefuseManualStop, Quiet
  <2> QED BY <2>2, QuietKeeps
<1>12. CASE ScriptEnds(c) \/ ScriptTimesOut(c)
  <2>1. PICK l \in Starting \cup Stopping :
          /\ pc' = [ pc EXCEPT ![c] = l ]
          /\ pc[c] \in Starting <=> l \in Starting
          /\ pc[c] \in Stopping <=> l \in Stopping
    BY <1>12, <1>a DEF ScriptEnds, ScriptTimesOut, AtScript, Typed
  <2>4. pc[c] \in AtScript BY <1>12 DEF ScriptEnds, ScriptTimesOut
  <2>2. Moves(c, l, gen[c]) BY <1>12, <1>a, <2>1, MovesAre DEF ScriptEnds, ScriptTimesOut
  <2>3. Quiet(c, l, gen[c])
    BY <1>12, <1>b, <2>1, <2>2, <2>4 DEF ScriptEnds, ScriptTimesOut, AtScript, Quiet
  <2> QED BY <2>3, QuietKeeps
<1>13. CASE Disconnect(c)
  <2>1. CASE pc[c] \in { "entry", "waiting" }
    <3> DEFINE l == IF gen[c] # 0 THEN "cancelling" ELSE "done"
    <3>1. Moves(c, l, gen[c]) BY <1>13, <1>a, <2>1, MovesAre DEF Disconnect
    <3>2. Quiet(c, l, gen[c]) BY <1>13, <1>b, <2>1, <3>1 DEF Disconnect, Quiet
    <3> HIDE DEF l
    <3> QED BY <3>2, QuietKeeps
  <2>2. CASE pc[c] \notin { "entry", "waiting" }
    <3>1. Moves(c, "done", 0) BY <1>13, <1>a, <2>2, MovesAre DEF Disconnect
    <3>2. Quiet(c, "done", 0) BY <1>13, <1>b, <2>2, <3>1 DEF Disconnect, Quiet
    <3> QED BY <3>2, QuietKeeps
  <2> QED BY <2>1, <2>2
<1> QED
  BY <1>1, <1>2, <1>3, <1>4, <1>5, <1>6, <1>7, <1>8, <1>9, <1>10, <1>11, <1>12, <1>13

-----------------------------------------------------------------------------
(* The steps that change the coordinator's state.                           *)

\* The counters are finite numbers, and 0 only when there is nothing to count.
LEMMA CountsAreRight ==
  ASSUME VInv
  PROVE  /\ IsFiniteSet(CallUsers) /\ IsFiniteSet(Reserved)
         /\ rt.leases = Cardinality(CallUsers) /\ rt.leases \in Nat
         /\ ~ rt.startFailed => rt.pendings = Cardinality(Reserved)
         /\ rt.pendings \in Nat
         /\ rt.leases = 0 => Holders = {} /\ leaked = {}
<1>1. IsFiniteSet(CallUsers) /\ IsFiniteSet(Reserved) BY CountedSetsFinite DEF VInv, Typed
<1>2. rt.leases = Cardinality(CallUsers) /\ (~ rt.startFailed => rt.pendings = Cardinality(Reserved))
  BY DEF VInv, CountsRight, CallUsers
<1>3. rt.leases \in Nat /\ rt.pendings \in Nat BY DEF VInv, Typed, Runtime
<1>4. rt.leases = 0 => CallUsers = {} BY <1>1, <1>2, FS_EmptySet
<1> QED BY <1>1, <1>2, <1>3, <1>4 DEF CallUsers

\* A call that moves within a generation keeps Holding, if it gets no lease or one
\* for its own model.
LEMMA HoldingMoves ==
  ASSUME Typed, Holding, NEW c \in Calls, NEW l, NEW n, Moves(c, l, n), UNCHANGED leaked,
         rt'.generation = rt.generation, rt'.key = rt.key, pc[c] # "done",
         l = "using" => n = rt.generation /\ rt.key = Key[c]
  PROVE  Holding'
<1>1. \A d \in Calls : pc'[d] = "using" => gen'[d] = rt'.generation /\ rt'.key = Key[d]
  BY DEF Holding, Holders, Moves
<1>2. \A d \in leaked : pc'[d] = "done" BY DEF Holding, Moves, Typed
<1> QED BY <1>1, <1>2 DEF Holding, Holders

\* A reservation becomes a lease: one is counted for the other.
LEMMA ActivateKeeps ==
  ASSUME VInv, Typed', NEW c \in Calls, ActivatePending(c)
  PROVE  VInv'
<1>a. Typed /\ Modes /\ Owners /\ BusyHasCall /\ Holding /\ CountsRight /\ OwnedIsUnloaded
  BY DEF VInv
<1>b. /\ rt.pendings > 0 /\ rt.ready /\ ~ rt.startFailed /\ rt.key = Key[c]
      /\ gen[c] = rt.generation /\ gen[c] # 0 /\ pc[c] = "entry"
  BY DEF ActivatePending, Activatable, Decided
<1>c. /\ rt'.pendings = rt.pendings - 1 /\ rt'.leases = rt.leases + 1
      /\ rt'.key = rt.key /\ rt'.generation = rt.generation /\ rt'.starting = rt.starting
      /\ rt'.ready = rt.ready /\ rt'.stopping = rt.stopping /\ rt'.autoStarted = rt.autoStarted
      /\ rt'.startFailed = rt.startFailed
  BY <1>a DEF ActivatePending, Typed, Runtime
<1>d. Moves(c, "using", gen[c]) BY <1>a, MovesAre DEF ActivatePending, Goto
<1>e. UNCHANGED << leaked, stuck, unloadFailed >> BY DEF ActivatePending, history
<1>f. rt.leases \in Nat /\ rt.pendings \in Nat BY CountsAreRight
<1>1. Modes' BY <1>a, <1>b, <1>c, <1>f DEF Modes
<1>2. Owners' BY <1>a, <1>b, <1>c, <1>d
              DEF Owners, Moves, Starting, Probing, Launching, Outcomes, Stopping
<1>3. BusyHasCall' BY <1>a, <1>b, <1>c, <1>d, <1>e
                   DEF BusyHasCall, Moves, Starting, Probing, Launching, Outcomes, Stopping
<1>4. Holders' = Holders \cup { c } BY <1>d, HoldersMove
<1>5. Holding' BY <1>a, <1>b, <1>c, <1>d, <1>e, HoldingMoves
<1>6. CountsRight'
  <2>1. Holders' \cup leaked' = CallUsers \cup { c } BY <1>4, <1>e DEF CallUsers
  <2>2. c \notin CallUsers BY <1>a, <1>b DEF CallUsers, Holding, Holders
  <2>3. Reserved' = Reserved \ { c } BY <1>c, <1>d, ReservedMove DEF Claims
  <2>4. c \in Reserved BY <1>b DEF Reserved
  <2>5. Cardinality(CallUsers \cup { c }) = rt.leases + 1 BY <2>2, CountsAreRight, FS_AddElement
  <2>6. Cardinality(Reserved \ { c }) = rt.pendings - 1
    BY <1>b, <2>4, CountsAreRight, FS_RemoveElement
  <2> QED BY <1>b, <1>c, <2>1, <2>3, <2>5, <2>6 DEF CountsRight
<1>7. OwnedIsUnloaded' BY <1>c, <1>f DEF OwnedIsUnloaded
<1> QED BY <1>1, <1>2, <1>3, <1>5, <1>6, <1>7 DEF VInv

\* AwaitStart, when it makes a reservation.
LEMMA ReserveKeeps ==
  ASSUME VInv, Typed', NEW c \in Calls, AwaitStart(c), Reservation(c) = 0
  PROVE  VInv'
<1>a. Typed /\ Modes /\ Owners /\ BusyHasCall /\ Holding /\ CountsRight /\ OwnedIsUnloaded
  BY DEF VInv
<1>b. rt.starting /\ pc[c] = "entry" BY DEF AwaitStart, GoesOn
<1>c. /\ rt'.pendings = rt.pendings + 1 /\ rt'.leases = rt.leases
      /\ rt'.key = rt.key /\ rt'.generation = rt.generation /\ rt'.starting = rt.starting
      /\ rt'.ready = rt.ready /\ rt'.stopping = rt.stopping /\ rt'.autoStarted = rt.autoStarted
      /\ rt'.startFailed = rt.startFailed
  BY <1>a DEF AwaitStart, Typed, Runtime
<1>d. Moves(c, "waiting", rt.generation) BY <1>a, MovesAre DEF AwaitStart, Goto, Has
<1>e. UNCHANGED << leaked, stuck, unloadFailed >> BY DEF AwaitStart, history
<1>f. /\ rt.leases \in Nat /\ rt.pendings \in Nat /\ rt.generation \in Nat
      /\ rt.generation > 0 /\ ~ rt.startFailed /\ ~ rt.stopping /\ ~ rt.ready
  BY <1>a, <1>b DEF Typed, Runtime, Modes
<1>1. Modes' BY <1>a, <1>c, <1>f DEF Modes
<1>2. Owners' BY <1>a, <1>b, <1>c, <1>d, <1>f
              DEF Owners, Moves, Starting, Probing, Launching, Outcomes, Stopping
<1>3. BusyHasCall' BY <1>a, <1>b, <1>c, <1>d, <1>e
                   DEF BusyHasCall, Moves, Starting, Probing, Launching, Outcomes, Stopping
<1>4. Holders' = Holders BY <1>b, <1>d, HoldersMove DEF Holders
<1>5. Holding' BY <1>a, <1>b, <1>c, <1>d, <1>e, HoldingMoves
<1>6. CountsRight'
  <2>1. Reserved' = Reserved \cup { c } BY <1>c, <1>d, <1>f, ReservedMove DEF Claims
  <2>2. c \notin Reserved BY DEF Reserved, Reservation
  <2>3. Cardinality(Reserved \cup { c }) = rt.pendings + 1
    <3>1. IsFiniteSet(Reserved) /\ rt.pendings = Cardinality(Reserved) BY <1>f, CountsAreRight
    <3> QED BY <2>2, <3>1, FS_AddElement
  <2> QED BY <1>a, <1>c, <1>e, <1>f, <1>4, <2>1, <2>3 DEF CountsRight
<1>7. OwnedIsUnloaded' BY <1>c, <1>f DEF OwnedIsUnloaded
<1> QED BY <1>1, <1>2, <1>3, <1>5, <1>6, <1>7 DEF VInv

\* A call without a reservation shares a server that is up.
LEMMA ShareKeeps ==
  ASSUME VInv, Typed', NEW c \in Calls, ShareLease(c)
  PROVE  VInv'
<1>a. Typed /\ Modes /\ Owners /\ BusyHasCall /\ Holding /\ CountsRight /\ OwnedIsUnloaded
  BY DEF VInv
<1>b. ~ rt.starting /\ ~ rt.stopping /\ rt.key = Key[c] /\ pc[c] = "entry"
  BY DEF ShareLease, Shared, GoesOn
<1>c. /\ rt'.pendings = rt.pendings /\ rt'.leases = rt.leases + 1
      /\ rt'.key = rt.key /\ rt'.generation = rt.generation /\ rt'.starting = rt.starting
      /\ rt'.ready = rt.ready /\ rt'.stopping = rt.stopping /\ rt'.autoStarted = rt.autoStarted
      /\ rt'.startFailed = rt.startFailed
  BY <1>a DEF ShareLease, Typed, Runtime
<1>d. Moves(c, "using", rt.generation) BY <1>a, MovesAre DEF ShareLease, Goto, Has
<1>e. UNCHANGED << leaked, stuck >> BY DEF ShareLease
<1>f. /\ rt.leases \in Nat /\ rt.pendings \in Nat /\ rt.generation \in Nat /\ rt.ready
      /\ ~ rt.startFailed
  <2>1. rt.leases \in Nat /\ rt.pendings \in Nat /\ rt.generation \in Nat
    BY <1>a DEF Typed, Runtime
  <2>2. rt.ready \/ rt.leases > 0 BY DEF ShareLease, Shared
  <2> QED BY <1>a, <2>1, <2>2 DEF Modes
\* Whoever has a reservation activates it.
<1>g. c \notin Reserved
  <2>1. SUFFICES ASSUME c \in Reserved PROVE FALSE OBVIOUS
  <2>2. Decided(c) BY <1>b, <2>1 DEF Decided, Reserved
  <2>3. ~ Activatable(c) BY DEF ShareLease, GoesOn
  <2>4. rt.pendings = 0 BY <1>b, <1>f, <2>2, <2>3 DEF Activatable
  <2>5. Reserved = {} BY <1>f, <2>4, CountsAreRight, FS_EmptySet
  <2> QED BY <2>1, <2>5
<1>1. Modes' BY <1>a, <1>b, <1>c, <1>f DEF Modes
<1>2. Owners' BY <1>a, <1>b, <1>c, <1>d, <1>f
              DEF Owners, Moves, Starting, Probing, Launching, Outcomes, Stopping
<1>3. BusyHasCall' BY <1>a, <1>b, <1>c, <1>d, <1>e
                   DEF BusyHasCall, Moves, Starting, Probing, Launching, Outcomes, Stopping
<1>4. Holders' = Holders \cup { c } BY <1>d, HoldersMove
<1>5. Holding' BY <1>a, <1>b, <1>c, <1>d, <1>e, HoldingMoves
<1>6. CountsRight'
  <2>1. Holders' \cup leaked' = CallUsers \cup { c } BY <1>4, <1>e DEF CallUsers
  <2>2. c \notin CallUsers BY <1>a, <1>b DEF CallUsers, Holding, Holders
  <2>3. Reserved' = Reserved \ { c } BY <1>c, <1>d, ReservedMove DEF Claims
  <2>4. Reserved' = Reserved BY <1>g, <2>3
  <2>5. Cardinality(CallUsers \cup { c }) = rt.leases + 1 BY <2>2, CountsAreRight, FS_AddElement
  <2> QED BY <1>a, <1>c, <1>f, <2>1, <2>4, <2>5 DEF CountsRight
<1>7. OwnedIsUnloaded' BY <1>c, <1>f DEF OwnedIsUnloaded
<1> QED BY <1>1, <1>2, <1>3, <1>5, <1>6, <1>7 DEF VInv

\* A start begins when no lease is counted, hence nobody is using the server.
LEMMA BeginKeeps ==
  ASSUME VInv, Typed', NEW c \in Calls, BeginGeneration(c)
  PROVE  VInv'
<1>a. Typed /\ Modes /\ Owners /\ BusyHasCall /\ Holding /\ CountsRight /\ OwnedIsUnloaded
  BY DEF VInv
<1>b. ~ rt.starting /\ ~ rt.stopping /\ pc[c] = "entry" BY DEF BeginGeneration, GoesOn
<1>c. /\ rt'.pendings = 0 /\ rt'.leases = 0 /\ rt'.key = Key[c]
      /\ rt'.generation = rt.generation + 1 /\ rt'.starting /\ ~ rt'.ready /\ ~ rt'.stopping
      /\ ~ rt'.startFailed
  BY DEF BeginGeneration
<1>d. Moves(c, "probe", rt.generation + 1) BY <1>a, MovesAre DEF BeginGeneration, Goto, Has
<1>e. UNCHANGED << leaked, stuck >> BY DEF BeginGeneration, history
<1>f. rt.leases \in Nat /\ rt.generation \in Nat /\ gen \in [ Calls -> Nat ]
  BY <1>a DEF Typed, Runtime
\* Nobody uses the model that goes.
<1>g. rt.leases = 0 BY <1>a, <1>b, <1>f DEF BeginGeneration, Refused, Shared, Modes
<1>h. Holders = {} /\ leaked = {} BY <1>g, CountsAreRight
<1>1. Modes' BY <1>c, <1>f DEF Modes
<1>2. Owners'
  <2>1. \A d \in Calls : pc[d] \notin Starting \cup Stopping BY <1>a, <1>b DEF Owners
  <2>2. \A d \in Calls : gen'[d] <= rt'.generation
    BY <1>a, <1>c, <1>d, <1>f DEF Owners, Moves
  <2> QED BY <1>a, <1>c, <1>d, <2>1, <2>2
          DEF Owners, Moves, Starting, Probing, Launching, Outcomes, Stopping
<1>3. BusyHasCall' BY <1>c, <1>d DEF BusyHasCall, Moves, Starting, Probing
<1>4. Holders' = {} BY <1>d, <1>h, HoldersMove
<1>5. Holding' BY <1>e, <1>h, <1>4 DEF Holding
<1>6. CountsRight'
  <2>1. Reserved' = {}
    <3>1. \A d \in Calls : d # c => gen'[d] # rt'.generation
      BY <1>a, <1>c, <1>d, <1>f DEF Owners, Moves
    <3>2. pc'[c] = "probe" BY <1>d DEF Moves
    <3> QED BY <3>1, <3>2 DEF Reserved
  <2>2. Holders' \cup leaked' = {} BY <1>e, <1>h, <1>4
  <2> QED BY <1>c, <2>1, <2>2, FS_EmptySet DEF CountsRight
<1>7. OwnedIsUnloaded' BY <1>c DEF OwnedIsUnloaded
<1> QED BY <1>1, <1>2, <1>3, <1>5, <1>6, <1>7 DEF VInv

\* A reservation that counts is cancelled, and the last one may begin a stop.
LEMMA CancelKeeps ==
  ASSUME VInv, Typed', NEW c \in Calls, CancelPending(c), gen[c] = rt.generation, rt.pendings > 0
  PROVE  VInv'
<1> DEFINE u == rt.ready /\ Unused(rt.leases, rt.pendings - 1) /\ StartedForTasks
<1>a. Typed /\ Modes /\ Owners /\ BusyHasCall /\ Holding /\ CountsRight /\ OwnedIsUnloaded
  BY DEF VInv
<1>b. pc[c] = "cancelling" BY DEF CancelPending
<1>f. rt.leases \in Nat /\ rt.pendings \in Nat /\ rt.generation \in Nat BY <1>a DEF Typed, Runtime
\* A stop begins while nothing else does.
<1>g. ~ rt.stopping /\ ~ rt.startFailed /\ (u => ~ rt.starting /\ rt.leases = 0 /\ rt.pendings = 1)
  BY <1>a, <1>f DEF Modes, Unused
<1>c. /\ rt'.pendings = rt.pendings - 1 /\ rt'.leases = rt.leases
      /\ rt'.key = rt.key /\ rt'.generation = rt.generation /\ rt'.starting = rt.starting
      /\ rt'.ready = rt.ready /\ (rt'.stopping <=> u) /\ rt'.autoStarted = rt.autoStarted
      /\ rt'.keepLoaded = rt.keepLoaded /\ rt'.startFailed = rt.startFailed
  <2>1. rt' = [ rt EXCEPT !.pendings = rt.pendings - 1, !.stopping = rt.stopping \/ u ]
    BY <1>a DEF CancelPending, Typed, Runtime
  <2> HIDE DEF u
  <2> QED BY <1>a, <1>g, <2>1 DEF Typed, Runtime
<1>d. Moves(c, IF u THEN "unloading" ELSE "done", IF u THEN gen[c] ELSE 0)
  <2>1. pc' = [ pc EXCEPT ![c] = IF u THEN "unloading" ELSE "done" ] BY DEF CancelPending, Goto
  <2>2. gen' = [ gen EXCEPT ![c] = IF u THEN gen[c] ELSE 0 ] BY DEF CancelPending, Has
  <2> HIDE DEF u
  <2> QED BY <1>a, <2>1, <2>2, MovesAre
<1>e. UNCHANGED << leaked, stuck, unloadFailed >> BY DEF CancelPending, history
<1>h. u <=> rt.ready /\ rt.leases = 0 /\ rt.pendings = 1 /\ rt.autoStarted /\ ~ rt.keepLoaded
  BY <1>f DEF Unused, StartedForTasks
<1> HIDE DEF u
<1>i. c \in Reserved
  <2>1. rt.pendings = Cardinality(Reserved) BY <1>g, CountsAreRight
  <2>2. Reserved # {} BY <1>f, <2>1, FS_EmptySet
  <2>3. rt.generation # 0 BY <2>2 DEF Reserved
  <2> QED BY <1>b, <2>3 DEF Reserved
<1>1. Modes' BY <1>a, <1>c, <1>f, <1>g DEF Modes
<1>2. Owners' BY <1>a, <1>b, <1>c, <1>d, <1>f, <1>g
              DEF Owners, Moves, Starting, Probing, Launching, Outcomes, Stopping
<1>3. BusyHasCall' BY <1>a, <1>b, <1>c, <1>d, <1>e, <1>g
                   DEF BusyHasCall, Moves, Starting, Probing, Launching, Outcomes, Stopping
<1>4. Holders' = Holders BY <1>b, <1>d, HoldersMove DEF Holders
<1>5. Holding' BY <1>a, <1>b, <1>c, <1>d, <1>e, HoldingMoves
<1>6. CountsRight'
  <2>1. Reserved' = Reserved \ { c } BY <1>c, <1>d, ReservedMove DEF Claims
  <2>2. Cardinality(Reserved \ { c }) = rt.pendings - 1
    <3>1. IsFiniteSet(Reserved) /\ rt.pendings = Cardinality(Reserved) BY <1>g, CountsAreRight
    <3> QED BY <1>i, <3>1, FS_RemoveElement
  <2> QED BY <1>a, <1>c, <1>e, <1>g, <1>4, <2>1, <2>2 DEF CountsRight
<1>7. OwnedIsUnloaded' BY <1>c, <1>f, <1>h DEF OwnedIsUnloaded
<1> QED BY <1>1, <1>2, <1>3, <1>5, <1>6, <1>7 DEF VInv

\* The start of this generation succeeds, and its caller has the first lease.
LEMMA SucceedKeeps ==
  ASSUME VInv, Typed', NEW c \in Calls, StartSucceeds(c)
  PROVE  VInv'
<1>a. Typed /\ Modes /\ Owners /\ BusyHasCall /\ Holding /\ CountsRight /\ OwnedIsUnloaded
  BY DEF VInv
<1>b. pc[c] \in Starting /\ rt.starting /\ gen[c] = rt.generation
  BY <1>a DEF StartSucceeds, Owners, Starting, Outcomes
<1>c. /\ rt'.pendings = rt.pendings /\ rt'.leases = 1
      /\ rt'.key = rt.key /\ rt'.generation = rt.generation /\ ~ rt'.starting
      /\ rt'.ready /\ rt'.stopping = rt.stopping /\ ~ rt'.startFailed
  <2> DEFINE b == pc[c] = "launched"
  <2>1. rt' = [ rt EXCEPT !.starting = FALSE, !.ready = TRUE, !.autoStarted = b,
                          !.leases = 1, !.startFailed = FALSE ]
    BY <1>b DEF StartSucceeds
  <2> HIDE DEF b
  <2> QED BY <1>a, <2>1 DEF Typed, Runtime
<1>d. Moves(c, "using", gen[c]) BY <1>a, <1>b, MovesAre DEF StartSucceeds, Goto
<1>e. UNCHANGED << leaked, stuck >> BY DEF StartSucceeds
<1>f. /\ rt.leases = 0 /\ ~ rt.stopping /\ rt.pendings \in Nat /\ rt.generation \in Nat
      /\ rt.generation > 0 /\ ~ rt.startFailed
  BY <1>a, <1>b DEF Modes, Typed, Runtime
<1>h. Holders = {} /\ leaked = {} BY <1>f, CountsAreRight
<1>1. Modes' BY <1>c, <1>f DEF Modes
<1>2. Owners' BY <1>a, <1>b, <1>c, <1>d, <1>f
              DEF Owners, Moves, Starting, Probing, Launching, Outcomes, Stopping
<1>3. BusyHasCall' BY <1>c, <1>f DEF BusyHasCall
<1>4. Holders' = { c } BY <1>d, <1>h, HoldersMove
\* The start was for the starter's model.
<1>5. Holding'
  <2>1. rt.key = Key[c] BY <1>a, <1>b DEF Owners
  <2>2. gen'[c] = rt.generation BY <1>b, <1>d DEF Moves
  <2>3. \A d \in Holders' : gen'[d] = rt'.generation /\ rt'.key = Key[d]
    BY <1>c, <1>4, <2>1, <2>2
  <2>4. \A d \in leaked' : pc'[d] = "done" BY <1>e, <1>h
  <2> QED BY <2>3, <2>4 DEF Holding
<1>6. CountsRight'
  <2>1. Reserved' = Reserved \ { c } BY <1>c, <1>d, ReservedMove DEF Claims
  <2>2. c \notin Reserved
    BY <1>b DEF Reserved, Starting, Probing, Launching, Outcomes
  <2>3. Reserved' = Reserved BY <2>1, <2>2
  <2>4. Holders' \cup leaked' = { c } BY <1>e, <1>h, <1>4
  <2> QED BY <1>a, <1>c, <1>f, <2>3, <2>4, FS_Singleton DEF CountsRight
<1>7. OwnedIsUnloaded' BY <1>c DEF OwnedIsUnloaded
<1> QED BY <1>1, <1>2, <1>3, <1>5, <1>6, <1>7 DEF VInv

\* The start of this generation fails; the reservations no longer count.
LEMMA FailKeeps ==
  ASSUME VInv, Typed', NEW c \in Calls, StartFails(c)
  PROVE  VInv'
<1>a. Typed /\ Modes /\ Owners /\ BusyHasCall /\ Holding /\ CountsRight /\ OwnedIsUnloaded
  BY DEF VInv
<1>b. pc[c] \in Starting /\ rt.starting /\ gen[c] = rt.generation
  BY <1>a DEF StartFails, Owners, Starting, Outcomes
<1>c. /\ rt'.pendings = 0 /\ rt'.leases = 0 /\ rt'.generation = rt.generation /\ ~ rt'.starting
      /\ ~ rt'.ready /\ rt'.stopping = rt.stopping /\ rt'.startFailed
  <2> DEFINE b == pc[c] = "notcleaned"
             k == IF b THEN rt.key ELSE NoKey
  <2>1. rt' = [ rt EXCEPT !.starting = FALSE, !.ready = FALSE, !.leases = 0, !.pendings = 0,
                          !.keepLoaded = FALSE, !.startFailed = TRUE, !.key = k,
                          !.autoStarted = b ]
    BY <1>a, <1>b DEF StartFails, Typed, Runtime
  <2> HIDE DEF b, k
  <2> QED BY <1>a, <2>1 DEF Typed, Runtime
<1>d. Moves(c, "done", 0) BY <1>a, <1>b, MovesAre DEF StartFails, Finish, Goto, Has
<1>e. UNCHANGED << leaked, stuck >> BY DEF StartFails, history
<1>f. rt.leases = 0 /\ ~ rt.stopping /\ rt.generation \in Nat BY <1>a, <1>b DEF Modes, Typed, Runtime
<1>h. Holders = {} /\ leaked = {} BY <1>f, CountsAreRight
<1>1. Modes' BY <1>c, <1>f DEF Modes
<1>2. Owners' BY <1>a, <1>b, <1>c, <1>d, <1>f
              DEF Owners, Moves, Starting, Probing, Launching, Outcomes, Stopping
<1>3. BusyHasCall' BY <1>c, <1>f DEF BusyHasCall
<1>4. Holders' = {} BY <1>d, <1>h, HoldersMove
<1>5. Holding' BY <1>e, <1>h, <1>4 DEF Holding
<1>6. CountsRight'
  <2>1. Holders' \cup leaked' = {} BY <1>e, <1>h, <1>4
  <2> QED BY <1>c, <2>1, FS_EmptySet DEF CountsRight
<1>7. OwnedIsUnloaded' BY <1>c DEF OwnedIsUnloaded
<1> QED BY <1>1, <1>2, <1>3, <1>5, <1>6, <1>7 DEF VInv

\* A lease is given back, and the last one may begin a stop.
LEMMA ReleaseKeeps ==
  ASSUME VInv, Typed', NEW c \in Calls, ReleaseLease(c)
  PROVE  VInv'
<1> DEFINE u == Unused(rt.leases - 1, rt.pendings) /\ StartedForTasks
<1>a. Typed /\ Modes /\ Owners /\ BusyHasCall /\ Holding /\ CountsRight /\ OwnedIsUnloaded
  BY DEF VInv
<1>b. pc[c] = "using" /\ gen[c] = rt.generation /\ rt.key = Key[c]
  BY <1>a DEF ReleaseLease, Holding, Holders
<1>f. rt.leases \in Nat /\ rt.pendings \in Nat /\ rt.generation \in Nat BY <1>a DEF Typed, Runtime
<1>i. c \in CallUsers /\ c \notin leaked /\ IsFiniteSet(CallUsers) /\ rt.leases = Cardinality(CallUsers)
  BY <1>a, <1>b, CountsAreRight DEF CallUsers, Holders, Holding
<1>j. rt.leases > 0 BY <1>f, <1>i, FS_EmptySet
<1>g. ~ rt.stopping /\ ~ rt.starting /\ ~ rt.startFailed /\ rt.ready BY <1>a, <1>f, <1>j DEF Modes
<1>c. /\ rt'.leases = rt.leases - 1 /\ rt'.pendings = rt.pendings
      /\ rt'.key = rt.key /\ rt'.generation = rt.generation /\ rt'.starting = rt.starting
      /\ rt'.ready = rt.ready /\ (rt'.stopping <=> u) /\ rt'.autoStarted = rt.autoStarted
      /\ rt'.keepLoaded = rt.keepLoaded /\ rt'.startFailed = rt.startFailed
  <2>1. rt' = [ rt EXCEPT !.leases = rt.leases - 1, !.stopping = rt.stopping \/ u ]
    BY <1>a, <1>b, <1>j DEF ReleaseLease, Typed, Runtime
  <2> HIDE DEF u
  <2> QED BY <1>a, <1>g, <2>1 DEF Typed, Runtime
<1>d. Moves(c, IF u THEN "unloading" ELSE "done", IF u THEN gen[c] ELSE 0)
  <2>1. CASE u
    <3>1. pc' = [ pc EXCEPT ![c] = "unloading" ] /\ gen' = gen
      BY <1>b, <1>j, <2>1 DEF ReleaseLease, Goto
    <3> QED BY <1>a, <2>1, <3>1, MovesAre
  <2>2. CASE ~ u
    <3>1. pc' = [ pc EXCEPT ![c] = "done" ] /\ gen' = [ gen EXCEPT ![c] = 0 ]
      BY <1>b, <1>j, <2>2 DEF ReleaseLease, Finish, Goto, Has
    <3> QED BY <1>a, <2>2, <3>1, MovesAre
  <2> QED BY <2>1, <2>2
<1>e. UNCHANGED << leaked, stuck, unloadFailed >> BY DEF ReleaseLease, history
<1>h. u <=> rt.leases = 1 /\ rt.pendings = 0 /\ rt.autoStarted /\ ~ rt.keepLoaded
  BY <1>f DEF Unused, StartedForTasks
<1> HIDE DEF u
<1>1. Modes' BY <1>a, <1>c, <1>f, <1>g, <1>h DEF Modes
<1>2. Owners' BY <1>a, <1>b, <1>c, <1>d, <1>f, <1>g
              DEF Owners, Moves, Starting, Probing, Launching, Outcomes, Stopping
<1>3. BusyHasCall' BY <1>a, <1>b, <1>c, <1>d, <1>e, <1>g
                   DEF BusyHasCall, Moves, Starting, Probing, Launching, Outcomes, Stopping
<1>4. Holders' = Holders \ { c } BY <1>d, HoldersMove
<1>5. Holding' BY <1>a, <1>b, <1>c, <1>d, <1>e, HoldingMoves
<1>6. CountsRight'
  <2>1. Reserved' = Reserved \ { c } BY <1>c, <1>d, ReservedMove DEF Claims
  <2>2. Reserved' = Reserved BY <1>b, <2>1 DEF Reserved
  <2>3. Holders' \cup leaked' = CallUsers \ { c } BY <1>e, <1>i, <1>4 DEF CallUsers
  <2>4. Cardinality(CallUsers \ { c }) = rt.leases - 1 BY <1>i, FS_RemoveElement
  <2> QED BY <1>a, <1>c, <2>2, <2>3, <2>4 DEF CountsRight
<1>7. OwnedIsUnloaded' BY <1>c, <1>f, <1>h DEF OwnedIsUnloaded
<1> QED BY <1>1, <1>2, <1>3, <1>5, <1>6, <1>7 DEF VInv

\* A user begins a stop when nothing is counted.
LEMMA ManualStopKeeps ==
  ASSUME VInv, Typed', NEW c \in Calls, BeginManualStop(c)
  PROVE  VInv'
<1>a. Typed /\ Modes /\ Owners /\ BusyHasCall /\ Holding /\ CountsRight /\ OwnedIsUnloaded
  BY DEF VInv
<1>b. pc[c] = "stop" /\ ~ rt.starting /\ ~ rt.stopping /\ rt.leases = 0 /\ rt.pendings = 0
  BY DEF BeginManualStop, Unused
<1>c. /\ rt'.pendings = rt.pendings /\ rt'.leases = rt.leases
      /\ rt'.generation = rt.generation + 1 /\ ~ rt'.starting /\ rt'.stopping /\ ~ rt'.startFailed
  BY <1>a, <1>b DEF BeginManualStop, Typed, Runtime
<1>d. Moves(c, "unloading", rt.generation + 1) BY <1>a, MovesAre DEF BeginManualStop, Goto, Has
<1>e. UNCHANGED << leaked, stuck >> BY DEF BeginManualStop, history
<1>f. rt.generation \in Nat /\ gen \in [ Calls -> Nat ] BY <1>a DEF Typed, Runtime
<1>h. Holders = {} /\ leaked = {} BY <1>b, CountsAreRight
<1>1. Modes' BY <1>b, <1>c DEF Modes
<1>2. Owners'
  <2>1. \A d \in Calls : pc[d] \notin Starting \cup Stopping BY <1>a, <1>b DEF Owners
  <2>2. \A d \in Calls : gen'[d] <= rt'.generation
    BY <1>a, <1>c, <1>d, <1>f DEF Owners, Moves
  <2> QED BY <1>a, <1>c, <1>d, <2>1, <2>2
          DEF Owners, Moves, Starting, Probing, Launching, Outcomes, Stopping
<1>3. BusyHasCall' BY <1>c, <1>d DEF BusyHasCall, Moves, Stopping
<1>4. Holders' = {} BY <1>d, <1>h, HoldersMove
<1>5. Holding' BY <1>e, <1>h, <1>4 DEF Holding
<1>6. CountsRight'
  <2>1. Reserved' = {}
    <3>1. \A d \in Calls : d # c => gen'[d] # rt'.generation
      BY <1>a, <1>c, <1>d, <1>f DEF Owners, Moves
    <3>2. pc'[c] = "unloading" BY <1>d DEF Moves
    <3> QED BY <3>1, <3>2 DEF Reserved
  <2>2. Holders' \cup leaked' = {} BY <1>e, <1>h, <1>4
  <2> QED BY <1>b, <1>c, <2>1, <2>2, FS_EmptySet DEF CountsRight
<1>7. OwnedIsUnloaded' BY <1>c DEF OwnedIsUnloaded
<1> QED BY <1>1, <1>2, <1>3, <1>5, <1>6, <1>7 DEF VInv

\* A stop ends, well or badly.
LEMMA UnloadKeeps ==
  ASSUME VInv, Typed', NEW c \in Calls, FinishUnload(c)
  PROVE  VInv'
<1>a. Typed /\ Modes /\ Owners /\ BusyHasCall /\ Holding /\ CountsRight /\ OwnedIsUnloaded
  BY DEF VInv
<1>b. pc[c] \in Stopping /\ rt.stopping /\ gen[c] = rt.generation
  BY <1>a DEF FinishUnload, Owners, Stopping
<1>f. /\ rt.leases = 0 /\ rt.pendings = 0 /\ ~ rt.startFailed /\ ~ rt.starting
      /\ rt.generation \in Nat
  BY <1>a, <1>b DEF Modes, Typed, Runtime
<1>c. /\ rt'.pendings = 0 /\ rt'.leases = 0 /\ rt'.generation = rt.generation
      /\ ~ rt'.starting /\ ~ rt'.stopping /\ ~ rt'.startFailed
      /\ ~ rt'.ready \/ unloadFailed'
  <2>1. CASE pc[c] = "unloaded" BY <1>a, <1>b, <1>f, <2>1 DEF FinishUnload
  <2>2. CASE pc[c] # "unloaded"
    <3>1. rt' = [ rt EXCEPT !.stopping = FALSE ] /\ unloadFailed' BY <1>b, <2>2 DEF FinishUnload
    <3> QED BY <1>a, <1>f, <3>1 DEF Typed, Runtime
  <2> QED BY <2>1, <2>2
<1>d. Moves(c, "done", 0) BY <1>a, MovesAre DEF FinishUnload, Finish, Goto, Has
<1>e. UNCHANGED << leaked, stuck >> BY DEF FinishUnload
<1>h. Holders = {} /\ leaked = {} BY <1>f, CountsAreRight
<1>1. Modes' BY <1>c DEF Modes
<1>2. Owners'
  <2>1. \A d \in Calls : d # c => pc[d] \notin Starting \cup Stopping
    BY <1>a, <1>b, <1>f DEF Owners
  <2> QED BY <1>a, <1>c, <1>d, <1>f, <2>1
          DEF Owners, Moves, Starting, Probing, Launching, Outcomes, Stopping
<1>3. BusyHasCall' BY <1>c DEF BusyHasCall
<1>4. Holders' = {} BY <1>d, <1>h, HoldersMove
<1>5. Holding' BY <1>e, <1>h, <1>4 DEF Holding
<1>6. CountsRight'
  <2>1. Reserved' = Reserved \ { c } BY <1>c, <1>d, ReservedMove DEF Claims
  <2>2. Reserved = {} BY <1>f, CountsAreRight, FS_EmptySet
  <2>3. Holders' \cup leaked' = {} BY <1>e, <1>h, <1>4
  <2> QED BY <1>c, <2>1, <2>2, <2>3, FS_EmptySet DEF CountsRight
<1>7. OwnedIsUnloaded' BY <1>c DEF OwnedIsUnloaded
<1> QED BY <1>1, <1>2, <1>3, <1>5, <1>6, <1>7 DEF VInv


-----------------------------------------------------------------------------
(* The invariant.                                                           *)

\* It holds in the initial state.
LEMMA InitHolds == Init => VInv
<1> SUFFICES ASSUME Init PROVE VInv OBVIOUS
<1> USE DEF Init
<1>1. Typed BY DEF Typed, Runtime, PCs
<1>2. Modes BY DEF Modes
<1>3. Owners BY DEF Owners, Starting, Probing, Launching, Outcomes, Stopping
<1>4. BusyHasCall BY DEF BusyHasCall
<1>5. Holders = {} /\ Reserved = {} BY DEF Holders, Reserved
<1>6. Holding BY <1>5 DEF Holding
<1>7. CountsRight BY <1>5, FS_EmptySet DEF CountsRight
<1>8. OwnedIsUnloaded BY DEF OwnedIsUnloaded
<1> QED BY <1>1, <1>2, <1>3, <1>4, <1>6, <1>7, <1>8 DEF VInv

\* Nothing happens, or a script ends that nobody waits for.
LEMMA StutterKeeps ==
  ASSUME VInv, UNCHANGED << rt, pc, gen, woken, leaked, stuck, unloadFailed >>
  PROVE  VInv'
<1>1. Typed' /\ Modes' /\ Owners' BY DEF VInv, Typed, Modes, Owners
<1>2. Holders' = Holders /\ Reserved' = Reserved BY DEF Holders, Reserved
<1>3. BusyHasCall' /\ OwnedIsUnloaded' BY DEF VInv, BusyHasCall, OwnedIsUnloaded
<1>4. Holding' /\ CountsRight' BY <1>2 DEF VInv, Holding, CountsRight
<1> QED BY <1>1, <1>3, <1>4 DEF VInv

\* A section that looks at the coordinator's state and decides keeps it.
LEMMA EntersKeeps == ASSUME VInv, Typed', NEW c \in Calls, Enters(c) PROVE VInv'
<1>1. CASE SeeStartFailure(c) \/ AwaitStop(c) \/ Refuse(c) \/ Wake(c)
  <2>1. rt' = rt BY <1>1 DEF SeeStartFailure, AwaitStop, Refuse, Wake
  <2> QED BY <1>1, <2>1, QuietActions
<1>2. CASE ActivatePending(c) BY <1>2, ActivateKeeps
<1>3. CASE AwaitStart(c)
  <2>1. CASE Reservation(c) = 0 BY <1>3, <2>1, ReserveKeeps
  <2>2. CASE Reservation(c) # 0
    <3>1. rt' = rt BY <1>3, <2>2 DEF AwaitStart
    <3> QED BY <1>3, <3>1, QuietActions
  <2> QED BY <2>1, <2>2
<1>4. CASE ShareLease(c) BY <1>4, ShareKeeps
<1>5. CASE BeginGeneration(c) BY <1>5, BeginKeeps
<1>6. CASE CancelPending(c)
  <2>1. CASE gen[c] = rt.generation /\ rt.pendings > 0 BY <1>6, <2>1, CancelKeeps
  <2>2. CASE ~ (gen[c] = rt.generation /\ rt.pendings > 0)
    <3>1. rt' = rt BY <1>6, <2>2 DEF CancelPending
    <3> QED BY <1>6, <3>1, QuietActions
  <2> QED BY <2>1, <2>2
<1> QED BY <1>1, <1>2, <1>3, <1>4, <1>5, <1>6 DEF Enters

\* Every step keeps the invariant.
LEMMA VInvInductive == ASSUME VInv, [Next]_vars PROVE VInv'
<1>1. Typed' BY TypedInductive DEF VInv
<1>2. CASE UNCHANGED vars \/ \E c \in Calls : StrayScriptEnds(c)
  BY <1>2, StutterKeeps DEF vars, StrayScriptEnds, history
<1>3. ASSUME NEW c \in Calls, Enters(c) PROVE VInv' BY <1>1, <1>3, EntersKeeps
<1>4. ASSUME NEW c \in Calls, Starts(c) PROVE VInv'
  <2>1. CASE Probe(c) \/ Launch(c) \/ PollReady(c) \/ StartTimesOut(c)
    <3>1. rt' = rt BY <2>1 DEF Probe, Launch, PollReady, StartTimesOut
    <3> QED BY <1>1, <2>1, <3>1, QuietActions
  <2>2. CASE StartSucceeds(c) BY <1>1, <2>2, SucceedKeeps
  <2>3. CASE StartFails(c) BY <1>1, <2>3, FailKeeps
  <2> QED BY <1>4, <2>1, <2>2, <2>3 DEF Starts
<1>5. ASSUME NEW c \in Calls, Ends(c) PROVE VInv'
  <2>1. CASE AbandonLease(c) \/ RefuseManualStop(c) \/ ScriptEnds(c) \/ ScriptTimesOut(c)
    <3>1. rt' = rt BY <2>1 DEF AbandonLease, RefuseManualStop, ScriptEnds, ScriptTimesOut
    <3> QED BY <1>1, <2>1, <3>1, QuietActions
  <2>2. CASE ReleaseLease(c) BY <1>1, <2>2, ReleaseKeeps
  <2>3. CASE BeginManualStop(c) BY <1>1, <2>3, ManualStopKeeps
  <2>4. CASE FinishUnload(c) BY <1>1, <2>4, UnloadKeeps
  <2> QED BY <1>5, <2>1, <2>2, <2>3, <2>4 DEF Ends
<1>6. ASSUME NEW c \in Calls, Arrive(c) \/ WaitTimesOut(c) \/ Disconnect(c) PROVE VInv'
  <2>1. rt' = rt BY <1>6 DEF Arrive, WaitTimesOut, Disconnect
  <2> QED BY <1>1, <1>6, <2>1, QuietActions
<1> QED BY <1>2, <1>3, <1>4, <1>5, <1>6 DEF Next

\* The invariant always holds: the coordinator's flags exclude one another as they
\* should, starts and stops belong to one call each, and the counters are right.
THEOREM InvariantHolds == Spec => []VInv
<1> QED BY InitHolds, VInvInductive, PTL DEF Spec

-----------------------------------------------------------------------------
(* The scripts, and where the server comes from.                            *)

\* A stop script that is not overdue is waited for by its call, or was by a handler
\* that was dropped; after that no start and no stop ends any more.
Scripts ==
  /\ script \in [ Calls -> { "none", "running", "overdue" } ]
  /\ \A c \in Calls : script[c] = "running" => pc[c] \in AtScript \/ c \in stuck
  /\ stuck # {} => /\ rt.starting \/ rt.stopping
                   /\ \A c \in Calls : pc[c] \notin Starting \cup Stopping

\* The steps of a start that found no server.
Late == Starting \ { "probe", "found" }

\* keepLoaded knows of every load, autoStarted of every server found, from the
\* start that decides them on.
Origins ==
  /\ found \in BOOLEAN /\ loads \subseteq Calls
  /\ loads # {} => rt.keepLoaded
  /\ rt.autoStarted => ~ found
  /\ rt.starting => loads = {} /\ ~ rt.autoStarted
  /\ \A c \in Calls : pc[c] \in Starting /\ Keep(c) => rt.keepLoaded
  /\ \A c \in Calls : pc[c] \in Late => ~ found

\* A step of a call that is neither the end of a script nor that of its wait.
Plain(c) ==
  \/ Enters(c) \/ Starts(c) \/ Arrive(c) \/ WaitTimesOut(c) \/ Disconnect(c)
  \/ AbandonLease(c) \/ ReleaseLease(c) \/ BeginManualStop(c) \/ RefuseManualStop(c)
  \/ FinishUnload(c)

\* The steps there are.
LEMMA StepsAre ==
  ASSUME [Next]_vars
  PROVE  \/ UNCHANGED vars
         \/ \E c \in Calls : Plain(c)
         \/ \E c \in Calls : ScriptEnds(c) \/ ScriptTimesOut(c) \/ StrayScriptEnds(c)
  BY DEF Next, Ends, Plain

\* A plain step takes its call to one place, from one where no script is waited for,
\* if it is not the end of a handler.
LEMMA PlainGoes ==
  ASSUME NEW c \in Calls, Plain(c)
  PROVE  /\ \E l : Goto(c, l)
         /\ ~ Disconnect(c) => pc[c] \notin AtScript /\ stuck' = stuck
<1> USE DEF Finish, FailWith, history, AtScript
<1>1. CASE Enters(c)
  BY <1>1 DEF Enters, SeeStartFailure, ActivatePending, AwaitStop, AwaitStart, Refuse, ShareLease,
              BeginGeneration, Wake, CancelPending, GoesOn
<1>2. CASE Starts(c)
  BY <1>2 DEF Starts, Probe, Launch, PollReady, StartTimesOut, StartSucceeds, StartFails
<1>3. CASE Arrive(c) \/ WaitTimesOut(c) \/ AbandonLease(c) \/ RefuseManualStop(c)
  BY <1>3 DEF Arrive, WaitTimesOut, AbandonLease, RefuseManualStop
<1>4. CASE ReleaseLease(c) \/ BeginManualStop(c) \/ FinishUnload(c)
  BY <1>4 DEF ReleaseLease, BeginManualStop, FinishUnload
<1>5. CASE Disconnect(c) BY <1>5 DEF Disconnect
<1> QED BY <1>1, <1>2, <1>3, <1>4, <1>5 DEF Plain

\* Once a handler was dropped in the middle of a start or a stop, no other call gets
\* into one, and the flag stays.
LEMMA StuckStays ==
  ASSUME VInv, NEW c \in Calls, Plain(c), rt.starting \/ rt.stopping,
         pc[c] \notin Starting \cup Stopping
  PROVE  (rt'.starting \/ rt'.stopping) /\ pc'[c] \notin Starting \cup Stopping
<1>a. /\ rt \in Runtime /\ pc \in [ Calls -> PCs ] /\ rt.leases \in Nat /\ rt.pendings \in Nat
      /\ Modes
  BY DEF VInv, Typed, Runtime
<1>b. rt.leases = 0 /\ (~ rt.ready \/ rt.pendings = 0)
  BY <1>a DEF Modes
<1> USE DEF Goto, Finish, FailWith, Starting, Probing, Launching, Outcomes, Stopping
<1>1. CASE SeeStartFailure(c) \/ AwaitStop(c) \/ Refuse(c) \/ Wake(c)
  BY <1>1, <1>a DEF SeeStartFailure, AwaitStop, Refuse, Wake
<1>2. CASE ActivatePending(c) \/ ShareLease(c)
  BY <1>2, <1>a DEF ActivatePending, ShareLease, Runtime
<1>3. CASE AwaitStart(c) BY <1>3, <1>a DEF AwaitStart, Runtime
<1>4. CASE BeginGeneration(c) BY <1>4 DEF BeginGeneration
<1>5. CASE CancelPending(c)
  <2> DEFINE u == rt.ready /\ Unused(rt.leases, rt.pendings - 1) /\ StartedForTasks
  <2>1. CASE ~ (gen[c] = rt.generation /\ rt.pendings > 0)
    BY <1>5, <1>a, <2>1 DEF CancelPending
  <2>2. CASE gen[c] = rt.generation /\ rt.pendings > 0
    <3>1. rt' = [ rt EXCEPT !.pendings = rt.pendings - 1, !.stopping = rt.stopping \/ u ]
      BY <1>5, <1>a, <2>2 DEF CancelPending, Runtime
    <3>2. ~ u BY <1>b, <2>2
    <3>3. pc' = [ pc EXCEPT ![c] = "done" ] BY <1>5, <2>2, <3>2 DEF CancelPending
    <3> HIDE DEF u
    <3> QED BY <1>a, <3>1, <3>2, <3>3 DEF Runtime
  <2> QED BY <2>1, <2>2
<1>6. CASE Starts(c)
  BY <1>6 DEF Starts, Probe, Launch, PollReady, StartTimesOut, StartSucceeds, StartFails
<1>7. CASE Arrive(c) \/ WaitTimesOut(c) \/ AbandonLease(c) \/ RefuseManualStop(c) \/ Disconnect(c)
  BY <1>7, <1>a DEF Arrive, WaitTimesOut, AbandonLease, RefuseManualStop, Disconnect
<1>8. CASE ReleaseLease(c)
  <2>1. ~ (gen[c] = rt.generation /\ rt.leases > 0) BY <1>b
  <2>2. rt' = rt /\ pc' = [ pc EXCEPT ![c] = "done" ] BY <1>8, <2>1 DEF ReleaseLease
  <2> QED BY <1>a, <2>2
<1>9. CASE BeginManualStop(c) BY <1>9 DEF BeginManualStop
<1>10. CASE FinishUnload(c) BY <1>10 DEF FinishUnload
<1> QED BY <1>1, <1>2, <1>3, <1>4, <1>5, <1>6, <1>7, <1>8, <1>9, <1>10 DEF Plain, Enters

\* Every step keeps what is said of the scripts.
LEMMA ScriptsInductive == ASSUME VInv, Scripts, [Next]_vars PROVE Scripts'
<1>a. pc \in [ Calls -> PCs ] /\ Owners /\ stuck \subseteq Calls BY DEF VInv, Typed
<1>b. script \in [ Calls -> { "none", "running", "overdue" } ] BY DEF Scripts
<1>1. CASE UNCHANGED vars BY <1>1 DEF Scripts, vars
<1>2. ASSUME NEW c \in Calls, Plain(c) PROVE Scripts'
  <2>1. PICK l : Goto(c, l) BY <1>2, PlainGoes
  <2>2. pc'[c] = l /\ \A d \in Calls \ { c } : pc'[d] = pc[d] BY <1>a, <2>1 DEF Goto
  <2>3. /\ script' \in [ Calls -> { "none", "running", "overdue" } ]
        /\ \A d \in Calls \ { c } : script'[d] = script[d]
        /\ script'[c] = script[c] \/ l \in AtScript
    BY <1>b, <2>1 DEF Goto
  <2>4. CASE Disconnect(c)
    <3>1. /\ stuck \subseteq stuck' /\ rt' = rt /\ l \notin Starting \cup Stopping
          /\ pc[c] \in Starting \cup Stopping => c \in stuck'
          /\ pc[c] \notin Starting \cup Stopping => stuck' = stuck
      BY <2>2, <2>4, <1>a
      DEF Disconnect, FailWith, Finish, Goto, Starting, Probing, Launching, Outcomes, Stopping
    <3>2. \A d \in Calls : script'[d] = "running" => pc'[d] \in AtScript \/ d \in stuck'
      <4>1. pc[c] \in AtScript => c \in stuck'
        BY <3>1 DEF AtScript, Starting, Launching, Stopping
      <4> QED BY <2>2, <2>3, <3>1, <4>1 DEF Scripts
    <3>3. CASE pc[c] \in Starting \cup Stopping
      <4>1. \A d \in Calls : pc'[d] \notin Starting \cup Stopping
        BY <1>a, <2>2, <3>1, <3>3 DEF Owners
      <4>2. rt.starting \/ rt.stopping BY <1>a, <3>3 DEF Owners
      <4> QED BY <2>3, <3>1, <3>2, <4>1, <4>2 DEF Scripts
    <3>4. CASE pc[c] \notin Starting \cup Stopping
      BY <2>2, <2>3, <3>1, <3>2, <3>4 DEF Scripts
    <3> QED BY <3>3, <3>4
  <2>5. CASE ~ Disconnect(c)
    <3>1. pc[c] \notin AtScript /\ stuck' = stuck BY <1>2, <2>5, PlainGoes
    <3>2. \A d \in Calls : script'[d] = "running" => pc'[d] \in AtScript \/ d \in stuck'
      BY <2>2, <2>3, <3>1 DEF Scripts
    <3>3. stuck # {} => /\ rt'.starting \/ rt'.stopping
                        /\ \A d \in Calls : pc'[d] \notin Starting \cup Stopping
      <4>1. SUFFICES ASSUME stuck # {}
                     PROVE  /\ rt'.starting \/ rt'.stopping
                            /\ \A d \in Calls : pc'[d] \notin Starting \cup Stopping
        OBVIOUS
      <4>2. /\ rt.starting \/ rt.stopping
            /\ \A d \in Calls : pc[d] \notin Starting \cup Stopping
        BY <4>1 DEF Scripts
      <4> QED BY <1>2, <2>2, <4>2, StuckStays
    <3> QED BY <2>3, <3>1, <3>2, <3>3 DEF Scripts
  <2> QED BY <2>4, <2>5
<1>3. ASSUME NEW c \in Calls, ScriptEnds(c) \/ ScriptTimesOut(c) PROVE Scripts'
  <2>1. pc[c] \in Starting \cup Stopping
    BY <1>3 DEF ScriptEnds, ScriptTimesOut, AtScript, Starting, Launching, Stopping
  <2>2. /\ stuck' = stuck /\ rt' = rt
        /\ \A d \in Calls \ { c } : pc'[d] = pc[d] /\ script'[d] = script[d]
        /\ script'[c] \in { "none", "overdue" }
        /\ script' \in [ Calls -> { "none", "running", "overdue" } ]
    BY <1>3, <1>a, <1>b DEF ScriptEnds, ScriptTimesOut, history
  <2> QED BY <2>1, <2>2 DEF Scripts
<1>4. ASSUME NEW c \in Calls, StrayScriptEnds(c) PROVE Scripts'
  BY <1>4, <1>b DEF StrayScriptEnds, Scripts, history
<1> QED BY <1>1, <1>2, <1>3, <1>4, StepsAre

\* Every stop script that is not overdue belongs to a stop, or to the end of a start,
\* that is still under way or that will never end.
THEOREM ScriptsHold == Spec => []Scripts
<1>1. Init => Scripts BY DEF Init, Scripts
<1> QED BY <1>1, ScriptsInductive, InvariantHolds, PTL DEF Spec

\* A step that leaves alone what is known of the server, and takes nobody into a
\* start or on in it.
LEMMA OriginsKept ==
  ASSUME Origins, NEW c \in Calls,
         \A d \in Calls \ { c } : pc'[d] = pc[d],
         pc'[c] \in Starting => pc[c] \in Starting,
         pc'[c] \in Late => pc[c] \in Late,
         rt'.starting = rt.starting, rt'.keepLoaded = rt.keepLoaded,
         rt'.autoStarted = rt.autoStarted, found' = found, loads' = loads
  PROVE  Origins'
  BY DEF Origins

\* The sections of acquire_vllm_runtime, and the task that cancels a reservation.
LEMMA EntersOrigins == ASSUME VInv, Origins, NEW c \in Calls, Enters(c) PROVE Origins'
<1>a. /\ rt \in Runtime /\ pc \in [ Calls -> PCs ] /\ Owners /\ Keep(c) \in BOOLEAN
      /\ loads \subseteq Calls
  BY DEF VInv, Typed, Keep, Origins
<1>b. PICK l : pc' = [ pc EXCEPT ![c] = l ]
  BY PlainGoes DEF Plain, Goto
<1>c. pc'[c] = l /\ \A d \in Calls \ { c } : pc'[d] = pc[d] BY <1>a, <1>b
<1> USE DEF Goto, Finish, FailWith, history, Late, Starting, Probing, Launching, Outcomes
<1>1. CASE SeeStartFailure(c) \/ AwaitStop(c) \/ Refuse(c) \/ Wake(c)
  <2>1. rt' = rt /\ UNCHANGED << found, loads >> /\ pc'[c] \notin Starting
    BY <1>1, <1>a DEF SeeStartFailure, AwaitStop, Refuse, Wake
  <2> QED BY <1>c, <2>1, OriginsKept
<1>2. CASE ActivatePending(c) \/ ShareLease(c)
  <2>1. /\ rt'.starting = rt.starting /\ rt'.autoStarted = rt.autoStarted /\ ~ rt.starting
        /\ found' = found /\ Loads(c) /\ pc'[c] = "using"
    BY <1>2, <1>a DEF ActivatePending, Activatable, Decided, ShareLease, Shared, Runtime
  <2>2. rt'.keepLoaded = (rt.keepLoaded \/ Keep(c))
    BY <1>2, <1>a DEF ActivatePending, ShareLease, Runtime
  <2>3. loads' \subseteq Calls /\ (loads' # {} => rt'.keepLoaded)
    BY <1>a, <2>1, <2>2 DEF Loads, Origins
  <2>4. \A d \in Calls : pc'[d] \notin Starting
    BY <1>a, <1>c, <2>1 DEF Owners
  <2> QED BY <2>1, <2>3, <2>4 DEF Origins
<1>3. CASE AwaitStart(c)
  <2>1. /\ rt'.starting = rt.starting /\ rt'.keepLoaded = rt.keepLoaded
        /\ rt'.autoStarted = rt.autoStarted
    BY <1>3, <1>a DEF AwaitStart, Runtime
  <2>2. UNCHANGED << found, loads >> /\ pc'[c] \notin Starting
    BY <1>3, <1>a DEF AwaitStart
  <2> QED BY <1>c, <2>1, <2>2, OriginsKept
<1>4. CASE BeginGeneration(c)
  <2>1. /\ rt'.starting /\ ~ rt'.autoStarted /\ rt'.keepLoaded = Keep(c)
        /\ ~ rt.starting /\ loads' = {} /\ found' = found /\ pc'[c] = "probe"
    BY <1>4, <1>a DEF BeginGeneration
  <2>2. \A d \in Calls \ { c } : pc'[d] \notin Starting BY <1>a, <1>c, <2>1 DEF Owners
  <2> QED BY <2>1, <2>2 DEF Origins
<1>5. CASE CancelPending(c)
  <2>1. /\ rt'.starting = rt.starting /\ rt'.keepLoaded = rt.keepLoaded
        /\ rt'.autoStarted = rt.autoStarted
    BY <1>5, <1>a DEF CancelPending, Runtime
  <2>2. UNCHANGED << found, loads >> /\ pc'[c] \notin Starting
    BY <1>5, <1>a DEF CancelPending
  <2> QED BY <1>c, <2>1, <2>2, OriginsKept
<1> QED BY <1>1, <1>2, <1>3, <1>4, <1>5 DEF Enters

\* The steps of a start: nobody else is in one, and it ends as its probe has told.
LEMMA StartsOrigins == ASSUME VInv, Origins, NEW c \in Calls, Starts(c) PROVE Origins'
<1>a. /\ rt \in Runtime /\ pc \in [ Calls -> PCs ] /\ Owners /\ Keep(c) \in BOOLEAN
      /\ loads \subseteq Calls /\ found \in BOOLEAN
  BY DEF VInv, Typed, Keep, Origins
<1>b. PICK l : pc' = [ pc EXCEPT ![c] = l ]
  BY PlainGoes DEF Plain, Goto
<1>c. pc'[c] = l /\ \A d \in Calls \ { c } : pc'[d] = pc[d] BY <1>a, <1>b
<1> USE DEF Goto, Finish, history, Late, Starting, Probing, Launching, Outcomes
<1>d. pc[c] \in Starting
  BY DEF Starts, Probe, Launch, PollReady, StartTimesOut, StartSucceeds, StartFails
<1>e. rt.starting /\ gen[c] = rt.generation /\ loads = {} /\ ~ rt.autoStarted
  BY <1>a, <1>d DEF Owners, Origins
<1>f. \A d \in Calls \ { c } : pc'[d] \notin Starting BY <1>a, <1>c, <1>d DEF Owners
<1>g. Keep(c) => rt.keepLoaded BY <1>d DEF Origins
<1>1. CASE Probe(c)
  <2>1. rt' = rt /\ loads' = loads /\ found' \in BOOLEAN /\ pc'[c] = IF found' THEN "found" ELSE "launch"
    BY <1>1, <1>a DEF Probe
  <2> QED BY <1>e, <1>f, <1>g, <2>1 DEF Origins
<1>2. CASE Launch(c) \/ PollReady(c) \/ StartTimesOut(c)
  <2>1. rt' = rt /\ UNCHANGED << found, loads >> /\ pc[c] \in Late
    BY <1>2, <1>a DEF Launch, PollReady, StartTimesOut
  <2> QED BY <1>c, <1>d, <2>1, OriginsKept
<1>3. CASE StartSucceeds(c)
  <2> DEFINE b == pc[c] = "launched"
  <2>1. rt' = [ rt EXCEPT !.starting = FALSE, !.ready = TRUE, !.autoStarted = b,
                          !.leases = 1, !.startFailed = FALSE ]
    BY <1>3, <1>e DEF StartSucceeds
  <2>2. b => ~ found BY DEF Origins
  <2>3. found' = found /\ Loads(c) /\ pc'[c] = "using" BY <1>3, <1>a, <1>e DEF StartSucceeds
  <2> HIDE DEF b
  <2>4. ~ rt'.starting /\ (rt'.autoStarted <=> b) /\ rt'.keepLoaded = rt.keepLoaded
    BY <1>a, <2>1 DEF Runtime
  <2>5. loads' \subseteq Calls /\ (loads' # {} => rt'.keepLoaded)
    BY <1>a, <1>e, <1>g, <2>3, <2>4 DEF Loads
  <2> QED BY <1>a, <1>f, <2>2, <2>3, <2>4, <2>5 DEF Origins
<1>4. CASE StartFails(c)
  <2> DEFINE b == pc[c] = "notcleaned"
             k == IF b THEN rt.key ELSE NoKey
  <2>1. rt' = [ rt EXCEPT !.starting = FALSE, !.ready = FALSE, !.leases = 0, !.pendings = 0,
                          !.keepLoaded = FALSE, !.startFailed = TRUE, !.key = k,
                          !.autoStarted = b ]
    BY <1>4, <1>a, <1>e DEF StartFails, Runtime
  <2>2. b => ~ found BY DEF Origins
  <2>3. found' = found /\ loads' = loads /\ pc'[c] = "done" BY <1>4, <1>a, <1>e DEF StartFails
  <2> HIDE DEF b, k
  <2>4. ~ rt'.starting /\ (rt'.autoStarted <=> b) BY <1>a, <2>1 DEF Runtime
  <2> QED BY <1>a, <1>e, <1>f, <2>2, <2>3, <2>4 DEF Origins
<1> QED BY <1>1, <1>2, <1>3, <1>4 DEF Starts

\* A lease that is given back, a stop, and what comes to nothing.
LEMMA EndsOrigins ==
  ASSUME VInv, Origins, NEW c \in Calls, Plain(c), ~ Enters(c), ~ Starts(c)
  PROVE  Origins'
<1>a. rt \in Runtime /\ pc \in [ Calls -> PCs ] /\ Owners /\ Modes BY DEF VInv, Typed
<1>b. PICK l : pc' = [ pc EXCEPT ![c] = l ] BY PlainGoes DEF Goto
<1>c. pc'[c] = l /\ \A d \in Calls \ { c } : pc'[d] = pc[d] BY <1>a, <1>b
<1> USE DEF Goto, Finish, FailWith, history, Late, Starting, Probing, Launching, Outcomes
<1>1. CASE Arrive(c) \/ WaitTimesOut(c) \/ AbandonLease(c) \/ RefuseManualStop(c) \/ Disconnect(c)
  <2>1. rt' = rt /\ UNCHANGED << found, loads >> /\ pc'[c] \notin Starting
    BY <1>1, <1>a DEF Arrive, WaitTimesOut, AbandonLease, RefuseManualStop, Disconnect
  <2> QED BY <1>c, <2>1, OriginsKept
<1>2. CASE ReleaseLease(c) \/ BeginManualStop(c)
  <2>1. /\ rt'.starting = rt.starting /\ rt'.keepLoaded = rt.keepLoaded
        /\ rt'.autoStarted = rt.autoStarted
    BY <1>2, <1>a DEF ReleaseLease, BeginManualStop, Runtime
  <2>2. UNCHANGED << found, loads >> /\ pc'[c] \notin Starting
    BY <1>2, <1>a DEF ReleaseLease, BeginManualStop
  <2> QED BY <1>c, <2>1, <2>2, OriginsKept
<1>3. CASE FinishUnload(c)
  <2>1. rt.stopping /\ gen[c] = rt.generation /\ ~ rt.starting
    BY <1>3, <1>a DEF FinishUnload, Owners, Stopping, Modes
  <2>2. found' = found /\ pc'[c] = "done" BY <1>3, <1>a DEF FinishUnload
  <2>3. CASE pc[c] = "unloaded"
    <3>1. loads' = {} /\ ~ rt'.autoStarted /\ ~ rt'.starting
      BY <1>3, <2>1, <2>3 DEF FinishUnload
    <3>2. \A d \in Calls : pc'[d] \notin Starting BY <1>a, <1>c, <2>1, <2>2 DEF Owners
    <3> QED BY <2>2, <3>1, <3>2 DEF Origins
  <2>4. CASE pc[c] # "unloaded"
    <3>1. rt' = [ rt EXCEPT !.stopping = FALSE ] /\ loads' = loads
      BY <1>3, <2>1, <2>4 DEF FinishUnload
    <3>2. /\ rt'.starting = rt.starting /\ rt'.keepLoaded = rt.keepLoaded
          /\ rt'.autoStarted = rt.autoStarted
      BY <1>a, <3>1 DEF Runtime
    <3> QED BY <1>c, <2>2, <3>1, <3>2, OriginsKept
  <2> QED BY <2>3, <2>4
<1> QED BY <1>1, <1>2, <1>3 DEF Plain

\* Every step keeps what is said of where the server comes from.
LEMMA OriginsInductive == ASSUME VInv, Origins, [Next]_vars PROVE Origins'
<1>a. pc \in [ Calls -> PCs ] BY DEF VInv, Typed
<1>1. CASE UNCHANGED vars BY <1>1 DEF Origins, vars
<1>2. ASSUME NEW c \in Calls, Plain(c) PROVE Origins'
  BY <1>2, EntersOrigins, StartsOrigins, EndsOrigins
<1>3. ASSUME NEW c \in Calls, ScriptEnds(c) \/ ScriptTimesOut(c) PROVE Origins'
  <2>1. PICK l \in { "unloaded", "notunloaded", "cleaned", "notcleaned" } :
          /\ pc' = [ pc EXCEPT ![c] = l ]
          /\ pc[c] = "cleanup" \/ l \in { "unloaded", "notunloaded" }
    BY <1>3, <1>a DEF ScriptEnds, ScriptTimesOut, AtScript
  <2>2. /\ \A d \in Calls \ { c } : pc'[d] = pc[d]
        /\ pc'[c] \in Starting => pc[c] \in Starting
        /\ pc'[c] \in Late => pc[c] \in Late
    BY <1>a, <2>1 DEF Late, Starting, Probing, Launching, Outcomes
  <2>3. rt' = rt /\ UNCHANGED << found, loads >>
    BY <1>3 DEF ScriptEnds, ScriptTimesOut, history
  <2> QED BY <2>2, <2>3, OriginsKept
<1>4. ASSUME NEW c \in Calls, StrayScriptEnds(c) PROVE Origins'
  BY <1>4 DEF StrayScriptEnds, Origins, history
<1> QED BY <1>1, <1>2, <1>3, <1>4, StepsAre

\* The coordinator's flags always know where its server comes from, and which loads
\* want it to stay.
THEOREM OriginsHold == Spec => []Origins
<1>1. Init => Origins
  <2> SUFFICES ASSUME Init PROVE Origins OBVIOUS
  <2>1. ASSUME NEW c \in Calls PROVE pc[c] \notin Starting /\ pc[c] \notin Late
    <3>1. pc[c] = "idle" BY DEF Init
    <3> QED BY <3>1 DEF Late, Starting, Probing, Launching, Outcomes
  <2>2. /\ found = FALSE /\ loads = {}
        /\ rt.keepLoaded = FALSE /\ rt.autoStarted = FALSE /\ rt.starting = FALSE
    BY DEF Init
  <2> QED BY <2>1, <2>2 DEF Origins
<1> QED BY <1>1, OriginsInductive, InvariantHolds, PTL DEF Spec

-----------------------------------------------------------------------------
(* What follows from it.                                                    *)

\* The state is of its type; in particular neither counter exceeds the number of
\* calls.
THEOREM TypeCorrect == Spec => []TypeOK
<1>1. VInv /\ Scripts /\ Origins => TypeOK
  <2> SUFFICES ASSUME VInv, Scripts, Origins PROVE TypeOK OBVIOUS
  <2>1. Typed BY DEF VInv
  <2>2. IsFiniteSet(Calls) BY VllmRuntimeAssumption
  <2>3. CallUsers \in SUBSET Calls /\ Reserved \in SUBSET Calls
    BY <2>1 DEF CallUsers, Holders, Reserved, Typed
  <2>4. Cardinality(CallUsers) <= N /\ Cardinality(Reserved) <= N /\ N \in Nat
    BY <2>2, <2>3, FS_Subset, FS_CardinalityType DEF N
  <2>5. rt.leases \in 0..N BY <2>4, CountsAreRight
  <2>6. rt.pendings \in 0..N BY <2>4, CountsAreRight DEF VInv, CountsRight
  <2>7. /\ script \in [ Calls -> { "none", "running", "overdue" } ]
        /\ found \in BOOLEAN /\ loads \subseteq Calls
    BY DEF Scripts, Origins
  <2> QED BY <2>1, <2>5, <2>6, <2>7 DEF TypeOK, Typed, Runtime
<1> QED BY <1>1, InvariantHolds, ScriptsHold, OriginsHold, PTL

\* The two counters are always right.
THEOREM CountsAlwaysRight == Spec => []CountsRight
<1>1. VInv => CountsRight BY DEF VInv
<1> QED BY <1>1, InvariantHolds, PTL

\* A start or a stop that others wait for is some call's business.
THEOREM BusyAlwaysHasCall == Spec => []BusyHasCall
<1>1. VInv => BusyHasCall BY DEF VInv
<1> QED BY <1>1, InvariantHolds, PTL

\* A server started for tasks is never left behind.
THEOREM OwnedAlwaysUnloaded == Spec => []OwnedIsUnloaded
<1>1. VInv => OwnedIsUnloaded BY DEF VInv
<1> QED BY <1>1, InvariantHolds, PTL

\* Nobody's server is stopped under them by a script that is not overdue: a lease
\* counts, a counted lease means that there is neither a start nor a stop, and
\* without them there is no such script, not even one of a dropped handler.
THEOREM NobodyIsStopped == Spec => []StopsNobody
<1>1. VInv /\ Scripts => StopsNobody
  <2> SUFFICES ASSUME VInv, Scripts, NEW c \in Holders
               PROVE  /\ gen[c] = rt.generation /\ rt.key = Key[c] /\ rt.ready
                      /\ \A d \in Calls : script[d] # "running"
    BY DEF StopsNobody
  <2>1. Modes /\ Owners /\ Holding BY DEF VInv
  <2>2. rt.leases # 0 BY CountsAreRight
  <2>3. rt.leases > 0 BY <2>2, CountsAreRight
  <2>4. rt.ready /\ ~ rt.starting /\ ~ rt.stopping BY <2>1, <2>3 DEF Modes
  <2>5. \A d \in Calls : pc[d] \notin Starting \cup Stopping BY <2>1, <2>4 DEF Owners
  <2>6. \A d \in Calls : pc[d] \notin AtScript
    BY <2>5 DEF AtScript, Starting, Launching, Stopping
  <2>7. \A d \in Calls : script[d] # "running" BY <2>4, <2>6 DEF Scripts
  <2> QED BY <2>1, <2>4, <2>7 DEF Holding
<1> QED BY <1>1, InvariantHolds, ScriptsHold, PTL

-----------------------------------------------------------------------------
(* The steps, and the resource they stand for.                              *)

\* What a step may do to the flag that announces a stop, and why.
LEMMA StopsAre ==
  ASSUME VInv, [Next]_vars, ~ rt.stopping, rt'.stopping
  PROVE  \/ rt.autoStarted /\ ~ rt.keepLoaded
         \/ \E c \in Calls : pc[c] = "stop" /\ pc'[c] = "unloading"
<1>a. rt \in Runtime /\ pc \in [ Calls -> PCs ] BY DEF VInv, Typed
<1> USE DEF history, Goto
<1>1. ~ UNCHANGED vars /\ ~ \E c \in Calls : StrayScriptEnds(c) BY DEF vars, StrayScriptEnds
<1>2. ASSUME NEW c \in Calls, Enters(c) PROVE rt.autoStarted /\ ~ rt.keepLoaded
  <2>1. CASE SeeStartFailure(c) \/ AwaitStop(c) \/ Refuse(c) \/ Wake(c)
    BY <2>1 DEF SeeStartFailure, AwaitStop, Refuse, Wake
  <2>2. CASE ActivatePending(c) BY <1>a, <2>2 DEF ActivatePending, Runtime
  <2>3. CASE AwaitStart(c) BY <1>a, <2>3 DEF AwaitStart, Runtime
  <2>4. CASE ShareLease(c) BY <1>a, <2>4 DEF ShareLease, Runtime
  <2>5. CASE BeginGeneration(c) BY <2>5 DEF BeginGeneration
  <2>6. CASE CancelPending(c)
    <3> DEFINE u == rt.ready /\ Unused(rt.leases, rt.pendings - 1) /\ StartedForTasks
    <3>1. rt' = [ rt EXCEPT !.pendings = rt.pendings - 1, !.stopping = rt.stopping \/ u ]
      BY <1>a, <2>6 DEF CancelPending, Runtime
    <3> HIDE DEF u
    <3>2. u BY <1>a, <3>1 DEF Runtime
    <3> QED BY <3>2 DEF u, StartedForTasks
  <2> QED BY <1>2, <2>1, <2>2, <2>3, <2>4, <2>5, <2>6 DEF Enters
<1>3. ASSUME NEW c \in Calls, Starts(c) PROVE FALSE
  <2>1. CASE Probe(c) \/ Launch(c) \/ PollReady(c) \/ StartTimesOut(c)
    BY <2>1 DEF Probe, Launch, PollReady, StartTimesOut
  <2>2. CASE StartSucceeds(c) BY <1>a, <2>2 DEF StartSucceeds, Runtime
  <2>3. CASE StartFails(c) BY <1>a, <2>3 DEF StartFails, Runtime
  <2> QED BY <1>3, <2>1, <2>2, <2>3 DEF Starts
<1>4. ASSUME NEW c \in Calls, Ends(c)
      PROVE  \/ rt.autoStarted /\ ~ rt.keepLoaded
             \/ pc[c] = "stop" /\ pc'[c] = "unloading"
  <2>1. CASE AbandonLease(c) \/ RefuseManualStop(c) \/ ScriptEnds(c) \/ ScriptTimesOut(c)
    BY <2>1 DEF AbandonLease, RefuseManualStop, ScriptEnds, ScriptTimesOut
  <2>2. CASE ReleaseLease(c)
    <3> DEFINE u == Unused(rt.leases - 1, rt.pendings) /\ StartedForTasks
    <3>1. rt' = [ rt EXCEPT !.leases = rt.leases - 1, !.stopping = rt.stopping \/ u ]
      BY <1>a, <2>2 DEF ReleaseLease, Runtime
    <3> HIDE DEF u
    <3>2. u BY <1>a, <3>1 DEF Runtime
    <3> QED BY <3>2 DEF u, StartedForTasks
  <2>3. CASE BeginManualStop(c) BY <1>a, <2>3 DEF BeginManualStop
  <2>4. CASE FinishUnload(c) BY <1>a, <2>4 DEF FinishUnload, Runtime
  <2> QED BY <1>4, <2>1, <2>2, <2>3, <2>4 DEF Ends
<1>5. ASSUME NEW c \in Calls, Arrive(c) \/ WaitTimesOut(c) \/ Disconnect(c) PROVE FALSE
  BY <1>5 DEF Arrive, WaitTimesOut, Disconnect
<1> QED BY <1>1, <1>2, <1>3, <1>4, <1>5 DEF Next

\* A server that was found running, or that a user's load has had a lease of, is
\* stopped by a user only: a stop that begins by itself needs autoStarted without
\* keepLoaded, and these flags know of every server found and of every such load.
THEOREM KeptAlwaysStays == Spec => KeptLoadedStays
<1>1. VInv /\ Origins /\ [Next]_vars =>
        [ ~ rt.stopping /\ rt'.stopping =>
            \/ ~ found /\ loads = {}
            \/ \E c \in Calls : pc[c] = "stop" /\ pc'[c] = "unloading" ]_vars
  BY StopsAre DEF Origins
<1> QED BY <1>1, InvariantHolds, OriginsHold, PTL DEF Spec, KeptLoadedStays

\* The phase, flag by flag.
LEMMA PhaseIs ==
  /\ rt.starting => Phase = "starting"
  /\ ~ rt.starting /\ rt.stopping => Phase = "stopping"
  /\ ~ rt.starting /\ ~ rt.stopping /\ rt.ready => Phase = "up"
  /\ ~ rt.starting /\ ~ rt.stopping /\ ~ rt.ready => Phase = "down"
  BY DEF Phase

\* The next phase, flag by flag.
LEMMA PhaseWillBe ==
  /\ rt'.starting => Phase' = "starting"
  /\ ~ rt'.starting /\ rt'.stopping => Phase' = "stopping"
  /\ ~ rt'.starting /\ ~ rt'.stopping /\ rt'.ready => Phase' = "up"
  /\ ~ rt'.starting /\ ~ rt'.stopping /\ ~ rt'.ready => Phase' = "down"
  BY DEF Phase

\* The steps that neither give nor take a lease leave the users alone.
LEMMA UsersStay ==
  ASSUME Typed, NEW c \in Calls,
         \/ Arrive(c) \/ SeeStartFailure(c) \/ AwaitStop(c) \/ AwaitStart(c) \/ Refuse(c) \/ Wake(c)
         \/ WaitTimesOut(c) \/ CancelPending(c) \/ Probe(c) \/ Launch(c) \/ PollReady(c)
         \/ StartTimesOut(c) \/ AbandonLease(c) \/ RefuseManualStop(c) \/ ScriptEnds(c)
         \/ ScriptTimesOut(c) \/ Disconnect(c) \/ BeginGeneration(c) \/ BeginManualStop(c) \/ FinishUnload(c)
  PROVE  CallUsers' = CallUsers
<1> USE DEF Goto, Has, Finish, FailWith, history
<1>1. pc \in [ Calls -> PCs ] BY DEF Typed
<1>2. \A d \in Calls : d # c => pc'[d] = pc[d] /\ (d \in leaked' <=> d \in leaked)
  BY <1>1 DEF Arrive, SeeStartFailure, AwaitStop, AwaitStart, Refuse, Wake, WaitTimesOut,
              CancelPending, Probe, Launch, PollReady, StartTimesOut, AbandonLease,
              RefuseManualStop, ScriptEnds, ScriptTimesOut, AtScript, Disconnect, BeginGeneration, BeginManualStop,
              FinishUnload
<1>3. pc'[c] # "using" /\ (c \in leaked' <=> c \in leaked \/ pc[c] = "using")
  BY <1>1 DEF Arrive, SeeStartFailure, AwaitStop, AwaitStart, Refuse, Wake, WaitTimesOut,
              CancelPending, Probe, Launch, PollReady, StartTimesOut, AbandonLease,
              RefuseManualStop, ScriptEnds, ScriptTimesOut, AtScript, Disconnect, BeginGeneration, BeginManualStop,
              FinishUnload, GoesOn
<1>4. leaked \subseteq Calls /\ leaked' \subseteq Calls
  BY DEF Typed, Arrive, SeeStartFailure, AwaitStop, AwaitStart, Refuse, Wake, WaitTimesOut,
         CancelPending, Probe, Launch, PollReady, StartTimesOut, AbandonLease, RefuseManualStop,
         ScriptEnds, ScriptTimesOut, Disconnect, BeginGeneration, BeginManualStop, FinishUnload
<1> QED BY <1>2, <1>3, <1>4 DEF CallUsers, Holders

\* A step of the coordinator is a step of the resource, or none.
Promised == [Resource!Next]_(Resource!vars)

\* A step that changes neither the users nor the phase is no step of the resource.
LEMMA NothingPromised ==
  ASSUME CallUsers' = CallUsers, Phase' = Phase
  PROVE  Promised
  BY DEF Promised, Resource!vars, CallUsers

\* Using a server, beginning a start, and stopping after the last reservation.
LEMMA EntersPromised == ASSUME VInv, Typed', NEW c \in Calls, Enters(c) PROVE Promised
<1>a. Typed /\ Modes /\ Holding BY DEF VInv
<1>b. rt.leases \in Nat /\ rt.pendings \in Nat BY CountsAreRight
<1> USE DEF Goto
<1>1. CASE SeeStartFailure(c) \/ AwaitStop(c) \/ Refuse(c) \/ Wake(c)
  <2>1. rt' = rt BY <1>1 DEF SeeStartFailure, AwaitStop, Refuse, Wake
  <2>2. Phase' = Phase BY <2>1 DEF Phase
  <2> QED BY <1>1, <1>a, <2>2, UsersStay, NothingPromised
<1>2. CASE ActivatePending(c) \/ ShareLease(c)
  <2>1. pc[c] = "entry" /\ ~ rt.starting /\ ~ rt.stopping /\ rt.ready
    <3>1. CASE ActivatePending(c)
      BY <1>a, <1>b, <3>1 DEF ActivatePending, Activatable, Decided, Modes
    <3>2. CASE ShareLease(c)
      BY <1>a, <1>b, <3>2 DEF ShareLease, Shared, GoesOn, Modes
    <3> QED BY <1>2, <3>1, <3>2
  <2>2. /\ rt'.starting = rt.starting /\ rt'.stopping = rt.stopping /\ rt'.ready = rt.ready
        /\ UNCHANGED leaked
    BY <1>2, <1>a DEF ActivatePending, ShareLease, Typed, Runtime, history
  <2>3. Phase = "up" /\ Phase' = "up" BY <2>1, <2>2, PhaseIs, PhaseWillBe
  <2>4. CallUsers' = CallUsers \cup { c }
    BY <1>2, <1>a, <2>2 DEF ActivatePending, ShareLease, CallUsers, Holders, Typed
  <2>5. c \notin CallUsers BY <1>a, <2>1 DEF CallUsers, Holders, Holding
  <2>6. Resource!Use(c) BY <2>3, <2>4, <2>5 DEF Resource!Use, CallUsers
  <2> QED BY <2>6 DEF Promised, Resource!Next
<1>3. CASE AwaitStart(c)
  <2>1. rt'.starting = rt.starting /\ rt'.stopping = rt.stopping /\ rt'.ready = rt.ready
    BY <1>3, <1>a DEF AwaitStart, Typed, Runtime
  <2>2. Phase' = Phase BY <2>1 DEF Phase
  <2> QED BY <1>3, <1>a, <2>2, UsersStay, NothingPromised
<1>4. CASE BeginGeneration(c)
  <2>1. ~ rt.starting /\ ~ rt.stopping /\ rt'.starting BY <1>4 DEF BeginGeneration
  <2>2. rt.leases = 0 BY <1>4, <1>a, <1>b, <2>1 DEF BeginGeneration, Refused, Shared, Modes
  <2>3. CallUsers = {} BY <2>2, CountsAreRight DEF CallUsers
  <2>4. CallUsers' = CallUsers BY <1>4, <1>a, UsersStay
  <2>5. Phase \in { "up", "down" } /\ Phase' = "starting" BY <2>1, PhaseIs, PhaseWillBe
  <2>6. Resource!Begin BY <2>3, <2>4, <2>5 DEF Resource!Begin, Resource!Idle, CallUsers
  <2> QED BY <2>6 DEF Promised, Resource!Next
<1>5. CASE CancelPending(c)
  <2> DEFINE u == rt.ready /\ Unused(rt.leases, rt.pendings - 1) /\ StartedForTasks
  <2>1. CallUsers' = CallUsers BY <1>5, <1>a, UsersStay
  <2>2. CASE ~ (gen[c] = rt.generation /\ rt.pendings > 0)
    <3>1. rt' = rt BY <1>5, <2>2 DEF CancelPending
    <3>2. Phase' = Phase BY <3>1 DEF Phase
    <3> QED BY <2>1, <3>2, NothingPromised
  <2>3. CASE gen[c] = rt.generation /\ rt.pendings > 0
    <3>1. rt' = [ rt EXCEPT !.pendings = rt.pendings - 1, !.stopping = rt.stopping \/ u ]
      BY <1>5, <1>a, <2>3 DEF CancelPending, Typed, Runtime
    <3>2. u => rt.ready /\ rt.leases = 0 BY DEF Unused
    <3>3. ~ rt.stopping BY <1>a, <1>b, <2>3 DEF Modes
    <3> HIDE DEF u
    <3>4. rt'.starting = rt.starting /\ (rt'.stopping <=> u) /\ rt'.ready = rt.ready
      BY <1>a, <3>1, <3>3 DEF Typed, Runtime
    <3>5. CASE u
      <4>1. ~ rt.starting BY <1>a, <3>2, <3>5 DEF Modes
      <4>2. Phase = "up" /\ Phase' = "stopping"
        BY <3>2, <3>3, <3>4, <3>5, <4>1, PhaseIs, PhaseWillBe
      <4>3. CallUsers = {} BY <3>2, <3>5, CountsAreRight DEF CallUsers
      <4>4. Resource!Stop BY <2>1, <4>2, <4>3 DEF Resource!Stop, Resource!Idle, CallUsers
      <4> QED BY <4>4 DEF Promised, Resource!Next
    <3>6. CASE ~ u
      <4>1. Phase' = Phase BY <3>3, <3>4, <3>6 DEF Phase
      <4> QED BY <2>1, <4>1, NothingPromised
    <3> QED BY <3>5, <3>6
  <2> QED BY <2>2, <2>3
<1> QED BY <1>1, <1>2, <1>3, <1>4, <1>5 DEF Enters

\* A start that succeeds or fails.
LEMMA StartsPromised == ASSUME VInv, Typed', NEW c \in Calls, Starts(c) PROVE Promised
<1>a. Typed /\ Modes /\ Owners BY DEF VInv
<1>1. CASE Probe(c) \/ Launch(c) \/ PollReady(c) \/ StartTimesOut(c)
  <2>1. rt' = rt BY <1>1 DEF Probe, Launch, PollReady, StartTimesOut
  <2>2. Phase' = Phase BY <2>1 DEF Phase
  <2> QED BY <1>1, <1>a, <2>2, UsersStay, NothingPromised
<1>2. CASE StartSucceeds(c) \/ StartFails(c)
  <2>1. rt.starting /\ gen[c] = rt.generation
    BY <1>2, <1>a DEF StartSucceeds, StartFails, Owners, Starting, Outcomes
  <2>2. rt.leases = 0 /\ ~ rt.stopping BY <1>a, <2>1 DEF Modes
  <2>3. Holders = {} /\ leaked = {} /\ Phase = "starting" BY <2>1, <2>2, CountsAreRight, PhaseIs
  <2>4. CASE StartSucceeds(c)
    <3> DEFINE b == pc[c] = "launched"
    <3>1. rt' = [ rt EXCEPT !.starting = FALSE, !.ready = TRUE, !.autoStarted = b,
                            !.leases = 1, !.startFailed = FALSE ]
      BY <2>1, <2>4 DEF StartSucceeds
    <3> HIDE DEF b
    <3>2. ~ rt'.starting /\ rt'.ready /\ ~ rt'.stopping
      BY <1>a, <2>2, <3>1 DEF Typed, Runtime
    <3>3. Phase' = "up" BY <3>2, PhaseWillBe
    <3>4. CallUsers' = { c }
      BY <1>a, <2>1, <2>3, <2>4 DEF StartSucceeds, CallUsers, Holders, Goto, Typed
    <3>5. Resource!Started(c) BY <2>3, <3>3, <3>4 DEF Resource!Started, CallUsers
    <3> QED BY <3>5 DEF Promised, Resource!Next
  <2>5. CASE StartFails(c)
    <3> DEFINE b == pc[c] = "notcleaned"
               k == IF b THEN rt.key ELSE NoKey
    <3>1. rt' = [ rt EXCEPT !.starting = FALSE, !.ready = FALSE, !.leases = 0, !.pendings = 0,
                            !.keepLoaded = FALSE, !.startFailed = TRUE, !.key = k,
                            !.autoStarted = b ]
      BY <1>a, <2>1, <2>5 DEF StartFails, Typed, Runtime
    <3> HIDE DEF b, k
    <3>2. ~ rt'.starting /\ ~ rt'.ready /\ ~ rt'.stopping
      BY <1>a, <2>2, <3>1 DEF Typed, Runtime
    <3>3. Phase' = "down" BY <3>2, PhaseWillBe
    <3>4. CallUsers' = {} /\ CallUsers = {}
      BY <1>a, <2>1, <2>3, <2>5
         DEF StartFails, CallUsers, Holders, Finish, Goto, history, Typed
    <3>5. Resource!NotStarted BY <2>3, <3>3, <3>4 DEF Resource!NotStarted, CallUsers
    <3> QED BY <3>5 DEF Promised, Resource!Next
  <2> QED BY <1>2, <2>4, <2>5
<1> QED BY <1>1, <1>2 DEF Starts

\* Leaving, stopping, and a stop that ends.
LEMMA EndsPromised == ASSUME VInv, Typed', NEW c \in Calls, Ends(c) PROVE Promised
<1>a. Typed /\ Modes /\ Owners /\ Holding BY DEF VInv
<1>b. rt.leases \in Nat /\ rt.pendings \in Nat BY CountsAreRight
<1>1. CASE AbandonLease(c) \/ RefuseManualStop(c) \/ ScriptEnds(c) \/ ScriptTimesOut(c)
  <2>1. rt' = rt BY <1>1 DEF AbandonLease, RefuseManualStop, ScriptEnds, ScriptTimesOut
  <2>2. Phase' = Phase BY <2>1 DEF Phase
  <2> QED BY <1>1, <1>a, <2>2, UsersStay, NothingPromised
<1>2. CASE ReleaseLease(c)
  <2> DEFINE u == Unused(rt.leases - 1, rt.pendings) /\ StartedForTasks
  <2>1. pc[c] = "using" /\ gen[c] = rt.generation
    BY <1>2, <1>a DEF ReleaseLease, Holding, Holders
  <2>2. /\ c \in CallUsers /\ c \notin leaked /\ IsFiniteSet(CallUsers)
        /\ rt.leases = Cardinality(CallUsers)
    BY <1>a, <2>1, CountsAreRight DEF CallUsers, Holders, Holding
  <2>3. rt.leases > 0 BY <1>b, <2>2, FS_EmptySet
  <2>4. ~ rt.starting /\ ~ rt.stopping /\ rt.ready BY <1>a, <1>b, <2>3 DEF Modes
  <2>5. rt' = [ rt EXCEPT !.leases = rt.leases - 1, !.stopping = rt.stopping \/ u ]
    BY <1>2, <1>a, <2>1, <2>3 DEF ReleaseLease, Typed, Runtime
  <2>6. u => rt.leases = 1 BY <1>b DEF Unused
  <2>7. CallUsers' = CallUsers \ { c }
    BY <1>2, <1>a, <2>2
       DEF ReleaseLease, CallUsers, Holders, Finish, Goto, history, Typed
  <2> HIDE DEF u
  <2>8. rt'.starting = rt.starting /\ (rt'.stopping <=> u) /\ rt'.ready = rt.ready
    BY <1>a, <2>4, <2>5 DEF Typed, Runtime
  <2>9. u => CallUsers = { c }
    <3>1. SUFFICES ASSUME u PROVE CallUsers = { c } OBVIOUS
    <3>2. Cardinality(CallUsers \ { c }) = 0 /\ IsFiniteSet(CallUsers \ { c })
      BY <2>2, <2>6, <3>1, FS_RemoveElement
    <3>3. CallUsers \ { c } = {} BY <3>2, FS_EmptySet
    <3> QED BY <2>2, <3>3
  <2>10. Phase = "up" /\ Phase' = IF u THEN "stopping" ELSE "up"
    BY <2>4, <2>8, PhaseIs, PhaseWillBe
  <2>11. Resource!Leave(c) BY <2>2, <2>7, <2>9, <2>10 DEF Resource!Leave, CallUsers
  <2> QED BY <2>11 DEF Promised, Resource!Next
<1>3. CASE BeginManualStop(c)
  <2>1. ~ rt.starting /\ ~ rt.stopping /\ rt.leases = 0 BY <1>3 DEF BeginManualStop, Unused
  <2>2. rt'.stopping /\ ~ rt'.starting
    BY <1>3, <1>a, <2>1 DEF BeginManualStop, Typed, Runtime
  <2>3. Phase \in { "up", "down" } /\ Phase' = "stopping" BY <2>1, <2>2, PhaseIs, PhaseWillBe
  <2>4. CallUsers = {} BY <2>1, CountsAreRight DEF CallUsers
  <2>5. CallUsers' = CallUsers BY <1>3, <1>a, UsersStay
  <2>6. Resource!Stop BY <2>3, <2>4, <2>5 DEF Resource!Stop, Resource!Idle, CallUsers
  <2> QED BY <2>6 DEF Promised, Resource!Next
<1>4. CASE FinishUnload(c)
  <2>1. rt.stopping /\ gen[c] = rt.generation
    BY <1>4, <1>a DEF FinishUnload, Owners, Stopping
  <2>2. ~ rt.starting BY <1>a, <2>1 DEF Modes
  <2>3. ~ rt'.starting /\ ~ rt'.stopping
    <3>1. CASE pc[c] = "unloaded" BY <1>4, <2>1, <2>2, <3>1 DEF FinishUnload
    <3>2. CASE pc[c] # "unloaded"
      <4>1. rt' = [ rt EXCEPT !.stopping = FALSE ] BY <1>4, <2>1, <3>2 DEF FinishUnload
      <4> QED BY <1>a, <2>2, <4>1 DEF Typed, Runtime
    <3> QED BY <3>1, <3>2
  <2>4. Phase = "stopping" /\ Phase' \in { "up", "down" } BY <2>1, <2>2, <2>3, PhaseIs, PhaseWillBe
  <2>5. CallUsers' = CallUsers BY <1>4, <1>a, UsersStay
  <2>6. Resource!Stopped BY <2>4, <2>5 DEF Resource!Stopped, CallUsers
  <2> QED BY <2>6 DEF Promised, Resource!Next
<1> QED BY <1>1, <1>2, <1>3, <1>4 DEF Ends

\* The runtime keeps the promise of a shared resource: it is used only while it is
\* up, and nobody stops it or starts it anew under a user.
THEOREM RuntimeIsSharedResource == Spec => ResourceSpec
<1>1. Init => Resource!Init
  <2> SUFFICES ASSUME Init PROVE Resource!Init OBVIOUS
  <2>1. Phase = "down" BY PhaseIs DEF Init
  <2>2. Holders \cup leaked = {} BY DEF Init, Holders
  <2> QED BY <2>1, <2>2 DEF Resource!Init
<1>2. VInv /\ [Next]_vars => [Resource!Next]_(Resource!vars)
  <2> SUFFICES ASSUME VInv, [Next]_vars PROVE Promised BY DEF Promised
  <2>a. Typed /\ Typed' BY TypedInductive DEF VInv
  <2>1. CASE UNCHANGED vars \/ \E c \in Calls : StrayScriptEnds(c)
    <3>1. UNCHANGED << pc, rt, leaked >> BY <2>1 DEF vars, StrayScriptEnds, history
    <3>2. CallUsers' = CallUsers /\ Phase' = Phase
      BY <3>1 DEF CallUsers, Holders, Phase
    <3> QED BY <3>2, NothingPromised
  <2>2. ASSUME NEW c \in Calls, Enters(c) PROVE Promised BY <2>a, <2>2, EntersPromised
  <2>3. ASSUME NEW c \in Calls, Starts(c) PROVE Promised BY <2>a, <2>3, StartsPromised
  <2>4. ASSUME NEW c \in Calls, Ends(c) PROVE Promised BY <2>a, <2>4, EndsPromised
  <2>5. ASSUME NEW c \in Calls, Arrive(c) \/ WaitTimesOut(c) \/ Disconnect(c) PROVE Promised
    <3>1. rt' = rt BY <2>5 DEF Arrive, WaitTimesOut, Disconnect
    <3>2. Phase' = Phase BY <3>1 DEF Phase
    <3> QED BY <2>5, <2>a, <3>2, UsersStay, NothingPromised
  <2> QED BY <2>1, <2>2, <2>3, <2>4, <2>5 DEF Next
<1> QED BY <1>1, <1>2, InvariantHolds, PTL DEF Spec, ResourceSpec, Resource!Spec
=============================================================================
