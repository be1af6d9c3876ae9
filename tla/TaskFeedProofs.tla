--------------------------- MODULE TaskFeedProofs ---------------------------
(***************************************************************************)
(* Proofs about the event feed, for any number of tasks, any capacities of *)
(* the replay buffer and the channel, any number of changes, restarts and  *)
(* faults: the stream leaves out no event in silence but after an overrun  *)
(* of the buffer, the page's position claims nothing the page does not     *)
(* have, and nothing the page shows goes back.  A restarted server counts  *)
(* on from the sum of the revisions; that this is a number comes first, on *)
(* the way TaskManagerProofs takes to sums over its rows.                  *)
(***************************************************************************)
EXTENDS TaskFeed, SequenceTheorems, FiniteSetTheorems, WellFoundedInduction, TLAPS

-----------------------------------------------------------------------------
(* Sums of revisions.                                                       *)

\* A set of numbers that is not empty has a least one.
LEMMA LeastNumber ==
  ASSUME NEW T \in SUBSET Nat, T # {}
  PROVE  \E n \in T : \A m \in T : n <= m
<1> DEFINE S == FiniteSubsetsOf(Nat)
           R == StrictSubsetOrdering(Nat)
           U == { 1 .. n : n \in T }
<1>1. IsWellFoundedOn(R, S) BY FS_StrictSubsetOrderingWellFounded
<1>2. U \subseteq S
  <2>1. ASSUME NEW n \in T PROVE 1 .. n \in S
    <3>1. n \in Int /\ 1 \in Int OBVIOUS
    <3>2. IsFiniteSet(1 .. n) BY <3>1, FS_Interval
    <3> QED BY <3>2 DEF FiniteSubsetsOf
  <2> QED BY <2>1
<1>3. U # {} OBVIOUS
<1> HIDE DEF S, R
<1>4. PICK x \in U : \A y \in U : ~ (<< y, x >> \in R)
  <2> HIDE DEF U
  <2> QED BY <1>1, <1>2, <1>3, WFMin
<1>5. PICK n \in T : x = 1 .. n BY <1>4
<1>6. ASSUME NEW m \in T PROVE n <= m
  <2>1. SUFFICES ASSUME ~ (n <= m) PROVE FALSE OBVIOUS
  <2>2. 1 .. m \in U OBVIOUS
  <2>3. (1 .. m) \subseteq (1 .. n) /\ (1 .. m) # (1 .. n)
    <3>1. n \in 1 .. n /\ n \notin 1 .. m BY <2>1
    <3> QED BY <2>1, <3>1
  <2>4. << 1 .. m, 1 .. n >> \in R
    BY <2>3 DEF R, StrictSubsetOrdering
  <2> QED BY <1>4, <1>5, <2>2, <2>4
<1> QED BY <1>6

\* Among some subsets of a finite set there is one none of whose members can be
\* left out; this is how the sums are reasoned about, instead of by induction.
LEMMA SmallestSet ==
  ASSUME NEW S, IsFiniteSet(S), NEW B \in SUBSET SUBSET S, B # {}
  PROVE  \E s \in B : \A x \in s : s \ { x } \notin B
<1> DEFINE F == FiniteSubsetsOf(S)
           R == StrictSubsetOrdering(S)
<1>1. IsWellFoundedOn(R, F) BY FS_StrictSubsetOrderingWellFounded
<1>2. B \subseteq F
  <2>1. ASSUME NEW s \in B PROVE s \in F
    <3>1. IsFiniteSet(s) BY FS_Subset
    <3> QED BY <3>1 DEF FiniteSubsetsOf
  <2> QED BY <2>1
<1> HIDE DEF F, R
<1>3. PICK s \in B : \A u \in B : ~ (<< u, s >> \in R)
  BY <1>1, <1>2, WFMin
<1>4. ASSUME NEW x \in s, s \ { x } \in B PROVE FALSE
  <2>1. << s \ { x }, s >> \in R
    <3>1. s \ {x} \subseteq s /\ s \ {x} # s OBVIOUS
    <3>2. s \in SUBSET S /\ s \ {x} \in SUBSET S OBVIOUS
    <3> QED BY <3>1, <3>2 DEF R, StrictSubsetOrdering
  <2> QED BY <1>3, <1>4, <2>1
<1> QED BY <1>4

\* g adds up the revisions r gives the members of every subset of S.
Sums(g, r, S) ==
  g = [ s \in SUBSET S |->
         IF s = {} THEN 0
         ELSE r[CHOOSE x \in s : TRUE].rev + g[s \ { CHOOSE x \in s : TRUE }] ]

\* Such a function exists: its values for the sets of one size come from those for
\* the smaller ones.
LEMMA SumsExist ==
  ASSUME NEW r, NEW S, IsFiniteSet(S)
  PROVE  \E g : Sums(g, r, S)
<1> DEFINE Up(n) == { s \in SUBSET S : Cardinality(s) <= n }
           G(g, n) == g = [ s \in Up(n) |->
                             IF s = {} THEN 0
                             ELSE r[CHOOSE x \in s : TRUE].rev
                                    + g[s \ { CHOOSE x \in s : TRUE }] ]
           T == { n \in Nat : ~ \E g : G(g, n) }
<1>c. \A s \in SUBSET S : IsFiniteSet(s) /\ Cardinality(s) \in Nat
  BY FS_Subset, FS_CardinalityType
<1>1. T = {}
  <2>1. SUFFICES ASSUME T # {} PROVE FALSE OBVIOUS
  <2>2. PICK n \in T : \A m \in T : n <= m
    BY <2>1, LeastNumber
  <2>3. n # 0
    <3>1. ASSUME NEW s \in Up(0) PROVE s = {}
      <4>1. Cardinality(s) = 0 BY <1>c
      <4> QED BY <4>1, <1>c, FS_EmptySet
    <3>2. G([ s \in Up(0) |-> 0 ], 0) BY <3>1
    <3> HIDE DEF G
    <3> QED BY <3>2
  <2>4. n - 1 \in Nat /\ n - 1 \notin T
    <3>1. T \subseteq Nat OBVIOUS
    <3> HIDE DEF T
    <3>2. n - 1 \in Nat BY <2>2, <2>3, <3>1
    <3> QED BY <2>2, <3>1, <3>2
  <2>5. PICK g : G(g, n - 1) BY <2>4
  <2> DEFINE h == [ s \in Up(n) |->
                             IF s = {} THEN 0
                             ELSE r[CHOOSE x \in s : TRUE].rev
                                    + g[s \ { CHOOSE x \in s : TRUE }] ]
  <2>6. ASSUME NEW s \in Up(n - 1) PROVE s \in Up(n) /\ h[s] = g[s]
    <3>1. s \in Up(n) BY <1>c, <2>4
    <3> QED BY <3>1, <2>5
  <2>7. ASSUME NEW s \in Up(n), s # {}
        PROVE s \ { CHOOSE x \in s : TRUE } \in Up(n - 1)
    <3> DEFINE y == CHOOSE x \in s : TRUE
    <3>1. y \in s BY <2>7
    <3> HIDE DEF y
    <3>2. Cardinality(s \ { y }) = Cardinality(s) - 1
      BY <1>c, <3>1, FS_RemoveElement
    <3>3. s \ { y } \in SUBSET S OBVIOUS
    <3>4. s \ { y } \in Up(n - 1) BY <1>c, <3>2, <3>3, <2>4
    <3> QED BY <3>4 DEF y
  <2>8. G(h, n)
    <3>1. ASSUME NEW s \in Up(n), s # {}
          PROVE  g[s \ { CHOOSE x \in s : TRUE }] = h[s \ { CHOOSE x \in s : TRUE }]
      <4> HIDE DEF h
      <4> QED BY <2>6, <2>7, <3>1
    <3> DEFINE A(s) == IF s = {} THEN 0
                       ELSE r[CHOOSE x \in s : TRUE].rev
                                    + g[s \ { CHOOSE x \in s : TRUE }]
               B(s) == IF s = {} THEN 0
                       ELSE r[CHOOSE x \in s : TRUE].rev
                                    + h[s \ { CHOOSE x \in s : TRUE }]
    <3>2. ASSUME NEW s \in Up(n) PROVE A(s) = B(s)
      <4>1. CASE s = {} BY <4>1
      <4>2. CASE s # {}
        <5>1. g[s \ { CHOOSE x \in s : TRUE }] = h[s \ { CHOOSE x \in s : TRUE }]
          BY <3>1, <4>2
        <5> HIDE DEF h
        <5> QED BY <5>1
      <4> QED BY <4>1, <4>2
    <3>3. h = [ s \in Up(n) |-> A(s) ] OBVIOUS
    <3> HIDE DEF A, B, Up, h
    <3>4. h = [ s \in Up(n) |-> B(s) ] BY <3>2, <3>3
    <3> QED BY <3>4 DEF B
  <2> HIDE DEF G, h
  <2> QED BY <2>8, <2>2
<1>2. Cardinality(S) \in Nat BY FS_CardinalityType
<1>3. PICK g : G(g, Cardinality(S)) BY <1>1, <1>2
<1>4. Up(Cardinality(S)) = SUBSET S
  <2> SUFFICES ASSUME NEW s \in SUBSET S PROVE s \in Up(Cardinality(S)) OBVIOUS
  <2> QED BY FS_Subset, <1>c
<1> QED BY <1>3, <1>4 DEF Sums

\* What g makes of one set: nothing, or one member and the rest.
LEMMA SumsStep ==
  ASSUME NEW r, NEW S, NEW g, Sums(g, r, S), NEW s \in SUBSET S
  PROVE  /\ s = {} => g[s] = 0
         /\ s # {} => LET y == CHOOSE x \in s : TRUE
                      IN  y \in s /\ g[s] = r[y].rev + g[s \ { y }]
<1>1. g[s] = IF s = {} THEN 0
             ELSE r[CHOOSE x \in s : TRUE].rev + g[s \ { CHOOSE x \in s : TRUE }]
  BY DEF Sums
<1> QED BY <1>1

\* The sums are numbers.
LEMMA SumsAreNat ==
  ASSUME NEW S, IsFiniteSet(S), NEW r, \A t \in S : r[t].rev \in Nat, NEW g, Sums(g, r, S)
  PROVE  \A s \in SUBSET S : g[s] \in Nat
<1> DEFINE B == { s \in SUBSET S : g[s] \notin Nat }
<1>1. SUFFICES ASSUME B # {} PROVE FALSE OBVIOUS
<1>2. PICK s \in B : \A x \in s : s \ { x } \notin B
  BY <1>1, SmallestSet
<1>3. s # {}
  <2>1. s = {} => g[s] = 0 BY SumsStep
  <2> QED BY <2>1
<1> DEFINE y == CHOOSE x \in s : TRUE
<1>4. y \in s /\ g[s] = r[y].rev + g[s \ { y }] BY <1>3, SumsStep
<1> HIDE DEF y
<1>5. g[s \ { y }] \in Nat BY <1>2, <1>4
<1>6. r[y].rev \in Nat BY <1>4
<1> QED BY <1>4, <1>5, <1>6

\* The tasks are numbers.
LEMMA TasksAreFinite == IsFiniteSet(Tasks)
<1>1. NumTasks \in Int /\ 1 \in Int BY TaskFeedAssumption
<1> QED BY <1>1, FS_Interval DEF Tasks

\* What a restarted server takes for the number of the last event.
SumOf(r) == FoldFunction(LAMBDA e, n : e.rev + n, 0, r)

\* It is what a function like g gives for all tasks.
LEMMA SumIsSums ==
  ASSUME NEW r, DOMAIN r = Tasks
  PROVE \E g : Sums(g, r, Tasks) /\ SumOf(r) = g[Tasks]
<1> DEFINE h == CHOOSE g : g = [ s \in SUBSET Tasks |->
         IF s = {} THEN 0
         ELSE r[CHOOSE x \in s : TRUE].rev + g[s \ { CHOOSE x \in s : TRUE }] ]
<1>1. IsFiniteSet(Tasks) BY TasksAreFinite
<1>5. \E g : Sums(g, r, Tasks) BY <1>1, SumsExist
<1>2. \E g : g = [ s \in SUBSET Tasks |->
         IF s = {} THEN 0
         ELSE r[CHOOSE x \in s : TRUE].rev + g[s \ { CHOOSE x \in s : TRUE }] ]
  BY <1>5 DEF Sums
<1>3. h = [ s \in SUBSET Tasks |->
         IF s = {} THEN 0
         ELSE r[CHOOSE x \in s : TRUE].rev + h[s \ { CHOOSE x \in s : TRUE }] ]
  BY <1>2
<1>4. SumOf(r) = h[Tasks] BY DEF SumOf, FoldFunction, FoldFunctionOnSet, MapThenFoldSet
<1> HIDE DEF h
<1> QED BY <1>3, <1>4 DEF Sums

\* It is a number.
LEMMA SumIsNumber ==
  ASSUME NEW r \in [ Tasks -> Entry ]
  PROVE  SumOf(r) \in Nat
<1>1. DOMAIN r = Tasks /\ (\A t \in Tasks : r[t].rev \in Nat)
  BY DEF Entry
<1>2. PICK g : Sums(g, r, Tasks) /\ SumOf(r) = g[Tasks]
  BY <1>1, SumIsSums
<1>3. Tasks \in SUBSET Tasks
  OBVIOUS
<1> QED
  BY <1>1, <1>2, <1>3, TasksAreFinite, SumsAreNat

\* The order a restart takes the moved tasks in is a sequence of them.
LEMMA OrderIsOfMembers ==
  ASSUME NEW S \in SUBSET Tasks
  PROVE  /\ SetToSeq(S) \in Seq(S)
         /\ Len(SetToSeq(S)) \in Nat
         /\ \A i \in 1 .. Len(SetToSeq(S)) : SetToSeq(S)[i] \in S
<1>1. IsFiniteSet(S)
  BY TasksAreFinite, FS_Subset
<1> DEFINE n == Cardinality(S)
           f == SetToSeq(S)
<1>2. n \in Nat /\ ExistsBijection(1 .. n, S)
  BY <1>1, FS_CardinalityType
<1>3. \E h \in [ 1 .. n -> S ] : IsInjective(h)
  BY <1>2 DEF ExistsBijection, Bijection, Injection
<1>4. f \in [ 1 .. n -> S ]
  BY <1>3 DEF SetToSeq
<1> HIDE DEF n, f
<1>5. f \in Seq(S) /\ Len(f) = n
  BY <1>2, <1>4
<1>6. \A i \in 1 .. Len(f) : f[i] \in S
  BY <1>2, <1>4, <1>5
<1> QED
  BY <1>2, <1>5, <1>6 DEF f

-----------------------------------------------------------------------------
(* The strengthening.                                                       *)

\* The events of this server are numbered without a hole, and are about tasks.
Numbered ==
  \A i \in 1 .. Len(log) :
    /\ log[i].num = base + i
    /\ log[i].kind \in { "updated", "deleted" }
    /\ log[i].task \in Tasks

\* The events of a task come in the order of its revisions, none is ahead of the
\* task, and a deletion is the last of them.
Ordered ==
  /\ \A i \in 1 .. Len(log), j \in 1 .. Len(log) :
       i <= j /\ log[i].task = log[j].task =>
         /\ log[i].entry.rev <= log[j].entry.rev
         /\ log[i].kind = "deleted" => i = j
  /\ \A i \in 1 .. Len(log) :
       IF log[i].kind = "deleted" THEN log[i].task \in gone
       ELSE log[i].task \notin gone => log[i].entry.rev <= tasks[log[i].task].rev
  /\ \A t \in gone : tasks[t] = Absent

\* A frame is a resync frame or an event of this server.
FramesAreEvents ==
  \A i \in 1 .. Len(wire) :
    \/ wire[i].kind = "resync"
    \/ \E j \in 1 .. Len(log) : wire[i] = log[j]

\* The stream runs while the source is open, stands at the last frame it sent,
\* has read a number of this server before it looks into the buffer, and has
\* passed what it has heard from the channel when it listens there.
StreamStands ==
  /\ source # "open" => stream.pc = "none" /\ wire = << >>
  /\ wire # << >> => wire[Len(wire)].num = stream.last
  /\ stream.pos <= sent
  /\ stream.pc = "locked" => base <= stream.latest /\ stream.latest <= Sequence
  /\ stream.pc = "receive" => base + stream.pos <= stream.last

\* A snapshot on its way covers every event up to its number.
SyncCovers ==
  sync.state = "answered" =>
    /\ sync.num <= Sequence
    /\ \A i \in 1 .. Len(log) : log[i].num <= sync.num =>
         IF log[i].kind = "deleted" THEN sync.tasks[log[i].task] = Absent
         ELSE log[i].task \notin gone => sync.tasks[log[i].task].rev >= log[i].entry.rev

\* The page is ahead of the server only after a restart that numbers again, and
\* holds nothing back of a task whose deletion it has read.
PageStands ==
  /\ lastId <= Sequence \/ \E hole \in holes : hole.why = "renumbered"
  /\ \A t \in Tasks : ToldDeleted(t) /\ Followed => pending[t] = Absent

IInv ==
  /\ TypeOK
  /\ Numbered /\ Ordered
  /\ FramesAreEvents /\ StreamStands /\ StreamGapless
  /\ SyncCovers
  /\ PageStands /\ PositionCovered

-----------------------------------------------------------------------------
(* What the actions do.                                                     *)

\* What a change and a deletion do to the server.
Grows(t, kind, entry) ==
  /\ sent = Len(log)
  /\ tasks[t] # Absent \/ t \notin gone
  /\ IF kind = "deleted"
     THEN /\ tasks[t] # Absent /\ entry = tasks[t]
          /\ tasks' = [ tasks EXCEPT ![t] = Absent ] /\ gone' = gone \cup { t }
     ELSE /\ kind = "updated" /\ t \notin gone /\ entry.rev = tasks[t].rev + 1
          /\ tasks' = [ tasks EXCEPT ![t] = entry ] /\ gone' = gone
  /\ log' = Append(log, [ num |-> Sequence + 1, kind |-> kind, task |-> t, entry |-> entry ])
  /\ changes < MaxChanges /\ changes' = changes + 1
  /\ UNCHANGED << base, sent, stream, wire, known, lastId, pending, sync, source, error,
                  holes, faults >>

\* An entry is typed, and so is none.
LEMMA EntriesAreTyped ==
  /\ Absent \in Entry /\ Absent.rev = 0 /\ Absent.mood = "absent"
  /\ \A n \in Nat, m \in Moods : [ rev |-> n, mood |-> m ] \in Entry
  /\ \A e \in Entry : e.rev \in Nat /\ e.mood \in Moods \cup { "absent" }
BY DEF Entry, Absent, Moods

\* A method of the server changes one task, and the answer to the page may be on
\* its way.
LEMMA TaskStepGrows ==
  ASSUME TypeOK, NEW t \in Tasks, TaskStep(t)
  PROVE  /\ \E kind \in { "updated", "deleted" }, entry \in Entry : Grows(t, kind, entry)
         /\ answer' = answer \/ answer' \in [ task : Tasks \cup { 0 }, entry : Entry ]
<1>0. tasks \in [ Tasks -> Entry ] /\ tasks[t] \in Entry
  BY DEF TypeOK
<1>1. ASSUME NEW mood \in Moods, Change(t, mood),
             UNCHANGED << gone, base, sent, stream, wire, known, lastId, pending, sync,
                          source, error, holes, faults >>
      PROVE  /\ \E kind \in { "updated", "deleted" }, entry \in Entry : Grows(t, kind, entry)
             /\ tasks'[t] \in Entry
  <2> DEFINE entry == [ rev |-> tasks[t].rev + 1, mood |-> mood ]
  <2>1. entry \in Entry /\ entry.rev = tasks[t].rev + 1
    BY <1>0, EntriesAreTyped
  <2>2. /\ sent = Len(log) /\ t \notin gone
        /\ tasks' = [ tasks EXCEPT ![t] = entry ] /\ gone' = gone
        /\ log' = Append(log, [ num |-> Sequence + 1, kind |-> "updated", task |-> t,
                                entry |-> entry ])
        /\ changes < MaxChanges /\ changes' = changes + 1
    BY <1>1 DEF Change, Number, Unlocked
  <2> HIDE DEF entry
  <2>3. Grows(t, "updated", entry)
    BY <1>1, <2>1, <2>2 DEF Grows
  <2>4. tasks'[t] \in Entry
    BY <1>0, <2>1, <2>2
  <2> QED
    BY <2>1, <2>3, <2>4
<1>2. CASE ChangeTask(t)
  BY <1>1, <1>2 DEF ChangeTask, pageVars
<1>3. CASE ControlTask(t)
  <2>1. PICK mood \in Moods : Change(t, mood)
    BY <1>3 DEF ControlTask, Moods
  <2>2. /\ UNCHANGED << gone, base, sent, stream, wire, known, lastId, pending, sync,
                        source, error, holes, faults >>
        /\ answer' = [ task |-> t, entry |-> tasks'[t] ]
    BY <1>3 DEF ControlTask
  <2>3. /\ \E kind \in { "updated", "deleted" }, entry \in Entry : Grows(t, kind, entry)
        /\ tasks'[t] \in Entry
    BY <1>1, <2>1, <2>2
  <2> QED
    BY <2>2, <2>3
<1>4. CASE DeleteTask(t)
  <2>1. /\ sent = Len(log) /\ tasks[t].mood = "ended" /\ gone' = gone \cup { t }
        /\ tasks' = [ tasks EXCEPT ![t] = Absent ]
        /\ log' = Append(log, [ num |-> Sequence + 1, kind |-> "deleted", task |-> t,
                                entry |-> tasks[t] ])
        /\ changes < MaxChanges /\ changes' = changes + 1
        /\ UNCHANGED << base, sent, stream, wire, known, lastId, pending, sync, source,
                        error, answer, holes, faults >>
    BY <1>4 DEF DeleteTask, Number, Unlocked, pageVars
  <2>2. tasks[t] # Absent
    BY <2>1, EntriesAreTyped
  <2>3. Grows(t, "deleted", tasks[t])
    BY <2>1, <2>2 DEF Grows
  <2> QED
    BY <1>0, <2>1, <2>3
<1> QED
  BY <1>2, <1>3, <1>4 DEF TaskStep

\* The log after that: the same with one more event.
LEMMA GrowsLog ==
  ASSUME TypeOK, NEW t \in Tasks, NEW kind \in { "updated", "deleted" }, NEW entry \in Entry,
         Grows(t, kind, entry)
  PROVE  /\ log' \in Seq(Event)
         /\ Len(log) \in Nat /\ Len(log') = Len(log) + 1
         /\ \A i \in 1 .. Len(log) : log'[i] = log[i]
         /\ log'[Len(log) + 1].num = base + Len(log) + 1
         /\ log'[Len(log) + 1].kind = kind
         /\ log'[Len(log) + 1].task = t
         /\ log'[Len(log) + 1].entry = entry
         /\ Sequence' = Sequence + 1 /\ Sequence \in Nat /\ Sequence = base + Len(log)
<1> DEFINE event == [ num |-> Sequence + 1, kind |-> kind, task |-> t, entry |-> entry ]
<1>1. log \in Seq(Event) /\ base \in Nat /\ Len(log) \in Nat
  BY DEF TypeOK
<1>2. Sequence \in Nat /\ Sequence = base + Len(log)
  BY <1>1 DEF Sequence
<1>3. event \in Event
  BY <1>2 DEF Event
<1>4. event.num = base + Len(log) + 1 /\ event.kind = kind /\ event.task = t
      /\ event.entry = entry
  BY <1>2
<1>5. log' = Append(log, event) /\ base' = base
  BY DEF Grows
<1> HIDE DEF event
<1>6. log' \in Seq(Event) /\ Len(log') = Len(log) + 1
      /\ (\A i \in 1 .. Len(log) : log'[i] = log[i]) /\ log'[Len(log) + 1] = event
  BY <1>1, <1>3, <1>5
<1>7. Sequence' = Sequence + 1
  BY <1>1, <1>5, <1>6 DEF Sequence
<1> QED
  BY <1>1, <1>2, <1>4, <1>6, <1>7

-----------------------------------------------------------------------------
(* A change or a deletion on the server.                                    *)

\* The numbers go on by one.
LEMMA GrowsKeepsNumbered ==
  ASSUME TypeOK, Numbered, NEW t \in Tasks, NEW kind \in { "updated", "deleted" },
         NEW entry \in Entry, Grows(t, kind, entry)
  PROVE  Numbered'
<1> SUFFICES ASSUME NEW i \in 1 .. Len(log')
             PROVE  /\ log'[i].num = base' + i
                    /\ log'[i].kind \in { "updated", "deleted" }
                    /\ log'[i].task \in Tasks
  BY DEF Numbered
<1>1. /\ Len(log) \in Nat /\ Len(log') = Len(log) + 1
      /\ \A j \in 1 .. Len(log) : log'[j] = log[j]
      /\ log'[Len(log) + 1].num = base + Len(log) + 1
      /\ log'[Len(log) + 1].kind = kind
      /\ log'[Len(log) + 1].task = t
  BY GrowsLog
<1>2. base' = base /\ base \in Nat
  BY DEF Grows, TypeOK
<1>3. CASE i = Len(log) + 1
  BY <1>1, <1>2, <1>3
<1>4. CASE i # Len(log) + 1
  <2>1. i \in 1 .. Len(log)
    BY <1>1, <1>4
  <2> QED
    BY <1>1, <1>2, <2>1 DEF Numbered
<1> QED
  BY <1>3, <1>4

\* A deleted task is never heard of again, and a task's revisions go up.
LEMMA GrowsKeepsOrdered ==
  ASSUME TypeOK, Numbered, Ordered, NEW t \in Tasks, NEW kind \in { "updated", "deleted" },
         NEW entry \in Entry, Grows(t, kind, entry)
  PROVE  Ordered'
<1> DEFINE n == Len(log)
<1>1. /\ n \in Nat /\ Len(log') = n + 1
      /\ \A j \in 1 .. n : log'[j] = log[j]
      /\ log'[n + 1].kind = kind
      /\ log'[n + 1].task = t
      /\ log'[n + 1].entry = entry
  BY GrowsLog
<1>2. t \notin gone
  BY DEF Grows, Ordered
<1>3. /\ tasks[t].rev \in Nat /\ entry.rev \in Nat /\ tasks[t].rev <= entry.rev
      /\ \A u \in Tasks : tasks[u].rev \in Nat
  <2>1. \A u \in Tasks : tasks[u].rev \in Nat
    BY DEF TypeOK, Entry
  <2>2. entry.rev \in Nat
    BY DEF Entry
  <2>3. entry.rev = tasks[t].rev \/ entry.rev = tasks[t].rev + 1
    BY DEF Grows
  <2> QED
    BY <2>1, <2>2, <2>3
<1>4. /\ \A u \in Tasks : u # t => tasks'[u] = tasks[u]
      /\ kind = "updated" => tasks'[t] = entry /\ gone' = gone
      /\ kind = "deleted" => tasks'[t] = Absent /\ gone' = gone \cup { t }
  <2>1. tasks \in [ Tasks -> Entry ]
    BY DEF TypeOK
  <2> QED
    BY <2>1 DEF Grows
<1>5. \A i \in 1 .. n : log[i].entry.rev \in Nat /\ log[i].task \in Tasks
  <2>1. ASSUME NEW i \in 1 .. n PROVE log[i] \in Event
    BY <1>1 DEF TypeOK
  <2> QED
    BY <2>1 DEF Event, Entry, Numbered
<1>6. ASSUME NEW i \in 1 .. n, log[i].task = t
      PROVE  log[i].kind # "deleted" /\ log[i].entry.rev <= entry.rev
  <2>1. log[i].kind # "deleted" /\ log[i].entry.rev <= tasks[t].rev
    BY <1>2, <1>6 DEF Ordered
  <2> QED
    BY <1>3, <1>5, <2>1
<1> HIDE DEF n
<1>7. ASSUME NEW i \in 1 .. Len(log'), NEW j \in 1 .. Len(log'),
             i <= j, log'[i].task = log'[j].task
      PROVE  /\ log'[i].entry.rev <= log'[j].entry.rev
             /\ log'[i].kind = "deleted" => i = j
  <2>1. CASE i = n + 1
    <3>1. j = n + 1
      BY <1>1, <1>7, <2>1
    <3> QED
      BY <1>1, <1>3, <2>1, <3>1
  <2>2. CASE i # n + 1 /\ j = n + 1
    <3>1. i \in 1 .. n
      BY <1>1, <2>2
    <3> QED
      BY <1>1, <1>6, <1>7, <2>2, <3>1
  <2>3. CASE i # n + 1 /\ j # n + 1
    <3>1. i \in 1 .. n /\ j \in 1 .. n
      BY <1>1, <2>3
    <3> QED
      BY <1>1, <1>7, <3>1 DEF Ordered, n
  <2> QED
    BY <2>1, <2>2, <2>3
<1>8. ASSUME NEW i \in 1 .. Len(log')
      PROVE  IF log'[i].kind = "deleted" THEN log'[i].task \in gone'
             ELSE log'[i].task \notin gone' => log'[i].entry.rev <= tasks'[log'[i].task].rev
  <2>1. CASE i = n + 1
    BY <1>1, <1>3, <1>4, <2>1
  <2>2. CASE i # n + 1
    <3>1. i \in 1 .. n /\ log'[i] = log[i]
      BY <1>1, <2>2
    <3>2. IF log[i].kind = "deleted" THEN log[i].task \in gone
          ELSE log[i].task \notin gone => log[i].entry.rev <= tasks[log[i].task].rev
      BY <3>1 DEF Ordered, n
    <3>3. gone \subseteq gone'
      BY DEF Grows
    <3>4. CASE log[i].task = t
      BY <1>3, <1>4, <1>5, <1>6, <3>1, <3>2, <3>4
    <3>5. CASE log[i].task # t
      BY <1>4, <1>5, <3>1, <3>2, <3>3, <3>5
    <3> QED
      BY <3>4, <3>5
  <2> QED
    BY <2>1, <2>2
<1>9. \A u \in gone' : tasks'[u] = Absent
  BY <1>2, <1>4 DEF Ordered, TypeOK
<1> QED
  BY <1>7, <1>8, <1>9 DEF Ordered

\* Frames are old events, and where the stream stands does not change.
LEMMA GrowsKeepsStream ==
  ASSUME TypeOK, FramesAreEvents, StreamStands, StreamGapless,
         NEW t \in Tasks, NEW kind \in { "updated", "deleted" },
         NEW entry \in Entry, Grows(t, kind, entry)
  PROVE  FramesAreEvents' /\ StreamStands' /\ StreamGapless'
<1>1. /\ Len(log) \in Nat /\ Len(log') = Len(log) + 1
      /\ \A j \in 1 .. Len(log) : log'[j] = log[j]
      /\ Sequence' = Sequence + 1 /\ Sequence \in Nat
  BY GrowsLog
<1>2. UNCHANGED << base, sent, stream, wire, source >>
  BY DEF Grows
<1>3. FramesAreEvents'
  <2> SUFFICES ASSUME NEW i \in 1 .. Len(wire'), wire'[i].kind # "resync"
               PROVE  \E j \in 1 .. Len(log') : wire'[i] = log'[j]
    BY DEF FramesAreEvents
  <2>1. PICK j \in 1 .. Len(log) : wire[i] = log[j]
    BY <1>2 DEF FramesAreEvents
  <2>2. j \in 1 .. Len(log') /\ log'[j] = log[j]
    BY <1>1
  <2> QED
    BY <1>2, <2>1, <2>2
<1>4. StreamStands'
  <2>1. stream.latest \in Nat /\ base \in Nat
    BY DEF TypeOK
  <2>2. stream.latest <= Sequence => stream.latest <= Sequence'
    BY <1>1, <2>1
  <2> QED
    BY <1>2, <2>2 DEF StreamStands
<1>5. StreamGapless'
  BY <1>2 DEF StreamGapless
<1> QED
  BY <1>3, <1>4, <1>5

\* The new event has a number beyond every snapshot on its way and, unless the
\* server numbers again, beyond the page's position.
LEMMA GrowsKeepsPage ==
  ASSUME TypeOK, Numbered, Ordered, SyncCovers, PageStands, PositionCovered,
         NEW t \in Tasks, NEW kind \in { "updated", "deleted" },
         NEW entry \in Entry, Grows(t, kind, entry)
  PROVE  SyncCovers' /\ PageStands' /\ PositionCovered'
<1> DEFINE n == Len(log)
<1>1. /\ n \in Nat /\ Len(log') = n + 1
      /\ \A j \in 1 .. n : log'[j] = log[j]
      /\ log'[n + 1].num = Sequence + 1
      /\ Sequence' = Sequence + 1 /\ Sequence \in Nat
  BY GrowsLog
<1>2. UNCHANGED << known, lastId, pending, sync, holes >> /\ gone \subseteq gone'
  BY DEF Grows
<1>3. sync.num \in Nat /\ lastId \in Nat
  BY DEF TypeOK
<1>4. \A i \in 1 .. n + 1 : i = n + 1 \/ i \in 1 .. n
  BY <1>1
<1> HIDE DEF n
<1>5. SyncCovers'
  <2> SUFFICES ASSUME sync.state = "answered"
               PROVE  /\ sync.num <= Sequence'
                      /\ \A i \in 1 .. n + 1 : log'[i].num <= sync.num =>
                           IF log'[i].kind = "deleted" THEN sync.tasks[log'[i].task] = Absent
                           ELSE log'[i].task \notin gone'
                                  => sync.tasks[log'[i].task].rev >= log'[i].entry.rev
    BY <1>1, <1>2 DEF SyncCovers
  <2>1. sync.num <= Sequence
    BY DEF SyncCovers
  <2>2. ~ log'[n + 1].num <= sync.num
    BY <1>1, <1>3, <2>1
  <2> QED
    BY <1>1, <1>2, <1>3, <1>4, <2>1, <2>2 DEF SyncCovers, n
<1>6. PageStands'
  <2>1. lastId' <= Sequence' \/ \E hole \in holes' : hole.why = "renumbered"
    BY <1>1, <1>2, <1>3 DEF PageStands
  <2>2. ASSUME NEW u \in Tasks, ToldDeleted(u)', Followed' PROVE pending'[u] = Absent
    <3>1. Followed
      BY <1>2, <2>2 DEF Followed
    <3>2. lastId <= Sequence
      BY <3>1 DEF PageStands, Followed
    <3>3. ToldDeleted(u)
      <4>1. PICK i \in 1 .. n + 1 : log'[i].kind = "deleted" /\ log'[i].task = u /\ log'[i].num <= lastId
        BY <1>1, <1>2, <2>2 DEF ToldDeleted
      <4>2. i \in 1 .. n
        BY <1>1, <1>3, <1>4, <3>2, <4>1
      <4> QED
        BY <1>1, <4>1, <4>2 DEF ToldDeleted, n
    <3> QED
      BY <1>2, <3>1, <3>3 DEF PageStands
  <2> QED
    BY <2>1, <2>2 DEF PageStands
<1>7. PositionCovered'
  <2> SUFFICES ASSUME holes = {}, NEW i \in 1 .. n + 1, log'[i].num <= lastId,
                      log'[i].task \notin gone'
               PROVE  \/ known[log'[i].task].rev >= log'[i].entry.rev
                      \/ pending[log'[i].task].rev >= log'[i].entry.rev
    BY <1>1, <1>2 DEF PositionCovered
  <2>1. lastId <= Sequence
    BY DEF PageStands
  <2>2. i \in 1 .. n
    BY <1>1, <1>3, <1>4, <2>1
  <2> QED
    BY <1>1, <1>2, <2>2 DEF PositionCovered, n
<1> QED
  BY <1>5, <1>6, <1>7

-----------------------------------------------------------------------------
(* The stream.                                                              *)

\* What the buffer gives after a number: the events from some place on, right
\* behind that number unless they are no longer there.
LEMMA ReplayGives ==
  ASSUME TypeOK, Numbered, NEW n \in Nat
  PROVE  \E from \in Nat \ { 0 } :
           LET events == ReplayAfter(n) IN
           /\ events \in Seq(Event)
           /\ Len(events) = IF from <= sent THEN sent - from + 1 ELSE 0
           /\ \A i \in 1 .. Len(events) :
                /\ from + i - 1 \in 1 .. Len(log)
                /\ events[i] = log[from + i - 1]
                /\ events[i].num = base + from + i - 1
                /\ events[i].kind # "resync"
           /\ IF n > base + Dropped THEN base + from = n + 1 ELSE from = Dropped + 1
<1> DEFINE from == IF n > base + Dropped THEN n - base + 1 ELSE Dropped + 1
           events == ReplayAfter(n)
<1>1. /\ log \in Seq(Event) /\ Len(log) \in Nat /\ base \in Nat
      /\ sent \in Nat /\ sent <= Len(log)
  BY DEF TypeOK
<1>2. Dropped \in Nat
  BY <1>1, TaskFeedAssumption DEF Dropped
<1>3. from \in Nat \ { 0 }
  BY <1>1, <1>2
<1>4. IF n > base + Dropped THEN base + from = n + 1 ELSE from = Dropped + 1
  BY <1>1, <1>2
<1>5. events = SubSeq(log, from, sent)
  BY DEF ReplayAfter
<1> HIDE DEF from, events
<1>6. /\ events \in Seq(Event)
      /\ Len(events) = IF from <= sent THEN sent - from + 1 ELSE 0
      /\ \A i \in 1 .. Len(events) :
           from + i - 1 \in 1 .. Len(log) /\ events[i] = log[from + i - 1]
  <2>1. CASE from <= sent
    <3>1. \A i \in from .. sent : i \in 1 .. Len(log) /\ log[i] \in Event
      BY <1>1, <1>3
    <3>2. /\ events \in Seq(Event) /\ Len(events) = sent - from + 1
          /\ \A i \in 1 .. sent - from + 1 : events[i] = log[from + i - 1]
      BY <1>1, <1>3, <1>5, <2>1, <3>1
    <3>3. \A i \in 1 .. sent - from + 1 : from + i - 1 \in 1 .. Len(log)
      BY <1>1, <1>3, <2>1
    <3> QED
      BY <2>1, <3>2, <3>3
  <2>2. CASE ~ from <= sent
    <3>1. events = << >>
      BY <1>1, <1>3, <1>5, <2>2
    <3> QED
      BY <2>2, <3>1
  <2> QED
    BY <2>1, <2>2
<1>7. ASSUME NEW i \in 1 .. Len(events)
      PROVE  events[i].num = base + from + i - 1 /\ events[i].kind # "resync"
  <2>1. from + i - 1 \in 1 .. Len(log) /\ events[i] = log[from + i - 1]
    BY <1>6
  <2>2. log[from + i - 1].num = base + (from + i - 1) /\ log[from + i - 1].kind # "resync"
    BY <2>1 DEF Numbered
  <2>3. Len(events) \in Nat
    BY <1>6
  <2> QED
    BY <1>1, <1>3, <2>1, <2>2, <2>3
<1> QED
  BY <1>3, <1>4, <1>6, <1>7 DEF events

\* The oldest event of the buffer, if there is one.
LEMMA BufferBegins ==
  ASSUME TypeOK, Numbered
  PROVE  /\ Dropped \in Nat /\ Dropped <= sent
         /\ Dropped = 0 \/ sent = Dropped + ReplayCapacity
         /\ sent = 0 => Replay = << >>
         /\ sent # 0 => /\ Replay # << >> /\ Head(Replay).num = base + Dropped + 1
                        /\ Dropped < sent
<1>1. /\ log \in Seq(Event) /\ Len(log) \in Nat /\ base \in Nat
      /\ sent \in Nat /\ sent <= Len(log)
  BY DEF TypeOK
<1>2. /\ Dropped \in Nat /\ Dropped <= sent
      /\ Dropped = 0 \/ sent = Dropped + ReplayCapacity
      /\ sent # 0 => Dropped < sent
  BY <1>1, TaskFeedAssumption DEF Dropped
<1>3. ASSUME sent = 0 PROVE Replay = << >>
  BY <1>1, <1>2, <1>3 DEF Replay
<1>4. ASSUME sent # 0
      PROVE  Replay # << >> /\ Head(Replay).num = base + Dropped + 1
  <2>1. Dropped + 1 \in 1 .. Len(log) /\ Dropped + 1 <= sent
    BY <1>1, <1>2, <1>4
  <2> DEFINE first == Dropped + 1
  <2>2. Replay = SubSeq(log, first, sent)
    BY DEF Replay
  <2>3. first \in 1 .. Len(log) /\ first <= sent
    BY <2>1
  <2> HIDE DEF first
  <2>4. Replay # << >> /\ Head(Replay) = log[first]
    BY <1>1, <2>2, <2>3
  <2>5. log[first].num = base + first
    BY <2>3 DEF Numbered
  <2> QED
    BY <1>1, <1>2, <2>4, <2>5 DEF first
<1> QED
  BY <1>2, <1>3, <1>4

\* A replay is complete, or begins with an event that "overrun" names: without a
\* resync frame the stream stands at the latest number it has read or later.
LEMMA ReplayFollows ==
  ASSUME TypeOK, Numbered, StreamStands, stream.pc = "locked", ~ RequiresResync,
         NEW from \in Nat \ { 0 },
         IF stream.last > base + Dropped THEN base + from = stream.last + 1
         ELSE from = Dropped + 1
  PROVE  /\ from <= sent => base + from = stream.last + 1 \/ (base + from > stream.last /\ Overrun)
         /\ ~ from <= sent => base + sent <= stream.last
<1>1. /\ base \in Nat /\ sent \in Nat /\ stream.last \in Nat /\ stream.latest \in Nat
      /\ base <= stream.latest
  BY DEF TypeOK, StreamStands
<1>2. /\ Dropped \in Nat /\ Dropped <= sent
      /\ Dropped = 0 \/ sent = Dropped + ReplayCapacity
      /\ sent = 0 => Replay = << >>
      /\ sent # 0 => /\ Replay # << >> /\ Head(Replay).num = base + Dropped + 1
                     /\ Dropped < sent
  BY BufferBegins
<1>3. ReplayCapacity \in Nat
  BY TaskFeedAssumption
<1>4. /\ sent = 0 => stream.last >= stream.latest
      /\ stream.last + 1 < base + Dropped + 1 /\ sent # 0 => stream.last >= stream.latest
  BY <1>1, <1>2 DEF RequiresResync
<1>5. ASSUME from <= sent
      PROVE  base + from = stream.last + 1 \/ (base + from > stream.last /\ Overrun)
  <2>1. CASE stream.last + 1 < base + Dropped + 1
    <3>1. from = Dropped + 1 /\ sent # 0
      BY <1>1, <1>2, <1>5, <2>1
    <3>2. stream.last >= stream.latest
      BY <1>4, <2>1, <3>1
    <3>3. sent = Dropped + ReplayCapacity
      BY <1>1, <1>2, <2>1, <3>2
    <3>4. base + sent > stream.latest + ReplayCapacity
      BY <1>1, <1>2, <1>3, <2>1, <3>2, <3>3
    <3> QED
      BY <1>1, <1>2, <2>1, <3>1, <3>4 DEF Overrun
  <2>2. CASE ~ stream.last + 1 < base + Dropped + 1
    BY <1>1, <1>2, <2>2
  <2> QED
    BY <2>1, <2>2
<1>6. ASSUME ~ from <= sent PROVE base + sent <= stream.last
  <2>1. CASE stream.last > base + Dropped
    BY <1>1, <1>2, <1>6, <2>1
  <2>2. CASE ~ stream.last > base + Dropped
    <3>1. sent = 0
      BY <1>1, <1>2, <1>6, <2>2
    <3> QED
      BY <1>1, <1>4, <3>1
  <2> QED
    BY <2>1, <2>2
<1> QED
  BY <1>5, <1>6

\* More frames behind the last one: the first of them goes on from it, the others
\* go on from each other.
LEMMA FramesGoOn ==
  ASSUME TypeOK, StreamGapless, NEW events \in Seq(Event), events # << >>,
         wire' = wire \o events,
         stream.overrun \subseteq stream'.overrun,
         \A i \in 1 .. Len(events) - 1 : events[i + 1].num = events[i].num + 1,
         wire # << >> =>
           \/ events[1].num = wire[Len(wire)].num + 1
           \/ /\ events[1].num > wire[Len(wire)].num
              /\ events[1].kind = "resync" \/ events[1].num \in stream'.overrun
  PROVE  /\ StreamGapless'
         /\ wire' \in Seq(Event) /\ wire' # << >>
         /\ wire'[Len(wire')] = events[Len(events)]
<1>1. /\ wire \in Seq(Event) /\ Len(wire) \in Nat
      /\ Len(events) \in Nat \ { 0 }
  BY DEF TypeOK
<1>2. /\ wire' \in Seq(Event) /\ Len(wire') = Len(wire) + Len(events)
      /\ \A i \in 1 .. Len(wire) : wire'[i] = wire[i]
      /\ \A i \in 1 .. Len(events) : wire'[Len(wire) + i] = events[i]
  BY <1>1
<1>3. wire # << >> <=> Len(wire) # 0
  BY <1>1
<1>4. ASSUME NEW i \in 1 .. Len(wire') - 1
      PROVE  \/ wire'[i + 1].num = wire'[i].num + 1
             \/ /\ wire'[i + 1].num > wire'[i].num
                /\ wire'[i + 1].kind = "resync" \/ wire'[i + 1].num \in stream'.overrun
  <2>1. CASE i < Len(wire)
    <3>1. i \in 1 .. Len(wire) - 1 /\ i \in 1 .. Len(wire) /\ i + 1 \in 1 .. Len(wire)
      BY <1>1, <1>2, <2>1
    <3>2. wire'[i] = wire[i] /\ wire'[i + 1] = wire[i + 1]
      BY <1>2, <3>1
    <3> QED
      BY <3>1, <3>2 DEF StreamGapless
  <2>2. CASE i = Len(wire)
    <3>1. wire'[i] = wire[i] /\ wire'[i + 1] = events[1] /\ wire # << >>
      BY <1>1, <1>2, <1>3, <2>2
    <3> QED
      BY <2>2, <3>1
  <2>3. CASE i > Len(wire)
    <3> DEFINE j == i - Len(wire)
    <3>1. j \in 1 .. Len(events) - 1 /\ i = Len(wire) + j
      BY <1>1, <1>2, <2>3
    <3> HIDE DEF j
    <3>2. /\ j \in 1 .. Len(events) /\ j + 1 \in 1 .. Len(events)
          /\ i + 1 = Len(wire) + (j + 1)
      BY <1>1, <3>1
    <3>3. wire'[i] = events[j] /\ wire'[i + 1] = events[j + 1]
      BY <1>2, <3>1, <3>2
    <3> QED
      BY <3>1, <3>3
  <2> QED
    BY <1>1, <2>1, <2>2, <2>3
<1>5. StreamGapless'
  BY <1>4 DEF StreamGapless
<1>6. wire' # << >> /\ wire'[Len(wire')] = events[Len(events)]
  BY <1>1, <1>2
<1> QED
  BY <1>2, <1>5, <1>6

\* One more frame is the case of a sequence of one.
LEMMA FrameGoesOn ==
  ASSUME TypeOK, StreamGapless, NEW event \in Event,
         wire' = Append(wire, event),
         stream.overrun \subseteq stream'.overrun,
         wire # << >> =>
           \/ event.num = wire[Len(wire)].num + 1
           \/ event.num > wire[Len(wire)].num /\ event.kind = "resync"
  PROVE  /\ StreamGapless'
         /\ wire' \in Seq(Event) /\ wire' # << >>
         /\ wire'[Len(wire')] = event
<1> DEFINE events == << event >>
<1>1. events \in Seq(Event) /\ events # << >> /\ Len(events) = 1 /\ events[1] = event
  OBVIOUS
<1>2. wire' = wire \o events
  <2>1. wire \in Seq(Event)
    BY DEF TypeOK
  <2> QED
    BY <2>1, AppendIsConcat
<1> HIDE DEF events
<1>3. \A i \in 1 .. Len(events) - 1 : events[i + 1].num = events[i].num + 1
  BY <1>1
<1> QED
  BY <1>1, <1>2, <1>3, FramesGoOn

\* The types of the stream's record, by field.
LEMMA StreamFields ==
  ASSUME TypeOK
  PROVE  /\ stream.pc \in { "none", "opening", "replay", "locked", "receive" }
         /\ stream.last \in Nat /\ stream.pos \in Nat /\ stream.latest \in Nat
         /\ stream.overrun \subseteq Nat
         /\ base \in Nat /\ sent \in Nat /\ Sequence \in Nat
         /\ Sequence = base + Len(log) /\ sent <= Len(log) /\ Len(log) \in Nat
  BY DEF TypeOK, Sequence

\* A step of the stream's task: where it stands, frame by frame.
StreamParts == TypeOK /\ Numbered /\ FramesAreEvents /\ StreamStands /\ StreamGapless

\* The frames so far, as they are and for more events or a resync frame.
LEMMA FramesStayEvents ==
  ASSUME FramesAreEvents, TypeOK, UNCHANGED << base, log >>, NEW events \in Seq(Event),
         wire' = wire \o events,
         \A i \in 1 .. Len(events) :
           events[i].kind = "resync" \/ \E j \in 1 .. Len(log) : events[i] = log[j]
  PROVE  FramesAreEvents'
<1>1. /\ wire \in Seq(Event) /\ Len(wire) \in Nat /\ Len(events) \in Nat
  BY DEF TypeOK
<1>2. /\ Len(wire') = Len(wire) + Len(events)
      /\ \A i \in 1 .. Len(wire) : wire'[i] = wire[i]
      /\ \A i \in 1 .. Len(events) : wire'[Len(wire) + i] = events[i]
  BY <1>1
<1> SUFFICES ASSUME NEW i \in 1 .. Len(wire')
             PROVE  wire'[i].kind = "resync" \/ \E j \in 1 .. Len(log) : wire'[i] = log[j]
  BY DEF FramesAreEvents
<1>3. CASE i \in 1 .. Len(wire)
  BY <1>2, <1>3 DEF FramesAreEvents
<1>4. CASE i \notin 1 .. Len(wire)
  <2>1. i - Len(wire) \in 1 .. Len(events) /\ i = Len(wire) + (i - Len(wire))
    BY <1>1, <1>2, <1>4
  <2>2. wire'[i] = events[i - Len(wire)]
    BY <1>2, <2>1
  <2> QED
    BY <2>1, <2>2
<1> QED
  BY <1>3, <1>4

\* A resync frame or a replay.
LEMMA ReplayKeepsStream ==
  ASSUME StreamParts, ReplayEvents
  PROVE  StreamParts'
<1> USE DEF StreamParts
<1>1. /\ stream.pc = "locked" /\ UNCHANGED << serverVars, pageVars, bounds >>
      /\ UNCHANGED << tasks, gone, base, log, sent, known, lastId, pending, sync, source,
                      error, answer, holes, changes, faults >>
  BY DEF ReplayEvents, serverVars, pageVars, bounds
<1>2. /\ stream.last \in Nat /\ stream.pos \in Nat /\ stream.latest \in Nat
      /\ stream.overrun \subseteq Nat
      /\ base \in Nat /\ sent \in Nat /\ stream.pos <= sent
      /\ wire \in Seq(Event) /\ Sequence' = Sequence
  BY <1>1, StreamFields DEF TypeOK, StreamStands, Sequence
<1>s. source = "open"
  BY <1>1 DEF StreamStands
<1>3. CASE RequiresResync
  <2>1. /\ wire' = Append(wire, Resync)
        /\ stream' = [ stream EXCEPT !.pc = "replay", !.last = stream.latest, !.latest = 0 ]
    BY <1>3 DEF ReplayEvents
  <2>2. Resync \in Event /\ Resync.num = stream.latest /\ Resync.kind = "resync"
    BY <1>2, EntriesAreTyped DEF Resync, Event
  <2>3. /\ stream'.pc = "replay" /\ stream'.last = stream.latest /\ stream'.latest = 0
        /\ stream'.pos = stream.pos /\ stream'.overrun = stream.overrun
        /\ stream' \in [ pc : { "none", "opening", "replay", "locked", "receive" },
                         last : Nat, pos : Nat, latest : Nat, overrun : SUBSET Nat ]
    BY <1>2, <2>1 DEF TypeOK
  <2>4. stream.last < stream.latest
    BY <1>3 DEF RequiresResync
  <2>5. /\ StreamGapless' /\ wire' \in Seq(Event) /\ wire'[Len(wire')] = Resync
        /\ wire' # << >>
    <3>1. wire # << >> => Resync.num > wire[Len(wire)].num
      BY <1>2, <2>2, <2>4 DEF StreamStands
    <3> QED
      BY <2>1, <2>2, <2>3, <3>1, FrameGoesOn
  <2>6. FramesAreEvents'
    <3> DEFINE events == << Resync >>
    <3>1. events \in Seq(Event) /\ Len(events) = 1 /\ events[1] = Resync
      BY <2>2
    <3>2. wire' = wire \o events
      BY <1>2, <2>1, <2>2, AppendIsConcat
    <3>3. \A i \in 1 .. Len(events) : events[i].kind = "resync"
      BY <2>2, <3>1
    <3> HIDE DEF events
    <3> QED
      BY <1>1, <3>1, <3>2, <3>3, FramesStayEvents
  <2>7. StreamStands'
    BY <1>1, <1>2, <1>s, <2>2, <2>3, <2>5 DEF StreamStands
  <2>8. TypeOK'
    BY <1>1, <2>3, <2>5 DEF TypeOK
  <2>9. Numbered'
    BY <1>1 DEF Numbered
  <2> QED
    BY <2>5, <2>6, <2>7, <2>8, <2>9
<1>4. CASE ~ RequiresResync
  <2> DEFINE events == ReplayAfter(stream.last)
  <2>1. PICK from \in Nat \ { 0 } :
           /\ events \in Seq(Event)
           /\ Len(events) = IF from <= sent THEN sent - from + 1 ELSE 0
           /\ \A i \in 1 .. Len(events) :
                /\ from + i - 1 \in 1 .. Len(log)
                /\ events[i] = log[from + i - 1]
                /\ events[i].num = base + from + i - 1
                /\ events[i].kind # "resync"
           /\ IF stream.last > base + Dropped THEN base + from = stream.last + 1
              ELSE from = Dropped + 1
    BY <1>2, ReplayGives
  <2>2. /\ from <= sent => base + from = stream.last + 1 \/ (base + from > stream.last /\ Overrun)
        /\ ~ from <= sent => base + sent <= stream.last
    BY <1>1, <1>4, <2>1, ReplayFollows
  <2>3. /\ wire' = wire \o events
        /\ stream' = [ stream EXCEPT !.pc = "receive", !.latest = 0,
                           !.last = IF events = << >> THEN @ ELSE Last(events).num,
                           !.overrun = IF Overrun /\ events # << >>
                                       THEN @ \cup { Head(events).num } ELSE @ ]
    BY <1>4 DEF ReplayEvents
  <2> HIDE DEF events
  <2>4. events = << >> <=> ~ from <= sent
    BY <1>2, <2>1
  <2>5. ASSUME from <= sent
        PROVE  /\ events # << >> /\ Len(events) \in Nat \ { 0 }
               /\ Last(events) = events[Len(events)] /\ Head(events) = events[1]
               /\ events[1].num = base + from /\ events[Len(events)].num = base + sent
    <3>1. Len(events) = sent - from + 1 /\ Len(events) \in Nat \ { 0 }
      BY <1>2, <2>1, <2>5
    <3>2. 1 \in 1 .. Len(events) /\ Len(events) \in 1 .. Len(events)
      BY <3>1
    <3>3. events[1].num = base + from + 1 - 1
          /\ events[Len(events)].num = base + from + Len(events) - 1
      BY <2>1, <3>2
    <3>4. Head(events) = events[1] /\ Last(events) = events[Len(events)]
      BY <2>1, <3>1 DEF Last
    <3> QED
      BY <1>2, <2>4, <2>5, <3>1, <3>3, <3>4
  <2> DEFINE last == IF from <= sent THEN base + sent ELSE stream.last
             over == IF Overrun /\ from <= sent THEN stream.overrun \cup { base + from }
                     ELSE stream.overrun
  <2>6. /\ stream'.pc = "receive" /\ stream'.last = last /\ stream'.latest = 0
        /\ stream'.pos = stream.pos /\ stream'.overrun = over
        /\ stream' \in [ pc : { "none", "opening", "replay", "locked", "receive" },
                         last : Nat, pos : Nat, latest : Nat, overrun : SUBSET Nat ]
    <3>1. stream' = [ stream EXCEPT !.pc = "receive", !.latest = 0,
                                    !.last = last, !.overrun = over ]
      <4>1. CASE from <= sent
        BY <2>3, <2>4, <2>5, <4>1
      <4>2. CASE ~ from <= sent
        BY <2>3, <2>4, <4>2
      <4> QED
        BY <4>1, <4>2
    <3>2. last \in Nat
      BY <1>2
    <3>3. over \in SUBSET Nat
      <4>1. base + from \in Nat
        BY <1>2
      <4> QED
        BY <1>2, <4>1
    <3> HIDE DEF last, over
    <3> QED
      BY <1>2, <3>1, <3>2, <3>3 DEF TypeOK
  <2>7. /\ StreamGapless' /\ wire' \in Seq(Event)
        /\ wire' # << >> => wire'[Len(wire')].num = last
    <3>1. CASE from <= sent
      <4>1. \A i \in 1 .. Len(events) - 1 : events[i + 1].num = events[i].num + 1
        <5>1. ASSUME NEW i \in 1 .. Len(events) - 1
              PROVE  events[i + 1].num = events[i].num + 1
          <6>1. Len(events) \in Nat
            BY <2>1
          <6>2. i \in 1 .. Len(events) /\ i + 1 \in 1 .. Len(events)
            BY <6>1
          <6>3. events[i].num = base + from + i - 1
                /\ events[i + 1].num = base + from + (i + 1) - 1
            BY <2>1, <6>2
          <6> QED
            BY <1>2, <2>1, <6>1, <6>3
        <5> QED
          BY <5>1
      <4>2. stream.overrun \subseteq stream'.overrun
            /\ (Overrun => base + from \in stream'.overrun)
        BY <2>6, <3>1
      <4>3. wire # << >> =>
             \/ events[1].num = wire[Len(wire)].num + 1
             \/ /\ events[1].num > wire[Len(wire)].num
                /\ events[1].kind = "resync" \/ events[1].num \in stream'.overrun
        BY <2>2, <2>5, <3>1, <4>2 DEF StreamStands
      <4>4. /\ StreamGapless' /\ wire' \in Seq(Event)
            /\ wire'[Len(wire')] = events[Len(events)]
        BY <2>1, <2>3, <2>5, <3>1, <4>1, <4>2, <4>3, FramesGoOn
      <4> QED
        BY <2>5, <3>1, <4>4
    <3>2. CASE ~ from <= sent
      <4>1. wire' = wire /\ stream'.overrun = stream.overrun /\ last = stream.last
        BY <1>2, <2>1, <2>3, <2>4, <2>6, <3>2, ConcatEmptySeq
      <4> QED
        BY <1>2, <4>1 DEF StreamGapless, StreamStands
    <3> QED
      BY <3>1, <3>2
  <2>8. FramesAreEvents'
    <3>1. \A i \in 1 .. Len(events) :
            events[i].kind = "resync" \/ \E j \in 1 .. Len(log) : events[i] = log[j]
      BY <2>1
    <3> QED
      BY <1>1, <2>1, <2>3, <3>1, FramesStayEvents
  <2>9. base + stream.pos <= last
    <3>1. CASE from <= sent
      BY <1>2, <3>1
    <3>2. CASE ~ from <= sent
      BY <1>2, <2>2, <3>2
    <3> QED
      BY <3>1, <3>2
  <2> HIDE DEF last, over
  <2>10. StreamStands'
    BY <1>1, <1>2, <1>s, <2>6, <2>7, <2>9 DEF StreamStands
  <2>11. TypeOK'
    BY <1>1, <2>6, <2>7 DEF TypeOK
  <2>12. Numbered'
    BY <1>1 DEF Numbered
  <2> QED
    BY <2>7, <2>8, <2>10, <2>11, <2>12
<1> QED
  BY <1>3, <1>4

\* An event from the channel, or back to the buffer.
LEMMA ReceiveKeepsStream ==
  ASSUME StreamParts, ReceiveEvent
  PROVE  StreamParts'
<1> USE DEF StreamParts
<1>1. /\ stream.pc = "receive" /\ stream.pos < sent
      /\ UNCHANGED << tasks, gone, base, log, sent, known, lastId, pending, sync, source,
                      error, answer, holes, changes, faults >>
  BY DEF ReceiveEvent, serverVars, pageVars, bounds
<1>2. /\ stream.last \in Nat /\ stream.pos \in Nat /\ stream.latest \in Nat
      /\ stream.overrun \subseteq Nat
      /\ base \in Nat /\ sent \in Nat /\ sent <= Len(log) /\ Len(log) \in Nat
      /\ wire \in Seq(Event) /\ log \in Seq(Event)
      /\ Sequence' = Sequence
  BY <1>1, StreamFields DEF TypeOK, Sequence
<1>s. source = "open" /\ base + stream.pos <= stream.last
  BY <1>1 DEF StreamStands
<1>n. Numbered'
  BY <1>1 DEF Numbered
<1> DEFINE i == stream.pos + 1
           event == log[i]
<1>3. i \in 1 .. Len(log)
  BY <1>1, <1>2
<1> HIDE DEF i
<1>4. event \in Event /\ event.num = base + i
  BY <1>2, <1>3 DEF Numbered
<1>5. ASSUME wire' = wire, stream'.pc = "replay", stream'.last = stream.last,
             stream'.pos <= sent,
             stream' \in [ pc : { "none", "opening", "replay", "locked", "receive" },
                           last : Nat, pos : Nat, latest : Nat, overrun : SUBSET Nat ],
             stream'.overrun = stream.overrun
      PROVE  StreamParts'
  <2>1. TypeOK'
    BY <1>1, <1>5 DEF TypeOK
  <2>2. StreamStands'
    BY <1>1, <1>s, <1>5 DEF StreamStands
  <2>3. FramesAreEvents' /\ StreamGapless'
    BY <1>1, <1>5 DEF FramesAreEvents, StreamGapless
  <2> QED
    BY <1>n, <2>1, <2>2, <2>3
<1>6. CASE sent - stream.pos > ChannelCapacity
  <2>1. /\ stream' = [ stream EXCEPT !.pc = "replay", !.pos = sent - ChannelCapacity ]
        /\ wire' = wire
    BY <1>6 DEF ReceiveEvent
  <2>2. sent - ChannelCapacity \in Nat /\ sent - ChannelCapacity <= sent
    BY <1>2, <1>6, TaskFeedAssumption
  <2> DEFINE p == sent - ChannelCapacity
  <2>3. p \in Nat /\ p <= sent /\ stream' = [ stream EXCEPT !.pc = "replay", !.pos = p ]
    BY <2>1, <2>2
  <2> HIDE DEF p
  <2>4. /\ stream'.pc = "replay" /\ stream'.last = stream.last /\ stream'.pos <= sent
        /\ stream'.overrun = stream.overrun
        /\ stream' \in [ pc : { "none", "opening", "replay", "locked", "receive" },
                         last : Nat, pos : Nat, latest : Nat, overrun : SUBSET Nat ]
    BY <2>3 DEF TypeOK
  <2> QED
    BY <1>5, <2>1, <2>4
<1>7. CASE ~ sent - stream.pos > ChannelCapacity /\ ~ event.num > stream.last
  <2>1. stream' = [ stream EXCEPT !.pc = "replay", !.pos = i ] /\ wire' = wire
    <3>1. /\ wire' = wire
          /\ stream' = [ stream EXCEPT !.pc = "replay", !.pos = @ + 1, !.last = @ ]
      BY <1>7 DEF ReceiveEvent, i
    <3> QED
      BY <3>1 DEF TypeOK, i
  <2>2. i \in Nat /\ i <= sent
    BY <1>1, <1>2 DEF i
  <2>3. /\ stream'.pc = "replay" /\ stream'.last = stream.last /\ stream'.pos <= sent
        /\ stream'.overrun = stream.overrun
        /\ stream' \in [ pc : { "none", "opening", "replay", "locked", "receive" },
                         last : Nat, pos : Nat, latest : Nat, overrun : SUBSET Nat ]
    BY <2>1, <2>2 DEF TypeOK
  <2> QED
    BY <1>5, <2>1, <2>3
<1>8. CASE ~ sent - stream.pos > ChannelCapacity /\ event.num > stream.last
  <2>1. /\ stream' = [ stream EXCEPT !.pc = "replay", !.pos = i, !.last = event.num ]
        /\ wire' = Append(wire, event)
    <3>1. /\ wire' = Append(wire, event)
          /\ stream' = [ stream EXCEPT !.pc = "replay", !.pos = @ + 1, !.last = event.num ]
      BY <1>8 DEF ReceiveEvent, i
    <3> QED
      BY <3>1 DEF TypeOK, i
  <2>2. i \in Nat /\ i <= sent /\ event.num = stream.last + 1 /\ event.num \in Nat
    <3>1. i \in Nat /\ i <= sent /\ i = stream.pos + 1
      BY <1>1, <1>2 DEF i
    <3>2. event.num = base + i /\ event.num > stream.last
      BY <1>4, <1>8
    <3> HIDE DEF event
    <3>3. ASSUME NEW n \in Nat, NEW last \in Nat, NEW pos \in Nat,
                 n = base + (pos + 1), n > last, base + pos <= last
          PROVE  n = last + 1
      BY <1>2, <3>3
    <3>4. event.num = base + (stream.pos + 1) /\ event.num \in Nat
      BY <1>2, <3>1, <3>2
    <3>5. event.num = stream.last + 1
      BY <1>2, <1>s, <3>2, <3>3, <3>4
    <3> QED
      BY <3>1, <3>4, <3>5
  <2> HIDE DEF event
  <2>3. /\ stream'.pc = "replay" /\ stream'.last = event.num /\ stream'.pos = i
        /\ stream'.overrun = stream.overrun
        /\ stream' \in [ pc : { "none", "opening", "replay", "locked", "receive" },
                         last : Nat, pos : Nat, latest : Nat, overrun : SUBSET Nat ]
    BY <2>1, <2>2 DEF TypeOK
  <2>4. /\ StreamGapless' /\ wire' \in Seq(Event) /\ wire' # << >>
        /\ wire'[Len(wire')] = event
    <3>1. wire # << >> => event.num = wire[Len(wire)].num + 1
      BY <2>2 DEF StreamStands
    <3> QED
      BY <1>4, <2>1, <2>3, <3>1, FrameGoesOn
  <2>5. FramesAreEvents'
    <3> DEFINE events == << event >>
    <3>1. events \in Seq(Event) /\ Len(events) = 1 /\ events[1] = log[i]
      BY <1>4 DEF event
    <3>2. wire' = wire \o events
      BY <1>2, <1>4, <2>1, AppendIsConcat
    <3> HIDE DEF events
    <3>3. \A k \in 1 .. Len(events) : events[k] = log[i]
      BY <3>1
    <3> QED
      BY <1>1, <1>3, <3>1, <3>2, <3>3, FramesStayEvents
  <2>6. TypeOK'
    BY <1>1, <2>3, <2>4 DEF TypeOK
  <2>7. StreamStands'
    BY <1>1, <1>s, <2>2, <2>3, <2>4 DEF StreamStands
  <2> QED
    BY <1>n, <2>4, <2>5, <2>6, <2>7
<1> QED
  BY <1>6, <1>7, <1>8

-----------------------------------------------------------------------------
(* The server restarts.                                                     *)

\* What a restart does to the server: the tasks that move have a new revision, and
\* the log is one event for each of them, numbered from the sum of the revisions.
LEMMA RestartDoes ==
  ASSUME TypeOK, Ordered, RestartServer
  PROVE  /\ tasks' \in [ Tasks -> Entry ]
         /\ \A t \in gone : tasks'[t] = tasks[t]
         /\ base' \in Nat
         /\ log' \in Seq(Event) /\ Len(log') \in Nat
         /\ \A i \in 1 .. Len(log') :
              /\ log'[i].num = base' + i /\ log'[i].kind = "updated"
              /\ log'[i].task \in Tasks /\ log'[i].task \notin gone
              /\ log'[i].entry = tasks'[log'[i].task]
         /\ sent' = Len(log')
<1> DEFINE sum == SumOf(tasks)
           Moved(t, mood) == [ rev |-> tasks[t].rev + 1, mood |-> mood ]
<1>1. tasks \in [ Tasks -> Entry ] /\ sum \in Nat
  BY SumIsNumber DEF TypeOK
<1> HIDE DEF sum
<1>2. base' = sum /\ sent' = Len(log')
  BY DEF RestartServer, sum, SumOf
<1>3. PICK moving \in SUBSET { t \in Tasks : Active(tasks[t]) }, mood \in { "idle", "ended" } :
        /\ tasks' = [ t \in Tasks |-> IF t \in moving THEN Moved(t, mood) ELSE tasks[t] ]
        /\ log' = [ i \in 1 .. Len(SetToSeq(moving)) |->
                     [ num |-> sum + i, kind |-> "updated", task |-> SetToSeq(moving)[i],
                       entry |-> Moved(SetToSeq(moving)[i], mood) ] ]
  BY DEF RestartServer, sum, SumOf
<1> DEFINE order == SetToSeq(moving)
<1>4. /\ Len(order) \in Nat
      /\ \A i \in 1 .. Len(order) : order[i] \in moving
  BY OrderIsOfMembers
<1>5. log' = [ i \in 1 .. Len(order) |->
                 [ num |-> sum + i, kind |-> "updated", task |-> order[i],
                   entry |-> Moved(order[i], mood) ] ]
  BY <1>3
<1> HIDE DEF order
<1>6. ASSUME NEW t \in Tasks PROVE Moved(t, mood) \in Entry
  <2>1. tasks[t].rev + 1 \in Nat
    BY <1>1, EntriesAreTyped
  <2> QED
    BY <2>1 DEF Entry, Moods
<1> HIDE DEF Moved
<1>7. moving \subseteq Tasks /\ (\A t \in moving : t \notin gone)
  <2>1. ASSUME NEW t \in moving PROVE t \in Tasks /\ tasks[t] # Absent
    <3>1. Active(tasks[t])
      BY <1>3
    <3> QED
      BY <3>1, EntriesAreTyped DEF Active
  <2> QED
    BY <2>1 DEF Ordered
<1>8. tasks' \in [ Tasks -> Entry ]
  BY <1>1, <1>3, <1>6
<1>9. /\ \A t \in moving : tasks'[t] = Moved(t, mood)
      /\ \A t \in gone : tasks'[t] = tasks[t]
  BY <1>3, <1>7 DEF TypeOK
<1>10. ASSUME NEW i \in 1 .. Len(order)
       PROVE  /\ log'[i] \in Event
              /\ log'[i].num = base' + i /\ log'[i].kind = "updated"
              /\ log'[i].task \in Tasks /\ log'[i].task \notin gone
              /\ log'[i].entry = tasks'[log'[i].task]
  <2> DEFINE e == Moved(order[i], mood)
  <2>1. order[i] \in moving /\ order[i] \in Tasks /\ order[i] \notin gone
    BY <1>4, <1>7
  <2>2. e \in Entry /\ tasks'[order[i]] = e
    BY <1>6, <1>9, <2>1
  <2>3. log'[i] = [ num |-> sum + i, kind |-> "updated", task |-> order[i], entry |-> e ]
    BY <1>5
  <2>4. sum + i \in Nat
    BY <1>1
  <2> HIDE DEF e
  <2> QED
    BY <1>2, <2>1, <2>2, <2>3, <2>4 DEF Event
<1>11. log' \in Seq(Event) /\ Len(log') = Len(order)
  BY <1>4, <1>5, <1>10
<1> QED
  BY <1>1, <1>2, <1>4, <1>8, <1>9, <1>10, <1>11

\* What it does to the rest: connections and requests are gone, and a page that is
\* ahead of the new numbers has lost track.
LEMMA RestartLeaves ==
  ASSUME TypeOK, Ordered, RestartServer
  PROVE  /\ stream' = NoStream /\ wire' = << >>
         /\ source' \in { "broken", "waiting", "loading" }
         /\ sync' = [ NoSync EXCEPT !.state = sync'.state ]
         /\ sync'.state \in { "none", "failed" }
         /\ answer' = NoAnswer
         /\ UNCHANGED << gone, known, lastId, pending, error, changes >>
         /\ faults' \in 0 .. MaxFaults
         /\ holes \subseteq holes'
         /\ holes' \subseteq [ why : { "resync", "gap", "overwritten", "renumbered" }, num : Nat ]
         /\ lastId > base' => \E hole \in holes' : hole.why = "renumbered"
<1>1. /\ stream' = NoStream /\ wire' = << >> /\ answer' = NoAnswer
      /\ source' = IF source = "open" THEN "broken" ELSE source
      /\ sync' = [ NoSync EXCEPT !.state = IF sync.state = "none" THEN "none" ELSE "failed" ]
      /\ UNCHANGED << gone, known, lastId, pending, error, changes >>
      /\ faults < MaxFaults /\ faults' = faults + 1
      /\ holes' = IF lastId > base' THEN holes \cup { Hole("renumbered", lastId) } ELSE holes
  BY DEF RestartServer, Fault
<1>2. sync' = [ NoSync EXCEPT !.state = sync'.state ] /\ sync'.state \in { "none", "failed" }
  BY <1>1 DEF NoSync
<1>3. source' \in { "broken", "waiting", "loading" }
  BY <1>1 DEF TypeOK
<1>4. faults' \in 0 .. MaxFaults
  <2>1. faults \in 0 .. MaxFaults /\ MaxFaults \in Nat
    BY TaskFeedAssumption DEF TypeOK
  <2> QED
    BY <1>1, <2>1
<1>5. Hole("renumbered", lastId) \in
        [ why : { "resync", "gap", "overwritten", "renumbered" }, num : Nat ]
      /\ Hole("renumbered", lastId).why = "renumbered"
  BY DEF Hole, TypeOK
<1>6. holes' \subseteq [ why : { "resync", "gap", "overwritten", "renumbered" }, num : Nat ]
  BY <1>1, <1>5 DEF TypeOK
<1> QED
  BY <1>1, <1>2, <1>3, <1>4, <1>5, <1>6

\* The log is numbered again and in order, and nothing is on its way.
LEMMA RestartKeeps ==
  ASSUME IInv, RestartServer
  PROVE  IInv'
<1>1. TypeOK /\ Ordered
  BY DEF IInv
<1>2. /\ tasks' \in [ Tasks -> Entry ]
      /\ \A t \in gone : tasks'[t] = tasks[t]
      /\ base' \in Nat
      /\ log' \in Seq(Event) /\ Len(log') \in Nat
      /\ sent' = Len(log')
  BY <1>1, RestartDoes
<1>3. \A i \in 1 .. Len(log') :
              /\ log'[i].num = base' + i /\ log'[i].kind = "updated"
              /\ log'[i].task \in Tasks /\ log'[i].task \notin gone
              /\ log'[i].entry = tasks'[log'[i].task]
  BY <1>1, RestartDoes
<1>4. /\ stream' = NoStream /\ wire' = << >>
      /\ source' \in { "broken", "waiting", "loading" }
      /\ sync' = [ NoSync EXCEPT !.state = sync'.state ]
      /\ sync'.state \in { "none", "failed" }
      /\ answer' = NoAnswer
      /\ UNCHANGED << gone, known, lastId, pending, error, changes >>
      /\ faults' \in 0 .. MaxFaults
      /\ holes' \subseteq [ why : { "resync", "gap", "overwritten", "renumbered" }, num : Nat ]
  BY <1>1, RestartLeaves
<1>5. holes \subseteq holes' /\ (lastId > base' => \E hole \in holes' : hole.why = "renumbered")
  BY <1>1, RestartLeaves
<1>6. TypeOK'
  <2>1. /\ NoStream \in [ pc : { "none", "opening", "replay", "locked", "receive" },
                          last : Nat, pos : Nat, latest : Nat, overrun : SUBSET Nat ]
        /\ NoAnswer \in [ task : Tasks \cup { 0 }, entry : Entry ]
    BY EntriesAreTyped DEF NoStream, NoAnswer
  <2>2. sync' \in [ state : { "none", "asked", "answered", "failed" },
                    tasks : [ Tasks -> Entry ], num : Nat ]
    BY <1>4, EntriesAreTyped DEF NoSync
  <2>3. sent' \in 0 .. Len(log')
    BY <1>2
  <2>4. wire' \in Seq(Event)
    BY <1>4
  <2> QED
    BY <1>1, <1>2, <1>4, <2>1, <2>2, <2>3, <2>4 DEF TypeOK
<1>7. Numbered'
  BY <1>3 DEF Numbered
<1>8. Ordered'
  <2>1. \A i \in 1 .. Len(log') : log'[i].entry.rev \in Nat
                                  /\ log'[i].entry.rev <= tasks'[log'[i].task].rev
    BY <1>2, <1>3, EntriesAreTyped
  <2>2. \A i \in 1 .. Len(log'), j \in 1 .. Len(log') :
          i <= j /\ log'[i].task = log'[j].task =>
            /\ log'[i].entry.rev <= log'[j].entry.rev
            /\ log'[i].kind = "deleted" => i = j
    BY <1>3, <2>1
  <2>3. \A i \in 1 .. Len(log') :
          IF log'[i].kind = "deleted" THEN log'[i].task \in gone'
          ELSE log'[i].task \notin gone' => log'[i].entry.rev <= tasks'[log'[i].task].rev
    BY <1>3, <2>1
  <2>4. \A t \in gone' : tasks'[t] = Absent
    BY <1>1, <1>2, <1>4 DEF Ordered
  <2> QED
    BY <2>2, <2>3, <2>4 DEF Ordered
<1>9. FramesAreEvents' /\ StreamGapless' /\ StreamStands'
  <2>1. Len(wire') = 0
    BY <1>4
  <2>2. stream'.pc = "none" /\ stream'.pos = 0
    BY <1>4 DEF NoStream
  <2>3. StreamStands'
    BY <1>2, <1>4, <2>2 DEF StreamStands
  <2> QED
    BY <2>1, <2>3 DEF FramesAreEvents, StreamGapless
<1>10. SyncCovers'
  BY <1>4 DEF SyncCovers
<1>11. lastId' > base' => \E hole \in holes' : hole.why = "renumbered"
  BY <1>4, <1>5
<1>12. PageStands'
  <2>1. lastId' <= Sequence' \/ \E hole \in holes' : hole.why = "renumbered"
    <3>1. lastId' \in Nat
      BY <1>6 DEF TypeOK
    <3> QED
      BY <1>2, <1>11, <3>1 DEF Sequence
  <2>2. \A t \in Tasks : ~ ToldDeleted(t)'
    BY <1>3 DEF ToldDeleted
  <2> QED
    BY <2>1, <2>2 DEF PageStands
<1>13. PositionCovered'
  <2>1. SUFFICES ASSUME holes' = {}, NEW i \in 1 .. Len(log'), log'[i].num <= lastId'
                 PROVE  FALSE
    BY DEF PositionCovered
  <2>2. ~ lastId' > base'
    BY <1>11, <2>1
  <2>3. lastId' \in Nat
    BY <1>6 DEF TypeOK
  <2> QED
    BY <1>2, <1>3, <2>1, <2>2, <2>3
<1> QED
  BY <1>6, <1>7, <1>8, <1>9, <1>10, <1>12, <1>13 DEF IInv

-----------------------------------------------------------------------------
(* The other steps of the server and of the connection.                     *)

\* Steps that touch neither the log nor what the page has: they leave these alone.
LEMMA Untouched ==
  ASSUME IInv, UNCHANGED << tasks, gone, base, log, known, lastId, pending, holes >>
  PROVE  Numbered' /\ Ordered' /\ PageStands' /\ PositionCovered'
<1> USE DEF IInv
<1>1. Numbered' /\ Ordered'
  BY DEF Numbered, Ordered
<1>2. PageStands'
  <2>1. Sequence' = Sequence
    BY DEF Sequence
  <2>2. Followed' <=> Followed
    BY DEF Followed
  <2>3. \A t \in Tasks : ToldDeleted(t)' <=> ToldDeleted(t)
    BY DEF ToldDeleted
  <2> QED
    BY <2>1, <2>2, <2>3 DEF PageStands
<1>3. PositionCovered'
  BY DEF PositionCovered
<1> QED
  BY <1>1, <1>2, <1>3

\* What is on its way does not change with the page or the stream.
LEMMA SyncUntouched ==
  ASSUME IInv, UNCHANGED << gone, base, log >>,
         UNCHANGED sync \/ sync'.state # "answered"
  PROVE  SyncCovers'
<1>1. Sequence' = Sequence
  BY DEF Sequence
<1>2. CASE UNCHANGED sync
  BY <1>1, <1>2 DEF IInv, SyncCovers
<1>3. CASE sync'.state # "answered"
  BY <1>3 DEF SyncCovers
<1> QED
  BY <1>2, <1>3

\* Nor do the frames change with the page's requests.
LEMMA StreamUntouched ==
  ASSUME IInv, UNCHANGED << base, log, sent, stream, wire >>,
         UNCHANGED source \/ (source # "open" /\ source' # "open")
  PROVE  FramesAreEvents' /\ StreamStands' /\ StreamGapless'
<1> USE DEF IInv
<1>1. Sequence' = Sequence
  BY DEF Sequence
<1>2. FramesAreEvents' /\ StreamGapless'
  BY DEF FramesAreEvents, StreamGapless
<1>3. StreamStands'
  BY <1>1 DEF StreamStands
<1> QED
  BY <1>2, <1>3

\* The connection is gone, and with it the stream and what it had sent.
LEMMA StreamGone ==
  ASSUME IInv, UNCHANGED << base, log, sent >>, wire' = << >>,
         stream'.pc \in { "none", "opening" }, stream'.pos = 0,
         stream'.pc = "opening" => source' = "open"
  PROVE  FramesAreEvents' /\ StreamStands' /\ StreamGapless'
<1>1. Len(wire') = 0
  OBVIOUS
<1>2. FramesAreEvents' /\ StreamGapless'
  BY <1>1 DEF FramesAreEvents, StreamGapless
<1>3. sent' >= 0
  BY DEF IInv, TypeOK
<1>4. StreamStands'
  BY <1>3 DEF StreamStands
<1> QED
  BY <1>2, <1>4

\* A frame more in the channel, a stream that opens, a number read.
LEMMA StreamStepKeeps ==
  ASSUME IInv, SendEvent \/ OpenStream \/ ReadLatest
  PROVE  IInv'
<1>1. /\ UNCHANGED << tasks, gone, base, log, wire, known, lastId, pending, sync, source,
                      error, answer, holes, changes, faults >>
      /\ Sequence' = Sequence
  BY DEF SendEvent, OpenStream, ReadLatest, serverVars, pageVars, bounds, Sequence
<1>2. Numbered' /\ Ordered' /\ PageStands' /\ PositionCovered'
  BY <1>1, Untouched
<1>3. SyncCovers'
  BY <1>1, SyncUntouched
<1>4. TypeOK /\ StreamStands
  BY DEF IInv
<1>5. /\ stream.pc \in { "none", "opening", "replay", "locked", "receive" }
      /\ stream.last \in Nat /\ stream.pos \in Nat /\ stream.latest \in Nat
      /\ stream.overrun \subseteq Nat
      /\ base \in Nat /\ sent \in Nat /\ Sequence \in Nat
      /\ Sequence = base + Len(log) /\ sent <= Len(log) /\ Len(log) \in Nat
  BY <1>4, StreamFields
<1>6. FramesAreEvents'
  BY <1>1 DEF IInv, FramesAreEvents
<1>7. /\ sent' \in 0 .. Len(log) /\ sent <= sent' /\ stream'.pos <= sent'
      /\ stream' \in [ pc : { "none", "opening", "replay", "locked", "receive" },
                       last : Nat, pos : Nat, latest : Nat, overrun : SUBSET Nat ]
      /\ stream'.last = stream.last /\ stream'.overrun = stream.overrun
      /\ stream'.pc = "none" <=> stream.pc = "none"
      /\ stream'.pc = "locked" => /\ base <= stream'.latest /\ stream'.latest <= Sequence
      /\ stream'.pc = "receive" => stream.pc = "receive" /\ stream'.pos = stream.pos
  <2>1. CASE SendEvent
    <3>1. sent # Len(log) /\ sent' = sent + 1 /\ stream' = stream
      BY <2>1 DEF SendEvent, Unlocked
    <3>2. sent' \in 0 .. Len(log) /\ sent <= sent' /\ stream.pos <= sent'
      BY <1>4, <1>5, <3>1 DEF StreamStands
    <3> QED
      BY <1>4, <3>1, <3>2 DEF TypeOK, StreamStands
  <2>2. CASE OpenStream
    <3>1. stream.pc = "opening" /\ sent' = sent
          /\ stream' = [ stream EXCEPT !.pc = "replay", !.pos = sent ]
      BY <2>2 DEF OpenStream, serverVars
    <3>2. stream' \in [ pc : { "none", "opening", "replay", "locked", "receive" },
                        last : Nat, pos : Nat, latest : Nat, overrun : SUBSET Nat ]
      BY <1>4, <1>5, <3>1 DEF TypeOK
    <3>3. /\ stream'.pc = "replay" /\ stream'.pos = sent /\ stream'.last = stream.last
          /\ stream'.overrun = stream.overrun
      BY <1>4, <3>1 DEF TypeOK
    <3> QED
      BY <1>5, <3>1, <3>2, <3>3
  <2>3. CASE ReadLatest
    <3>1. stream.pc = "replay" /\ sent' = sent
          /\ stream' = [ stream EXCEPT !.pc = "locked", !.latest = Sequence ]
      BY <2>3 DEF ReadLatest, serverVars
    <3>2. base <= Sequence
      BY <1>5
    <3>3. stream.pos <= sent
      BY <1>4 DEF StreamStands
    <3>4. stream' \in [ pc : { "none", "opening", "replay", "locked", "receive" },
                        last : Nat, pos : Nat, latest : Nat, overrun : SUBSET Nat ]
      BY <1>4, <1>5, <3>1 DEF TypeOK
    <3>5. /\ stream'.pc = "locked" /\ stream'.pos = stream.pos /\ stream'.last = stream.last
          /\ stream'.overrun = stream.overrun /\ stream'.latest = Sequence
      BY <1>4, <3>1 DEF TypeOK
    <3> QED
      BY <1>5, <3>1, <3>2, <3>3, <3>4, <3>5
  <2> QED
    BY <2>1, <2>2, <2>3
<1>8. TypeOK'
  BY <1>1, <1>4, <1>7 DEF TypeOK
<1>9. StreamStands'
  BY <1>1, <1>4, <1>7 DEF StreamStands
<1>10. StreamGapless'
  BY <1>1, <1>7 DEF IInv, StreamGapless
<1> QED
  BY <1>2, <1>3, <1>6, <1>8, <1>9, <1>10 DEF IInv

\* A request is sent.
LEMMA AskedIsTyped ==
  ASSUME TypeOK
  PROVE  /\ Asked \in [ state : { "none", "asked", "answered", "failed" },
                        tasks : [ Tasks -> Entry ], num : Nat ]
         /\ Asked = sync \/ Asked.state = "asked"
<1>1. CASE sync.state = "none"
  <2>1. Asked = [ sync EXCEPT !.state = "asked" ]
    BY <1>1 DEF Asked
  <2> QED
    BY <2>1 DEF TypeOK
<1>2. CASE sync.state # "none"
  BY <1>2 DEF Asked, TypeOK
<1> QED
  BY <1>1, <1>2

\* The requests and the connection, as far as they only change their own state.
LEMMA ConnectionKeeps ==
  ASSUME IInv, Poll \/ VisitTasks \/ Connect \/ SourceFails \/ BreakConnection
  PROVE  IInv'
<1>0. TypeOK
  BY DEF IInv
<1>1. UNCHANGED << tasks, gone, base, log, sent, known, lastId, pending, error, answer,
                   holes, changes >>
  BY DEF Poll, VisitTasks, Connect, SourceFails, BreakConnection, serverVars, bounds
<1>2. Numbered' /\ Ordered' /\ PageStands' /\ PositionCovered'
  BY <1>1, Untouched
<1>3. CASE Poll \/ VisitTasks \/ Connect
  <2>1. /\ UNCHANGED << stream, wire, faults >> /\ sync' = Asked
        /\ source' = source \/ (source = "waiting" /\ source' = "loading")
    BY <1>3 DEF Poll, VisitTasks, Connect, bounds
  <2>2. SyncCovers'
    BY <1>0, <1>1, <2>1, AskedIsTyped, SyncUntouched
  <2>3. FramesAreEvents' /\ StreamStands' /\ StreamGapless'
    BY <1>1, <2>1, StreamUntouched
  <2>4. TypeOK'
    BY <1>0, <1>1, <2>1, AskedIsTyped DEF TypeOK
  <2> QED
    BY <1>2, <2>2, <2>3, <2>4 DEF IInv
<1>4. CASE SourceFails
  <2>1. UNCHANGED << stream, wire, sync, faults >> /\ source = "broken" /\ source' = "waiting"
    BY <1>4 DEF SourceFails, bounds
  <2>2. SyncCovers'
    BY <1>1, <2>1, SyncUntouched
  <2>3. FramesAreEvents' /\ StreamStands' /\ StreamGapless'
    BY <1>1, <2>1, StreamUntouched
  <2>4. TypeOK'
    BY <1>0, <1>1, <2>1 DEF TypeOK
  <2> QED
    BY <1>2, <2>2, <2>3, <2>4 DEF IInv
<1>5. CASE BreakConnection
  <2>1. /\ source' = "broken" /\ stream' = NoStream /\ wire' = << >> /\ sync' = sync
        /\ faults < MaxFaults /\ faults' = faults + 1
    BY <1>5 DEF BreakConnection, Fault
  <2>2. SyncCovers'
    BY <1>1, <2>1, SyncUntouched
  <2>3. FramesAreEvents' /\ StreamStands' /\ StreamGapless'
    BY <1>1, <2>1, StreamGone DEF NoStream
  <2>4. TypeOK'
    <3>1. faults' \in 0 .. MaxFaults
      BY <1>0, <2>1, TaskFeedAssumption DEF TypeOK
    <3>2. wire' \in Seq(Event)
      BY <2>1
    <3>3. stream' \in [ pc : { "none", "opening", "replay", "locked", "receive" },
                        last : Nat, pos : Nat, latest : Nat, overrun : SUBSET Nat ]
      BY <2>1 DEF NoStream
    <3> QED
      BY <1>0, <1>1, <2>1, <3>1, <3>2, <3>3 DEF TypeOK
  <2> QED
    BY <1>2, <2>2, <2>3, <2>4 DEF IInv
<1> QED
  BY <1>3, <1>4, <1>5

-----------------------------------------------------------------------------
(* The page: snapshots.                                                     *)

\* connect() goes on: nothing changes, or it waits again, or the source is open and
\* the stream starts anew from the page's position.
LEMMA ConnectGoesOnKeeps ==
  ASSUME IInv, UNCHANGED << base, log, sent, wire >>, lastId' \in Nat,
         NEW failed, ConnectGoesOn(failed)
  PROVE  /\ FramesAreEvents' /\ StreamStands' /\ StreamGapless'
         /\ source' \in { "open", "broken", "waiting", "loading" }
         /\ stream' \in [ pc : { "none", "opening", "replay", "locked", "receive" },
                          last : Nat, pos : Nat, latest : Nat, overrun : SUBSET Nat ]
<1>0. TypeOK
  BY DEF IInv
<1>1. CASE source # "loading"
  <2>1. UNCHANGED << source, stream >>
    BY <1>1 DEF ConnectGoesOn
  <2> QED
    BY <1>0, <2>1, StreamUntouched DEF TypeOK
<1>2. CASE source = "loading" /\ failed
  <2>1. source' = "waiting" /\ stream' = stream
    BY <1>2 DEF ConnectGoesOn
  <2> QED
    BY <1>0, <1>2, <2>1, StreamUntouched DEF TypeOK
<1>3. CASE source = "loading" /\ ~ failed
  <2>1. /\ source' = "open"
        /\ stream' = [ NoStream EXCEPT !.pc = "opening", !.last = lastId' ]
    BY <1>3 DEF ConnectGoesOn
  <2>2. wire' = << >>
    BY <1>3 DEF IInv, StreamStands
  <2>3. stream'.pc = "opening" /\ stream'.pos = 0
    BY <2>1 DEF NoStream
  <2>4. FramesAreEvents' /\ StreamStands' /\ StreamGapless'
    BY <2>1, <2>2, <2>3, StreamGone
  <2>5. stream' \in [ pc : { "none", "opening", "replay", "locked", "receive" },
                      last : Nat, pos : Nat, latest : Nat, overrun : SUBSET Nat ]
    BY <2>1 DEF NoStream
  <2> QED
    BY <2>1, <2>4, <2>5
<1> QED
  BY <1>1, <1>2, <1>3

\* The server answers with all it has.
LEMMA AnswerSnapshotKeeps ==
  ASSUME IInv, AnswerSnapshot
  PROVE  IInv'
<1>0. TypeOK /\ Numbered /\ Ordered
  BY DEF IInv
<1>1. /\ UNCHANGED << tasks, gone, base, log, sent, stream, wire, known, lastId, pending,
                      source, error, answer, holes, changes, faults >>
      /\ sync' = [ state |-> "answered", tasks |-> tasks, num |-> Sequence ]
      /\ Sequence' = Sequence
  BY DEF AnswerSnapshot, serverVars, bounds, Sequence
<1>2. Numbered' /\ Ordered' /\ PageStands' /\ PositionCovered'
  BY <1>1, Untouched
<1>3. FramesAreEvents' /\ StreamStands' /\ StreamGapless'
  BY <1>1, StreamUntouched
<1>4. Sequence \in Nat
  BY <1>0, StreamFields
<1>5. TypeOK'
  BY <1>0, <1>1, <1>4 DEF TypeOK
<1>6. /\ sync'.state = "answered" /\ sync'.tasks = tasks /\ sync'.num = Sequence
  BY <1>1
<1>7. SyncCovers'
  <2> SUFFICES ASSUME NEW i \in 1 .. Len(log)
               PROVE  IF log[i].kind = "deleted" THEN tasks[log[i].task] = Absent
                      ELSE log[i].task \notin gone
                             => tasks[log[i].task].rev >= log[i].entry.rev
    BY <1>1, <1>4, <1>6 DEF SyncCovers
  <2>1. log[i].task \in Tasks /\ log[i].entry \in Entry
    <3>1. log[i] \in Event
      BY <1>0 DEF TypeOK
    <3> QED
      BY <1>0, <3>1 DEF Event, Numbered
  <2>2. log[i].entry.rev \in Nat /\ tasks[log[i].task].rev \in Nat
    BY <1>0, <2>1, EntriesAreTyped DEF TypeOK
  <2> QED
    BY <1>0, <2>2 DEF Ordered
<1> QED
  BY <1>2, <1>3, <1>5, <1>7 DEF IInv

\* The request fails.
LEMMA SnapshotFailsKeeps ==
  ASSUME IInv, SnapshotFails
  PROVE  IInv'
<1>0. TypeOK
  BY DEF IInv
<1>1. /\ UNCHANGED << tasks, gone, base, log, sent, wire, known, lastId, pending, answer,
                      holes, changes >>
      /\ sync' = NoSync /\ error' = TRUE /\ ConnectGoesOn(TRUE)
      /\ faults' = faults \/ (faults < MaxFaults /\ faults' = faults + 1)
  BY DEF SnapshotFails, Fault, serverVars
<1>2. Numbered' /\ Ordered' /\ PageStands' /\ PositionCovered'
  BY <1>1, Untouched
<1>3. /\ FramesAreEvents' /\ StreamStands' /\ StreamGapless'
      /\ source' \in { "open", "broken", "waiting", "loading" }
      /\ stream' \in [ pc : { "none", "opening", "replay", "locked", "receive" },
                       last : Nat, pos : Nat, latest : Nat, overrun : SUBSET Nat ]
  BY <1>0, <1>1, ConnectGoesOnKeeps DEF TypeOK
<1>4. SyncCovers'
  BY <1>1 DEF SyncCovers, NoSync
<1>5. TypeOK'
  <2>1. faults' \in 0 .. MaxFaults
    BY <1>0, <1>1, TaskFeedAssumption DEF TypeOK
  <2>2. sync' \in [ state : { "none", "asked", "answered", "failed" },
                    tasks : [ Tasks -> Entry ], num : Nat ]
    BY <1>1, EntriesAreTyped DEF NoSync
  <2> QED
    BY <1>0, <1>1, <1>3, <2>1, <2>2 DEF TypeOK
<1> QED
  BY <1>2, <1>3, <1>4, <1>5 DEF IInv

\* The newer revision wins, and what the snapshot lacks stays.
LEMMA MergeWins ==
  ASSUME NEW shown \in [ Tasks -> Entry ], NEW snapshot \in [ Tasks -> Entry ]
  PROVE  /\ Merge(shown, snapshot) \in [ Tasks -> Entry ]
         /\ \A t \in Tasks :
              /\ Merge(shown, snapshot)[t].rev \in Nat
              /\ Merge(shown, snapshot)[t].rev >= shown[t].rev
              /\ Merge(shown, snapshot)[t].rev >= snapshot[t].rev
              /\ snapshot[t] = Absent => Merge(shown, snapshot)[t] = shown[t]
<1>1. ASSUME NEW t \in Tasks
      PROVE  /\ Merge(shown, snapshot)[t] \in Entry
             /\ Merge(shown, snapshot)[t].rev \in Nat
             /\ Merge(shown, snapshot)[t].rev >= shown[t].rev
             /\ Merge(shown, snapshot)[t].rev >= snapshot[t].rev
             /\ snapshot[t] = Absent => Merge(shown, snapshot)[t] = shown[t]
  <2>1. /\ shown[t] \in Entry /\ snapshot[t] \in Entry
        /\ shown[t].rev \in Nat /\ snapshot[t].rev \in Nat
    BY EntriesAreTyped
  <2>2. Merge(shown, snapshot)[t] =
          IF snapshot[t] = Absent \/ shown[t].rev > snapshot[t].rev
          THEN shown[t] ELSE snapshot[t]
    BY DEF Merge
  <2>3. snapshot[t] = Absent => snapshot[t].rev = 0
    BY EntriesAreTyped
  <2> QED
    BY <2>1, <2>2, <2>3
<1>2. Merge(shown, snapshot) \in [ Tasks -> Entry ]
  BY <1>1 DEF Merge
<1> QED
  BY <1>1, <1>2

\* A snapshot is dropped or taken; if it is taken, it mends what went wrong before
\* it, and covers all the page is then said to know.
LEMMA ReceiveSnapshotKeeps ==
  ASSUME IInv, ReceiveSnapshot
  PROVE  IInv'
<1>0. TypeOK /\ Numbered /\ Ordered /\ SyncCovers /\ PageStands
  BY DEF IInv
<1>1. /\ UNCHANGED << tasks, gone, base, log, sent, wire, answer, changes, faults >>
      /\ sync.state = "answered" /\ sync' = NoSync /\ ConnectGoesOn(error')
      /\ Sequence' = Sequence
  BY DEF ReceiveSnapshot, serverVars, bounds, Sequence
<1>2. /\ sync.tasks \in [ Tasks -> Entry ] /\ sync.num \in Nat
      /\ known \in [ Tasks -> Entry ] /\ lastId \in Nat
      /\ pending \in [ Tasks -> Entry ]
  BY <1>0 DEF TypeOK
<1>3. SyncCovers'
  BY <1>1 DEF SyncCovers, NoSync
<1>4. sync' \in [ state : { "none", "asked", "answered", "failed" },
                  tasks : [ Tasks -> Entry ], num : Nat ]
  BY <1>1, EntriesAreTyped DEF NoSync
<1>5. CASE sync.num < lastId
  <2>1. UNCHANGED << known, lastId, pending, error, holes >>
    BY <1>5 DEF ReceiveSnapshot
  <2>2. Numbered' /\ Ordered' /\ PageStands' /\ PositionCovered'
    BY <1>1, <2>1, Untouched
  <2>3. /\ FramesAreEvents' /\ StreamStands' /\ StreamGapless'
        /\ source' \in { "open", "broken", "waiting", "loading" }
        /\ stream' \in [ pc : { "none", "opening", "replay", "locked", "receive" },
                         last : Nat, pos : Nat, latest : Nat, overrun : SUBSET Nat ]
    BY <1>1, <1>2, <2>1, ConnectGoesOnKeeps
  <2>4. TypeOK'
    BY <1>0, <1>1, <1>4, <2>1, <2>3 DEF TypeOK
  <2> QED
    BY <1>3, <2>2, <2>3, <2>4 DEF IInv
<1>6. CASE ~ sync.num < lastId
  <2>1. /\ holes' = { hole \in holes : hole.num > sync.num }
        /\ known' = Merge(known, sync.tasks)
        /\ lastId' = sync.num
        /\ pending' = [ t \in Tasks |-> Absent ]
        /\ error' = FALSE
    BY <1>6 DEF ReceiveSnapshot
  <2>2. /\ FramesAreEvents' /\ StreamStands' /\ StreamGapless'
        /\ source' \in { "open", "broken", "waiting", "loading" }
        /\ stream' \in [ pc : { "none", "opening", "replay", "locked", "receive" },
                         last : Nat, pos : Nat, latest : Nat, overrun : SUBSET Nat ]
    BY <1>1, <1>2, <2>1, ConnectGoesOnKeeps
  <2>3. known' \in [ Tasks -> Entry ] /\ pending' \in [ Tasks -> Entry ]
    BY <1>2, <2>1, MergeWins, EntriesAreTyped
  <2>4. TypeOK'
    <3>1. holes' \subseteq [ why : { "resync", "gap", "overwritten", "renumbered" }, num : Nat ]
      BY <1>0, <2>1 DEF TypeOK
    <3>2. lastId' \in Nat /\ error' \in BOOLEAN
      BY <1>2, <2>1
    <3> QED
      BY <1>0, <1>1, <1>4, <2>2, <2>3, <3>1, <3>2 DEF TypeOK
  <2>5. Numbered' /\ Ordered'
    BY <1>0, <1>1 DEF Numbered, Ordered
  <2>6. PageStands'
    <3>1. lastId' <= Sequence'
      BY <1>0, <1>1, <2>1 DEF SyncCovers
    <3> QED
      BY <2>1, <3>1 DEF PageStands
  <2>7. PositionCovered'
    <3> SUFFICES ASSUME NEW i \in 1 .. Len(log), log[i].num <= sync.num,
                        log[i].task \notin gone
                 PROVE  known'[log[i].task].rev >= log[i].entry.rev
      BY <1>1, <2>1 DEF PositionCovered
    <3>1. log[i].kind # "deleted"
      BY <1>0 DEF Ordered
    <3>2. sync.tasks[log[i].task].rev >= log[i].entry.rev
      BY <1>0, <1>1, <3>1 DEF SyncCovers
    <3>3. log[i].task \in Tasks /\ log[i].entry \in Entry
      <4>1. log[i] \in Event
        BY <1>0 DEF TypeOK
      <4> QED
        BY <1>0, <4>1 DEF Event, Numbered
    <3>4. log[i].entry.rev \in Nat /\ sync.tasks[log[i].task].rev \in Nat
      BY <1>2, <3>3, EntriesAreTyped
    <3>5. /\ known'[log[i].task].rev >= sync.tasks[log[i].task].rev
          /\ known'[log[i].task].rev \in Nat
      BY <1>2, <2>1, <3>3, MergeWins
    <3> QED
      BY <3>2, <3>4, <3>5
  <2> QED
    BY <1>3, <2>2, <2>4, <2>5, <2>6, <2>7 DEF IInv
<1> QED
  BY <1>5, <1>6

-----------------------------------------------------------------------------
(* The page: events.                                                        *)

\* Of two entries the newer one stays.
LEMMA AppliedWins ==
  ASSUME NEW shown \in Entry, NEW entry \in Entry
  PROVE  /\ Applied(shown, entry) \in Entry
         /\ Applied(shown, entry).rev \in Nat
         /\ Applied(shown, entry).rev >= shown.rev
         /\ Applied(shown, entry).rev >= entry.rev
<1>1. shown.rev \in Nat /\ entry.rev \in Nat
  BY EntriesAreTyped
<1> QED
  BY <1>1 DEF Applied

\* The first frame, if it is an event, is one of the log, and its place there.
LEMMA FirstFrame ==
  ASSUME IInv, wire # << >>
  PROVE  /\ Head(wire) \in Event /\ Head(wire).num \in Nat
         /\ Head(wire).entry \in Entry
         /\ Head(wire).kind # "resync" =>
              /\ Head(wire).kind \in { "updated", "deleted" }
              /\ \E j \in 1 .. Len(log) : Head(wire) = log[j]
              /\ Head(wire).task \in Tasks
              /\ Head(wire).num <= Sequence
<1>1. wire \in Seq(Event) /\ Len(wire) \in Nat \ { 0 } /\ Head(wire) = wire[1]
  BY DEF IInv, TypeOK
<1>2. Head(wire) \in Event
  BY <1>1
<1>3. ASSUME Head(wire).kind # "resync"
      PROVE  /\ Head(wire).kind \in { "updated", "deleted" }
             /\ \E j \in 1 .. Len(log) : Head(wire) = log[j]
             /\ Head(wire).task \in Tasks
             /\ Head(wire).num <= Sequence
  <2>1. PICK j \in 1 .. Len(log) : wire[1] = log[j]
    BY <1>1, <1>3 DEF IInv, FramesAreEvents
  <2>2. log[j].num = base + j /\ log[j].task \in Tasks
    BY DEF IInv, Numbered
  <2>3. base \in Nat /\ Len(log) \in Nat /\ Sequence = base + Len(log)
    BY StreamFields DEF IInv
  <2>4. Head(wire).num <= Sequence
    BY <1>1, <2>1, <2>2, <2>3
  <2> QED
    BY <1>1, <1>2, <1>3, <2>1, <2>2, <2>4 DEF Event
<1> QED
  BY <1>2, <1>3 DEF Event

\* The frames that are left go on as before.
LEMMA TailKeepsStream ==
  ASSUME IInv, wire # << >>, source = "open", wire' = Tail(wire),
         UNCHANGED << base, log, sent, stream, source >>
  PROVE  FramesAreEvents' /\ StreamStands' /\ StreamGapless' /\ wire' \in Seq(Event)
<1>1. wire \in Seq(Event) /\ Len(wire) \in Nat \ { 0 }
  BY DEF IInv, TypeOK
<1>2. /\ wire' \in Seq(Event) /\ Len(wire') = Len(wire) - 1
      /\ \A i \in 1 .. Len(wire') : wire'[i] = wire[i + 1]
  BY <1>1
<1>3. FramesAreEvents'
  <2> SUFFICES ASSUME NEW i \in 1 .. Len(wire')
               PROVE  wire'[i].kind = "resync" \/ \E j \in 1 .. Len(log) : wire'[i] = log[j]
    BY DEF FramesAreEvents
  <2>1. i + 1 \in 1 .. Len(wire) /\ wire'[i] = wire[i + 1]
    BY <1>1, <1>2
  <2> QED
    BY <2>1 DEF IInv, FramesAreEvents
<1>4. StreamStands'
  <2>1. wire' # << >> => wire'[Len(wire')] = wire[Len(wire)]
    BY <1>1, <1>2
  <2>2. Sequence' = Sequence
    BY DEF Sequence
  <2> QED
    BY <2>1, <2>2 DEF IInv, StreamStands
<1>5. StreamGapless'
  <2> SUFFICES ASSUME NEW i \in 1 .. Len(wire') - 1
               PROVE  \/ wire'[i + 1].num = wire'[i].num + 1
                      \/ /\ wire'[i + 1].num > wire'[i].num
                         /\ wire'[i + 1].kind = "resync" \/ wire'[i + 1].num \in stream.overrun
    BY DEF StreamGapless
  <2>1. /\ i + 1 \in 1 .. Len(wire) - 1
        /\ wire'[i] = wire[i + 1] /\ wire'[i + 1] = wire[(i + 1) + 1]
    BY <1>1, <1>2
  <2> DEFINE k == i + 1
  <2>2. k \in 1 .. Len(wire) - 1 /\ wire'[i] = wire[k] /\ wire'[k] = wire[k + 1]
    BY <2>1
  <2> HIDE DEF k
  <2>3. \/ wire[k + 1].num = wire[k].num + 1
        \/ /\ wire[k + 1].num > wire[k].num
           /\ wire[k + 1].kind = "resync" \/ wire[k + 1].num \in stream.overrun
    BY <2>2 DEF IInv, StreamGapless
  <2> QED
    BY <2>2, <2>3 DEF k
<1> QED
  BY <1>2, <1>3, <1>4, <1>5

\* What reading a frame does to what the page has: it is skipped, it shows a gap,
\* or it is the next event.
SkipsFrame(event) ==
  /\ event.kind = "resync" \/ event.num <= lastId
  /\ holes' = holes \/ holes' = holes \cup { Hole("resync", event.num) }
  /\ holes' = holes \/ event.num > lastId
  /\ UNCHANGED << known, lastId, pending, sync >>
SeesGap(event) ==
  /\ event.kind # "resync" /\ event.num > lastId
  /\ lastId' = event.num
  /\ holes' = holes \cup { Hole("gap", event.num) }
  /\ sync' = Asked
  /\ UNCHANGED << known, pending >>
TakesEvent(event) ==
  /\ event.kind # "resync" /\ event.num = lastId + 1
  /\ lastId' = event.num
  /\ UNCHANGED << holes, sync >>
  /\ \/ /\ event.kind = "updated"
        /\ pending' = [ pending EXCEPT ![event.task] = event.entry ]
        /\ UNCHANGED known
     \/ /\ pending' = [ pending EXCEPT ![event.task] = Absent ]
        /\ known' = [ known EXCEPT ![event.task] =
                        IF event.kind = "deleted" THEN Absent
                        ELSE Applied(@, event.entry) ]

\* One of these three happens.
LEMMA ReadDoes ==
  ASSUME IInv, ReadEvent
  PROVE  /\ SkipsFrame(Head(wire)) \/ SeesGap(Head(wire)) \/ TakesEvent(Head(wire))
         /\ source = "open" /\ wire # << >> /\ wire' = Tail(wire)
         /\ UNCHANGED << tasks, gone, base, log, sent, stream, source, error, answer,
                         changes, faults >>
<1> DEFINE event == Head(wire)
<1>1. /\ source = "open" /\ wire # << >> /\ wire' = Tail(wire)
      /\ UNCHANGED << tasks, gone, base, log, sent, stream, source, error, answer,
                      changes, faults >>
  BY DEF ReadEvent, serverVars, bounds
<1>2. event.num \in Nat /\ lastId \in Nat
  BY <1>1, FirstFrame DEF IInv, TypeOK
<1>3. CASE event.kind = "resync" \/ event.num <= lastId
  <2>1. /\ holes' = IF event.num > lastId THEN holes \cup { Hole("resync", event.num) }
                    ELSE holes
        /\ UNCHANGED << known, lastId, pending, sync >>
    BY <1>3 DEF ReadEvent
  <2> HIDE DEF event
  <2>2. SkipsFrame(event)
    BY <1>3, <2>1 DEF SkipsFrame
  <2> QED
    BY <1>1, <2>2 DEF event
<1>4. CASE ~ (event.kind = "resync" \/ event.num <= lastId)
  <2>1. event.kind # "resync" /\ event.num > lastId /\ lastId' = event.num
    BY <1>2, <1>4 DEF ReadEvent
  <2>2. CASE event.num # lastId + 1
    <3>1. /\ holes' = holes \cup { Hole("gap", event.num) }
          /\ sync' = Asked /\ UNCHANGED << known, pending >>
      BY <1>4, <2>2 DEF ReadEvent
    <3> HIDE DEF event
    <3>2. SeesGap(event)
      BY <2>1, <3>1 DEF SeesGap
    <3> QED
      BY <1>1, <3>2 DEF event
  <2>3. CASE event.num = lastId + 1
    <3>1. /\ holes' = holes /\ sync' = sync
          /\ \/ /\ event.kind = "updated"
                /\ pending' = [ pending EXCEPT ![event.task] = event.entry ]
                /\ known' = known
             \/ /\ pending' = [ pending EXCEPT ![event.task] = Absent ]
                /\ known' = [ known EXCEPT ![event.task] =
                                IF event.kind = "deleted" THEN Absent
                                ELSE Applied(@, event.entry) ]
      BY <1>4, <2>3 DEF ReadEvent
    <3> HIDE DEF event
    <3>2. TakesEvent(event)
      BY <2>1, <2>3, <3>1 DEF TakesEvent
    <3> QED
      BY <1>1, <3>2 DEF event
  <2> QED
    BY <2>2, <2>3
<1> QED
  BY <1>3, <1>4

\* A frame is read: what stays the same in every case.
LEMMA ReadLeaves ==
  ASSUME IInv, ReadEvent
  PROVE  /\ Numbered' /\ Ordered'
         /\ FramesAreEvents' /\ StreamStands' /\ StreamGapless'
         /\ SyncCovers'
         /\ Sequence' = Sequence
<1>0. TypeOK /\ Numbered /\ Ordered
  BY DEF IInv
<1>1. /\ SkipsFrame(Head(wire)) \/ SeesGap(Head(wire)) \/ TakesEvent(Head(wire))
      /\ source = "open" /\ wire # << >> /\ wire' = Tail(wire)
      /\ UNCHANGED << tasks, gone, base, log, sent, stream, source >>
  BY ReadDoes
<1>2. FramesAreEvents' /\ StreamStands' /\ StreamGapless'
  BY <1>1, TailKeepsStream
<1>3. UNCHANGED sync \/ sync'.state # "answered"
  BY <1>0, <1>1, AskedIsTyped DEF SkipsFrame, SeesGap, TakesEvent
<1>4. SyncCovers'
  BY <1>1, <1>3, SyncUntouched
<1>5. Numbered' /\ Ordered'
  BY <1>0, <1>1 DEF Numbered, Ordered
<1> QED
  BY <1>1, <1>2, <1>4, <1>5 DEF Sequence

\* What the page is told of each task's deletion does not change with its holes.
LEMMA HolesOnlyGrow ==
  ASSUME IInv, UNCHANGED << gone, base, log, lastId, pending >>, holes \subseteq holes'
  PROVE  PageStands'
<1>1. Sequence' = Sequence
  BY DEF Sequence
<1>2. Followed' => Followed
  BY DEF Followed
<1>3. \A t \in Tasks : ToldDeleted(t)' <=> ToldDeleted(t)
  BY DEF ToldDeleted
<1> QED
  BY <1>1, <1>2, <1>3 DEF IInv, PageStands

\* A frame that is skipped.
LEMMA SkipKeeps ==
  ASSUME IInv, ReadEvent, SkipsFrame(Head(wire))
  PROVE  IInv'
<1>0. TypeOK
  BY DEF IInv
<1>1. /\ wire # << >>
      /\ UNCHANGED << tasks, gone, base, log, sent, stream, source, error, answer,
                      changes, faults >>
      /\ wire' \in Seq(Event)
  BY ReadDoes, TailKeepsStream
<1> DEFINE event == Head(wire)
<1>2. event.num \in Nat
  BY <1>1, FirstFrame
<1>3. /\ UNCHANGED << known, lastId, pending, sync >>
      /\ holes' = holes \/ holes' = holes \cup { Hole("resync", event.num) }
  BY DEF SkipsFrame
<1> HIDE DEF event
<1>4. Hole("resync", event.num) \in
        [ why : { "resync", "gap", "overwritten", "renumbered" }, num : Nat ]
  BY <1>2 DEF Hole
<1>5. TypeOK'
  BY <1>0, <1>1, <1>3, <1>4 DEF TypeOK
<1>6. PageStands'
  BY <1>1, <1>3, HolesOnlyGrow
<1>7. PositionCovered'
  BY <1>1, <1>3 DEF IInv, PositionCovered
<1> QED
  BY <1>5, <1>6, <1>7, ReadLeaves DEF IInv

\* A frame behind a gap: the page has a hole.
LEMMA GapKeeps ==
  ASSUME IInv, ReadEvent, SeesGap(Head(wire))
  PROVE  IInv'
<1>0. TypeOK
  BY DEF IInv
<1>1. /\ wire # << >>
      /\ UNCHANGED << tasks, gone, base, log, sent, stream, source, error, answer,
                      changes, faults >>
      /\ wire' \in Seq(Event)
  BY ReadDoes, TailKeepsStream
<1> DEFINE event == Head(wire)
<1>2. event.num \in Nat /\ event.num <= Sequence
  BY <1>1, FirstFrame DEF SeesGap
<1>3. /\ lastId' = event.num
      /\ holes' = holes \cup { Hole("gap", event.num) }
      /\ sync' = Asked
      /\ UNCHANGED << known, pending >>
  BY DEF SeesGap
<1> HIDE DEF event
<1>4. /\ Hole("gap", event.num) \in
           [ why : { "resync", "gap", "overwritten", "renumbered" }, num : Nat ]
      /\ Hole("gap", event.num) \in holes' /\ Hole("gap", event.num).why = "gap"
  BY <1>2, <1>3 DEF Hole
<1>5. TypeOK'
  BY <1>0, <1>1, <1>2, <1>3, <1>4, AskedIsTyped DEF TypeOK
<1>6. PageStands'
  <2>1. ~ Followed'
    BY <1>4 DEF Followed
  <2>2. lastId' <= Sequence'
    BY <1>2, <1>3, ReadLeaves
  <2> QED
    BY <2>1, <2>2 DEF PageStands
<1>7. PositionCovered'
  BY <1>4 DEF PositionCovered
<1> QED
  BY <1>5, <1>6, <1>7, ReadLeaves DEF IInv

\* The next event: it is the last one told of its task, and what the page now has
\* of that task is as new as the event.
LEMMA TakeKeeps ==
  ASSUME IInv, ReadEvent, TakesEvent(Head(wire))
  PROVE  IInv'
<1>0. TypeOK /\ Numbered /\ Ordered /\ PageStands /\ PositionCovered
  BY DEF IInv
<1>1. /\ wire # << >>
      /\ UNCHANGED << tasks, gone, base, log, sent, stream, source, error, answer,
                      changes, faults >>
      /\ wire' \in Seq(Event)
  BY ReadDoes, TailKeepsStream
<1> DEFINE event == Head(wire)
<1>2. /\ event.num \in Nat /\ event.num <= Sequence
      /\ event.kind \in { "updated", "deleted" }
      /\ event.task \in Tasks /\ event.entry \in Entry
  BY <1>1, FirstFrame DEF TakesEvent
<1>3. PICK j \in 1 .. Len(log) : event = log[j]
  BY <1>1, FirstFrame DEF TakesEvent
<1>4. /\ event.num = lastId + 1 /\ lastId' = event.num
      /\ UNCHANGED << holes, sync >>
      /\ \/ /\ event.kind = "updated"
            /\ pending' = [ pending EXCEPT ![event.task] = event.entry ]
            /\ UNCHANGED known
         \/ /\ pending' = [ pending EXCEPT ![event.task] = Absent ]
            /\ known' = [ known EXCEPT ![event.task] =
                            IF event.kind = "deleted" THEN Absent
                            ELSE Applied(@, event.entry) ]
  BY DEF TakesEvent
<1> HIDE DEF event
<1>5. /\ known \in [ Tasks -> Entry ] /\ pending \in [ Tasks -> Entry ]
      /\ lastId \in Nat /\ base \in Nat /\ Len(log) \in Nat
  BY <1>0, StreamFields DEF TypeOK
<1>6. /\ known' \in [ Tasks -> Entry ] /\ pending' \in [ Tasks -> Entry ]
      /\ \A t \in Tasks : t # event.task => known'[t] = known[t] /\ pending'[t] = pending[t]
      /\ \/ event.kind = "updated" /\ pending'[event.task] = event.entry
         \/ /\ pending'[event.task] = Absent
            /\ event.kind # "deleted" =>
                 known'[event.task] = Applied(known[event.task], event.entry)
  <2>1. Applied(known[event.task], event.entry) \in Entry /\ Absent \in Entry
    BY <1>2, <1>5, AppliedWins, EntriesAreTyped
  <2> QED
    BY <1>2, <1>4, <1>5, <2>1
<1>7. TypeOK'
  BY <1>0, <1>1, <1>2, <1>4, <1>6 DEF TypeOK
<1>8. log[j].num = base + j /\ \A i \in 1 .. Len(log) : log[i].num = base + i
  BY <1>0 DEF Numbered
<1>9. ASSUME NEW i \in 1 .. Len(log), log[i].num <= lastId'
      PROVE  /\ i <= j
             /\ i # j => log[i].num <= lastId
  BY <1>3, <1>4, <1>5, <1>8, <1>9
<1>10. PageStands'
  <2>1. lastId' <= Sequence'
    BY <1>2, <1>4, ReadLeaves
  <2>2. ASSUME NEW t \in Tasks, ToldDeleted(t)', Followed' PROVE pending'[t] = Absent
    <3>1. PICK i \in 1 .. Len(log) :
            log[i].kind = "deleted" /\ log[i].task = t /\ log[i].num <= lastId'
      BY <1>1, <2>2 DEF ToldDeleted
    <3>2. i <= j /\ (i # j => log[i].num <= lastId)
      BY <1>9, <3>1
    <3>3. CASE t = event.task
      <4>1. i = j
        BY <1>0, <1>3, <3>1, <3>2, <3>3 DEF Ordered
      <4>2. event.kind = "deleted"
        BY <1>3, <3>1, <4>1
      <4> QED
        BY <1>6, <3>3, <4>2
    <3>4. CASE t # event.task
      <4>1. log[i].num <= lastId
        BY <1>3, <3>1, <3>2, <3>4
      <4>2. ToldDeleted(t)
        BY <3>1, <4>1 DEF ToldDeleted
      <4>3. Followed
        BY <1>4, <2>2 DEF Followed
      <4>4. pending[t] = Absent
        BY <1>0, <4>2, <4>3 DEF PageStands
      <4> QED
        BY <1>6, <3>4, <4>4
    <3> QED
      BY <3>3, <3>4
  <2> QED
    BY <2>1, <2>2 DEF PageStands
<1>11. PositionCovered'
  <2> SUFFICES ASSUME holes = {}, NEW i \in 1 .. Len(log), log[i].num <= lastId',
                      log[i].task \notin gone
               PROVE  \/ known'[log[i].task].rev >= log[i].entry.rev
                      \/ pending'[log[i].task].rev >= log[i].entry.rev
    BY <1>1, <1>4 DEF PositionCovered
  <2>1. i <= j /\ (i # j => log[i].num <= lastId)
    BY <1>9
  <2>2. log[i].task \in Tasks /\ log[i].entry.rev \in Nat /\ event.entry.rev \in Nat
    <3>1. log[i] \in Event
      BY <1>0 DEF TypeOK
    <3> QED
      BY <1>0, <1>2, <3>1, EntriesAreTyped DEF Event, Numbered
  <2>3. CASE log[i].task = event.task
    <3>1. log[i].entry.rev <= event.entry.rev
      BY <1>0, <1>3, <2>1, <2>3 DEF Ordered
    <3>2. event.kind # "deleted"
      BY <1>0, <1>3, <2>3 DEF Ordered
    <3>3. CASE pending'[event.task] = event.entry
      BY <2>2, <2>3, <3>1, <3>3
    <3>4. CASE known'[event.task] = Applied(known[event.task], event.entry)
      <4>1. /\ known'[event.task].rev >= event.entry.rev
            /\ known'[event.task].rev \in Nat
        BY <1>2, <1>5, <3>4, AppliedWins
      <4> QED
        BY <2>2, <2>3, <3>1, <4>1
    <3> QED
      BY <1>6, <3>2, <3>3, <3>4
  <2>4. CASE log[i].task # event.task
    <3>1. log[i].num <= lastId
      BY <1>3, <2>1, <2>4
    <3>2. \/ known[log[i].task].rev >= log[i].entry.rev
          \/ pending[log[i].task].rev >= log[i].entry.rev
      BY <1>0, <3>1 DEF PositionCovered
    <3> QED
      BY <1>6, <2>2, <2>4, <3>2
  <2> QED
    BY <2>3, <2>4
<1> QED
  BY <1>7, <1>10, <1>11, ReadLeaves DEF IInv

\* A frame is read.
LEMMA ReadKeeps ==
  ASSUME IInv, ReadEvent
  PROVE  IInv'
BY ReadDoes, SkipKeeps, GapKeeps, TakeKeeps

\* The updates held back are shown.
LEMMA FlushKeeps ==
  ASSUME IInv, FlushProgress
  PROVE  IInv'
<1>0. TypeOK /\ Numbered /\ Ordered /\ PageStands /\ PositionCovered
  BY DEF IInv
<1>1. /\ known' = [ t \in Tasks |-> IF pending[t] = Absent THEN known[t]
                                    ELSE Applied(known[t], pending[t]) ]
      /\ pending' = [ t \in Tasks |-> Absent ]
      /\ UNCHANGED << tasks, gone, base, log, sent, stream, wire, lastId, sync, source,
                      error, answer, holes, changes, faults >>
  BY DEF FlushProgress, serverVars, bounds
<1>2. known \in [ Tasks -> Entry ] /\ pending \in [ Tasks -> Entry ]
  BY <1>0 DEF TypeOK
<1>3. ASSUME NEW t \in Tasks
      PROVE  /\ known'[t] \in Entry /\ known'[t].rev \in Nat
             /\ known'[t].rev >= known[t].rev
             /\ known'[t].rev >= pending[t].rev
  <2>1. /\ known[t] \in Entry /\ pending[t] \in Entry
        /\ known[t].rev \in Nat /\ pending[t].rev \in Nat
    BY <1>2, EntriesAreTyped
  <2>2. known'[t] = IF pending[t] = Absent THEN known[t]
                    ELSE Applied(known[t], pending[t])
    BY <1>1
  <2>3. pending[t] = Absent => pending[t].rev = 0
    BY EntriesAreTyped
  <2> QED
    BY <2>1, <2>2, <2>3, AppliedWins
<1>4. known' \in [ Tasks -> Entry ] /\ pending' \in [ Tasks -> Entry ]
  BY <1>1, <1>3, EntriesAreTyped
<1>5. TypeOK'
  BY <1>0, <1>1, <1>4 DEF TypeOK
<1>6. FramesAreEvents' /\ StreamStands' /\ StreamGapless'
  BY <1>1, StreamUntouched
<1>7. SyncCovers'
  BY <1>1, SyncUntouched
<1>8. Numbered' /\ Ordered'
  BY <1>0, <1>1 DEF Numbered, Ordered
<1>9. PageStands'
  <2>1. Sequence' = Sequence
    BY <1>1 DEF Sequence
  <2>2. \A t \in Tasks : pending'[t] = Absent
    BY <1>1
  <2> QED
    BY <1>0, <1>1, <2>1, <2>2 DEF PageStands
<1>10. PositionCovered'
  <2> SUFFICES ASSUME holes = {}, NEW i \in 1 .. Len(log), log[i].num <= lastId,
                      log[i].task \notin gone
               PROVE  known'[log[i].task].rev >= log[i].entry.rev
    BY <1>1 DEF PositionCovered
  <2>1. log[i].task \in Tasks /\ log[i].entry.rev \in Nat
    <3>1. log[i] \in Event
      BY <1>0 DEF TypeOK
    <3> QED
      BY <1>0, <3>1, EntriesAreTyped DEF Event, Numbered
  <2>2. \/ known[log[i].task].rev >= log[i].entry.rev
        \/ pending[log[i].task].rev >= log[i].entry.rev
    BY <1>0 DEF PositionCovered
  <2>3. known[log[i].task].rev \in Nat /\ pending[log[i].task].rev \in Nat
    BY <1>2, <2>1, EntriesAreTyped
  <2> QED
    BY <1>3, <2>1, <2>2, <2>3
<1> QED
  BY <1>5, <1>6, <1>7, <1>8, <1>9, <1>10 DEF IInv

\* The answer replaces what the page has; an older one is a hole.
LEMMA AnswerKeeps ==
  ASSUME IInv, ReceiveAnswer
  PROVE  IInv'
<1>0. TypeOK /\ Numbered /\ Ordered /\ PageStands /\ PositionCovered
  BY DEF IInv
<1>1. /\ known' = [ known EXCEPT ![answer.task] = answer.entry ]
      /\ answer' = NoAnswer
      /\ holes' = IF answer.entry.rev < known[answer.task].rev
                  THEN holes \cup { Hole("overwritten", lastId) } ELSE holes
      /\ UNCHANGED << tasks, gone, base, log, sent, stream, wire, lastId, pending, sync,
                      source, error, changes, faults >>
  BY DEF ReceiveAnswer, serverVars, bounds
<1>2. /\ known \in [ Tasks -> Entry ] /\ pending \in [ Tasks -> Entry ]
      /\ answer.entry \in Entry
  BY <1>0 DEF TypeOK
<1>3. holes \subseteq holes'
      /\ holes' \subseteq [ why : { "resync", "gap", "overwritten", "renumbered" }, num : Nat ]
  <2>1. Hole("overwritten", lastId) \in
          [ why : { "resync", "gap", "overwritten", "renumbered" }, num : Nat ]
    BY <1>0 DEF Hole, TypeOK
  <2> QED
    BY <1>0, <1>1, <2>1 DEF TypeOK
<1>4. known' \in [ Tasks -> Entry ]
  BY <1>1, <1>2
<1>5. TypeOK'
  <2>1. NoAnswer \in [ task : Tasks \cup { 0 }, entry : Entry ]
    BY EntriesAreTyped DEF NoAnswer
  <2> QED
    BY <1>0, <1>1, <1>3, <1>4, <2>1 DEF TypeOK
<1>6. FramesAreEvents' /\ StreamStands' /\ StreamGapless'
  BY <1>1, StreamUntouched
<1>7. SyncCovers'
  BY <1>1, SyncUntouched
<1>8. Numbered' /\ Ordered'
  BY <1>0, <1>1 DEF Numbered, Ordered
<1>9. PageStands'
  BY <1>1, <1>3, HolesOnlyGrow
<1>10. PositionCovered'
  <2> SUFFICES ASSUME holes' = {}, NEW i \in 1 .. Len(log), log[i].num <= lastId,
                      log[i].task \notin gone
               PROVE  \/ known'[log[i].task].rev >= log[i].entry.rev
                      \/ pending[log[i].task].rev >= log[i].entry.rev
    BY <1>1 DEF PositionCovered
  <2>1. log[i].task \in Tasks /\ log[i].entry.rev \in Nat
    <3>1. log[i] \in Event
      BY <1>0 DEF TypeOK
    <3> QED
      BY <1>0, <3>1, EntriesAreTyped DEF Event, Numbered
  <2>2. \/ known[log[i].task].rev >= log[i].entry.rev
        \/ pending[log[i].task].rev >= log[i].entry.rev
    BY <1>0, <1>3 DEF PositionCovered
  <2>3. CASE log[i].task = answer.task
    <3>1. ~ answer.entry.rev < known[answer.task].rev
      BY <1>1
    <3>2. known'[log[i].task] = answer.entry
      BY <1>1, <1>2, <2>1, <2>3
    <3>3. answer.entry.rev \in Nat /\ known[answer.task].rev \in Nat
      BY <1>2, <2>1, <2>3, EntriesAreTyped
    <3> QED
      BY <2>1, <2>2, <2>3, <3>1, <3>2, <3>3
  <2>4. CASE log[i].task # answer.task
    BY <1>1, <1>2, <2>1, <2>2, <2>4
  <2> QED
    BY <2>3, <2>4
<1> QED
  BY <1>5, <1>6, <1>7, <1>8, <1>9, <1>10 DEF IInv

-----------------------------------------------------------------------------
(* Every step keeps the invariant.                                          *)

\* A change or a deletion, as a whole.
LEMMA TaskStepKeeps ==
  ASSUME IInv, NEW t \in Tasks, TaskStep(t)
  PROVE  IInv'
<1>0. TypeOK /\ Numbered /\ Ordered /\ FramesAreEvents /\ StreamStands /\ StreamGapless
      /\ SyncCovers /\ PageStands /\ PositionCovered
  BY DEF IInv
<1>1. /\ \E kind \in { "updated", "deleted" }, entry \in Entry : Grows(t, kind, entry)
      /\ answer' = answer \/ answer' \in [ task : Tasks \cup { 0 }, entry : Entry ]
  BY <1>0, TaskStepGrows
<1>2. PICK kind \in { "updated", "deleted" }, entry \in Entry : Grows(t, kind, entry)
  BY <1>1
<1>3. /\ UNCHANGED << base, sent, stream, wire, known, lastId, pending, sync, source,
                      error, holes, faults >>
      /\ changes < MaxChanges /\ changes' = changes + 1
      /\ tasks' = [ tasks EXCEPT ![t] = Absent ] \/ tasks' = [ tasks EXCEPT ![t] = entry ]
      /\ gone' = gone \/ gone' = gone \cup { t }
  BY <1>2 DEF Grows
<1>4. TypeOK'
  <2>1. tasks' \in [ Tasks -> Entry ]
    BY <1>0, <1>3, EntriesAreTyped DEF TypeOK
  <2>2. changes' \in 0 .. MaxChanges
    BY <1>0, <1>3, TaskFeedAssumption DEF TypeOK
  <2>3. log' \in Seq(Event) /\ sent' \in 0 .. Len(log')
    <3>1. log' \in Seq(Event) /\ Len(log) \in Nat /\ Len(log') = Len(log) + 1
      BY <1>0, <1>2, GrowsLog
    <3> QED
      BY <1>0, <1>3, <3>1 DEF TypeOK
  <2>4. gone' \subseteq Tasks
    BY <1>0, <1>3 DEF TypeOK
  <2>5. answer' \in [ task : Tasks \cup { 0 }, entry : Entry ]
    BY <1>0, <1>1 DEF TypeOK
  <2> QED
    BY <1>0, <1>3, <2>1, <2>2, <2>3, <2>4, <2>5 DEF TypeOK
<1>5. Numbered'
  BY <1>0, <1>2, GrowsKeepsNumbered
<1>6. Ordered'
  BY <1>0, <1>2, GrowsKeepsOrdered
<1>7. FramesAreEvents' /\ StreamStands' /\ StreamGapless'
  BY <1>0, <1>2, GrowsKeepsStream
<1>8. SyncCovers' /\ PageStands' /\ PositionCovered'
  BY <1>0, <1>2, GrowsKeepsPage
<1> QED
  BY <1>4, <1>5, <1>6, <1>7, <1>8 DEF IInv

\* The stream sends what the buffer or the channel has.
LEMMA FramesSentKeep ==
  ASSUME IInv, ReplayEvents \/ ReceiveEvent
  PROVE  IInv'
<1>1. StreamParts
  BY DEF IInv, StreamParts
<1>2. StreamParts'
  BY <1>1, ReplayKeepsStream, ReceiveKeepsStream
<1>3. UNCHANGED << tasks, gone, base, log, known, lastId, pending, sync, holes >>
  BY DEF ReplayEvents, ReceiveEvent, serverVars, pageVars
<1>4. Numbered' /\ Ordered' /\ PageStands' /\ PositionCovered'
  BY <1>3, Untouched
<1>5. SyncCovers'
  BY <1>3, SyncUntouched
<1> QED
  BY <1>2, <1>4, <1>5 DEF IInv, StreamParts

\* Before anything happens there are no events, no frames and nothing to cover.
LEMMA InitHolds == Init => IInv
<1> SUFFICES ASSUME Init PROVE IInv
  OBVIOUS
<1>1. /\ tasks = [ t \in Tasks |-> Absent ] /\ gone = {} /\ base = 0 /\ log = << >>
      /\ sent = 0 /\ stream = NoStream /\ wire = << >>
      /\ known = [ t \in Tasks |-> Absent ] /\ lastId = 0
      /\ pending = [ t \in Tasks |-> Absent ] /\ sync = NoSync /\ source = "waiting"
      /\ error = FALSE /\ answer = NoAnswer /\ holes = {} /\ changes = 0 /\ faults = 0
  BY DEF Init
<1>2. [ t \in Tasks |-> Absent ] \in [ Tasks -> Entry ]
  BY EntriesAreTyped
<1>3. NoStream \in [ pc : { "none", "opening", "replay", "locked", "receive" },
                     last : Nat, pos : Nat, latest : Nat, overrun : SUBSET Nat ]
      /\ NoStream.pc = "none" /\ NoStream.pos = 0
  BY DEF NoStream
<1>4. NoSync \in [ state : { "none", "asked", "answered", "failed" },
                   tasks : [ Tasks -> Entry ], num : Nat ]
      /\ NoSync.state = "none"
  BY <1>2 DEF NoSync
<1>5. NoAnswer \in [ task : Tasks \cup { 0 }, entry : Entry ]
  BY EntriesAreTyped DEF NoAnswer
<1>6. log \in Seq(Event) /\ wire \in Seq(Event) /\ Len(log) = 0 /\ Len(wire) = 0
  BY <1>1
<1>7. TypeOK
  <2>1. /\ gone \subseteq Tasks /\ base \in Nat /\ sent \in 0 .. Len(log)
        /\ lastId \in Nat /\ changes \in 0 .. MaxChanges /\ faults \in 0 .. MaxFaults
    BY <1>1, <1>6, TaskFeedAssumption
  <2>2. /\ tasks \in [ Tasks -> Entry ] /\ known \in [ Tasks -> Entry ]
        /\ pending \in [ Tasks -> Entry ]
    BY <1>1, <1>2
  <2>3. holes = {} /\ error = FALSE /\ source = "waiting"
    BY <1>1
  <2>4. stream = NoStream /\ sync = NoSync /\ answer = NoAnswer
    BY <1>1
  <2> QED
    BY <1>3, <1>4, <1>5, <1>6, <2>1, <2>2, <2>3, <2>4 DEF TypeOK
<1>8. Numbered /\ Ordered /\ PositionCovered
  BY <1>1, <1>6 DEF Numbered, Ordered, PositionCovered
<1>9. FramesAreEvents /\ StreamStands /\ StreamGapless
  BY <1>1, <1>3, <1>6 DEF FramesAreEvents, StreamStands, StreamGapless
<1>10. SyncCovers
  BY <1>1, <1>4 DEF SyncCovers
<1>11. PageStands
  BY <1>1, <1>6 DEF PageStands, ToldDeleted, Sequence
<1> QED
  BY <1>7, <1>8, <1>9, <1>10, <1>11 DEF IInv

\* One case for each action.
LEMMA NextKeeps == IInv /\ [Next]_vars => IInv'
<1> SUFFICES ASSUME IInv, [Next]_vars PROVE IInv'
  OBVIOUS
<1>1. CASE \E t \in Tasks : TaskStep(t)
  BY <1>1, TaskStepKeeps
<1>2. CASE SendEvent \/ OpenStream \/ ReadLatest
  BY <1>2, StreamStepKeeps
<1>3. CASE ReplayEvents \/ ReceiveEvent
  BY <1>3, FramesSentKeep
<1>4. CASE SyncStep
  BY <1>4, AnswerSnapshotKeeps, ReceiveSnapshotKeeps, SnapshotFailsKeeps DEF SyncStep
<1>5. CASE Poll \/ VisitTasks \/ Connect \/ SourceFails \/ BreakConnection
  BY <1>5, ConnectionKeeps
<1>6. CASE ReadEvent
  BY <1>6, ReadKeeps
<1>7. CASE FlushProgress
  BY <1>7, FlushKeeps
<1>8. CASE ReceiveAnswer
  BY <1>8, AnswerKeeps
<1>9. CASE RestartServer
  BY <1>9, RestartKeeps
<1>10. CASE UNCHANGED vars
  <2>1. /\ UNCHANGED << tasks, gone, base, log, sent, stream, wire, known, lastId, pending >>
        /\ UNCHANGED << sync, source, error, answer, holes, changes, faults >>
    BY <1>10 DEF vars, serverVars, pageVars, bounds
  <2>2. TypeOK'
    BY <2>1 DEF IInv, TypeOK
  <2>3. Numbered' /\ Ordered' /\ PageStands' /\ PositionCovered'
    BY <2>1, Untouched
  <2>4. FramesAreEvents' /\ StreamStands' /\ StreamGapless'
    BY <2>1, StreamUntouched
  <2>5. SyncCovers'
    BY <2>1, SyncUntouched
  <2> QED
    BY <2>2, <2>3, <2>4, <2>5 DEF IInv
<1> QED
  BY <1>1, <1>2, <1>3, <1>4, <1>5, <1>6, <1>7, <1>8, <1>9, <1>10 DEF Next, StreamStep

-----------------------------------------------------------------------------
(* The theorems.                                                            *)

\* The strengthening holds throughout: the numbers have no hole, the frames are
\* events, a snapshot covers what its number says, and the page is where it says.
THEOREM InvariantHolds == Spec => []IInv
<1>1. Init => IInv
  BY InitHolds
<1>2. IInv /\ [Next]_vars => IInv'
  BY NextKeeps
<1> QED
  BY <1>1, <1>2, PTL DEF Spec

\* Every variable stays within its type.
THEOREM TypeCorrect == Spec => []TypeOK
<1>1. IInv => TypeOK
  BY DEF IInv
<1> QED
  BY <1>1, InvariantHolds, PTL

\* task_events (api.rs) repeats no event and leaves none out in silence, in any
\* interleaving of its two sources with emit, and with any capacities, except
\* when the buffer is overrun between the two reads of replay_after (tasks.rs).
THEOREM StreamAlwaysGapless == Spec => []StreamGapless
<1>1. IInv => StreamGapless
  BY DEF IInv
<1> QED
  BY <1>1, InvariantHolds, PTL

\* The page's lastEventId (stores/tasks.ts) never claims an event that the page
\* neither shows nor holds back, as long as it has not lost track.
THEOREM PositionAlwaysCovered == Spec => []PositionCovered
<1>1. IInv => PositionCovered
  BY DEF IInv
<1> QED
  BY <1>1, InvariantHolds, PTL

\* What NeverBackwards says of one task.
StepsForward(t) ==
  \/ known'[t] = Absent
  \/ /\ known'[t].rev >= known[t].rev
     /\ ToldDeleted(t) /\ Followed => known'[t] = known[t]
  \/ answer # NoAnswer /\ answer' = NoAnswer

\* Where what the page shows is left alone, nothing goes back.
LEMMA ShownLeftAlone ==
  ASSUME IInv, NEW t \in Tasks, known' = known
  PROVE  StepsForward(t)
<1>1. known[t].rev \in Nat
  BY EntriesAreTyped DEF IInv, TypeOK
<1> QED
  BY <1>1 DEF StepsForward

\* Only four callbacks of the page change what it shows.
LEMMA OnlyCallbacksShow ==
  ASSUME [Next]_vars
  PROVE  known' = known \/ ReceiveSnapshot \/ ReadEvent \/ FlushProgress \/ ReceiveAnswer
<1>1. CASE \E t \in Tasks : TaskStep(t)
  BY <1>1 DEF TaskStep, ChangeTask, ControlTask, DeleteTask, pageVars
<1>2. CASE SendEvent \/ StreamStep
  BY <1>2 DEF SendEvent, StreamStep, OpenStream, ReadLatest, ReplayEvents, ReceiveEvent,
              pageVars
<1>3. CASE SyncStep
  BY <1>3 DEF SyncStep, AnswerSnapshot, SnapshotFails
<1>4. CASE Poll \/ VisitTasks \/ Connect \/ SourceFails \/ BreakConnection
  BY <1>4 DEF Poll, VisitTasks, Connect, SourceFails, BreakConnection
<1>5. CASE RestartServer
  BY <1>5 DEF RestartServer
<1>6. CASE UNCHANGED vars
  BY <1>6 DEF vars, pageVars
<1> QED
  BY <1>1, <1>2, <1>3, <1>4, <1>5, <1>6 DEF Next

\* A snapshot: a task the page has read the deletion of is not in it any more.
LEMMA SnapshotGoesForward ==
  ASSUME IInv, ReceiveSnapshot, NEW t \in Tasks
  PROVE  StepsForward(t)
<1>0. TypeOK /\ Numbered /\ SyncCovers
  BY DEF IInv
<1>1. CASE sync.num < lastId
  BY <1>1, ShownLeftAlone DEF ReceiveSnapshot
<1>2. CASE ~ sync.num < lastId
  <2>1. known' = Merge(known, sync.tasks) /\ sync.state = "answered"
    BY <1>2 DEF ReceiveSnapshot
  <2>2. /\ known \in [ Tasks -> Entry ] /\ sync.tasks \in [ Tasks -> Entry ]
        /\ sync.num \in Nat /\ lastId \in Nat /\ base \in Nat
    BY <1>0 DEF TypeOK
  <2>3. /\ known'[t].rev >= known[t].rev
        /\ sync.tasks[t] = Absent => known'[t] = known[t]
    BY <2>1, <2>2, MergeWins
  <2>4. ASSUME ToldDeleted(t) PROVE sync.tasks[t] = Absent
    <3>1. PICK i \in 1 .. Len(log) :
            log[i].kind = "deleted" /\ log[i].task = t /\ log[i].num <= lastId
      BY <2>4 DEF ToldDeleted
    <3>2. log[i].num = base + i /\ i \in Nat
      BY <1>0 DEF Numbered
    <3>3. log[i].num <= sync.num
      BY <1>2, <2>2, <3>1, <3>2
    <3> QED
      BY <1>0, <2>1, <3>1, <3>3 DEF SyncCovers
  <2> QED
    BY <2>3, <2>4 DEF StepsForward
<1> QED
  BY <1>1, <1>2

\* The next event: one that comes behind a deletion is about another task.
LEMMA EventGoesForward ==
  ASSUME IInv, ReadEvent, NEW t \in Tasks
  PROVE  StepsForward(t)
<1>0. TypeOK /\ Numbered /\ Ordered
  BY DEF IInv
<1>1. /\ SkipsFrame(Head(wire)) \/ SeesGap(Head(wire)) \/ TakesEvent(Head(wire))
      /\ wire # << >>
  BY ReadDoes
<1>2. CASE SkipsFrame(Head(wire)) \/ SeesGap(Head(wire))
  BY <1>2, ShownLeftAlone DEF SkipsFrame, SeesGap
<1>3. CASE TakesEvent(Head(wire))
  <2> DEFINE event == Head(wire)
  <2>1. /\ event.task \in Tasks /\ event.entry \in Entry
        /\ \E j \in 1 .. Len(log) : event = log[j]
    BY <1>1, <1>3, FirstFrame DEF TakesEvent
  <2>2. PICK j \in 1 .. Len(log) : event = log[j]
    BY <2>1
  <2>3. /\ event.num = lastId + 1
        /\ \/ known' = known
           \/ known' = [ known EXCEPT ![event.task] =
                           IF event.kind = "deleted" THEN Absent
                           ELSE Applied(@, event.entry) ]
    BY <1>3 DEF TakesEvent
  <2> HIDE DEF event
  <2>4. /\ known \in [ Tasks -> Entry ] /\ lastId \in Nat /\ base \in Nat
        /\ known[t] \in Entry /\ known[t].rev \in Nat
    BY <1>0, EntriesAreTyped DEF TypeOK
  <2>5. CASE known' = known \/ t # event.task
    <3>1. known'[t] = known[t]
      BY <2>3, <2>4, <2>5
    <3> QED
      BY <2>4, <3>1 DEF StepsForward
  <2>6. CASE t = event.task /\ known' # known
    <3>1. known'[t] = IF event.kind = "deleted" THEN Absent
                      ELSE Applied(known[t], event.entry)
      BY <2>3, <2>4, <2>6
    <3>2. ~ ToldDeleted(t)
      <4>1. SUFFICES ASSUME NEW i \in 1 .. Len(log), log[i].kind = "deleted",
                            log[i].task = t, log[i].num <= lastId
                     PROVE  FALSE
        BY DEF ToldDeleted
      <4>2. log[i].num = base + i /\ log[j].num = base + j /\ i \in Nat /\ j \in Nat
        BY <1>0 DEF Numbered
      <4>3. i <= j /\ i # j
        BY <2>2, <2>3, <2>4, <4>1, <4>2
      <4> QED
        BY <1>0, <2>2, <2>6, <4>1, <4>3 DEF Ordered
    <3>3. Applied(known[t], event.entry).rev >= known[t].rev
      BY <2>1, <2>4, AppliedWins
    <3> QED
      BY <3>1, <3>2, <3>3 DEF StepsForward
  <2> QED
    BY <2>5, <2>6
<1> QED
  BY <1>1, <1>2, <1>3

\* A flush: nothing is held back of a task whose deletion was read.
LEMMA FlushGoesForward ==
  ASSUME IInv, FlushProgress, NEW t \in Tasks
  PROVE  StepsForward(t)
<1>0. TypeOK /\ PageStands
  BY DEF IInv
<1>1. known[t] \in Entry /\ pending[t] \in Entry /\ known[t].rev \in Nat
  BY <1>0, EntriesAreTyped DEF TypeOK
<1>2. known'[t] = IF pending[t] = Absent THEN known[t] ELSE Applied(known[t], pending[t])
  BY DEF FlushProgress
<1>3. known'[t].rev >= known[t].rev
  BY <1>1, <1>2, AppliedWins
<1>4. ToldDeleted(t) /\ Followed => known'[t] = known[t]
  BY <1>0, <1>2 DEF PageStands
<1> QED
  BY <1>3, <1>4 DEF StepsForward

\* mergeSnapshot, applyTaskEvent and flushProgressEvents (stores/tasks.ts) put no
\* older revision over a newer one and bring back no task whose deletion the page
\* has read; only the answer to its own request does the former.
THEOREM NeverGoesBackwards == Spec => NeverBackwards
<1>1. ASSUME IInv, [Next]_vars, NEW t \in Tasks PROVE StepsForward(t)
  <2>1. known' = known \/ ReceiveSnapshot \/ ReadEvent \/ FlushProgress \/ ReceiveAnswer
    BY <1>1, OnlyCallbacksShow
  <2>2. CASE ReceiveAnswer
    BY <2>2 DEF ReceiveAnswer, StepsForward
  <2> QED
    BY <1>1, <2>1, <2>2, ShownLeftAlone, SnapshotGoesForward, EventGoesForward,
       FlushGoesForward
<1>2. IInv /\ [Next]_vars =>
        [ \A t \in Tasks :
            \/ known'[t] = Absent
            \/ /\ known'[t].rev >= known[t].rev
               /\ ToldDeleted(t) /\ Followed => known'[t] = known[t]
            \/ answer # NoAnswer /\ answer' = NoAnswer ]_vars
  BY <1>1 DEF StepsForward
<1> QED
  BY <1>2, InvariantHolds, PTL DEF Spec, NeverBackwards
=============================================================================
