---------------------------- MODULE SharedResource ----------------------------
(***************************************************************************)
(* The promise behind the vLLM runtime: a resource that is slow to start   *)
(* and to stop is used only while it is up, by any number of users, and is *)
(* neither stopped nor started anew while anybody uses it.                 *)
(***************************************************************************)
CONSTANT Users

VARIABLES
  phase,    \* "down", "starting", "up" or "stopping"
  users     \* who uses it now

vars == << phase, users >>

Init == phase = "down" /\ users = {}

Idle == phase \in { "down", "up" } /\ users = {}

Begin == Idle /\ phase' = "starting" /\ UNCHANGED users

\* Whoever started it is its first user.
Started(u) == phase = "starting" /\ phase' = "up" /\ users' = { u }

NotStarted == phase = "starting" /\ phase' = "down" /\ UNCHANGED users

Use(u) == phase = "up" /\ u \notin users /\ users' = users \cup { u } /\ UNCHANGED phase

\* The last user may leave and stop it in one.
Leave(u) ==
  /\ u \in users
  /\ users' = users \ { u }
  /\ phase' \in { phase } \cup (IF users = { u } THEN { "stopping" } ELSE {})

Stop == Idle /\ phase' = "stopping" /\ UNCHANGED users

\* A failed stop leaves it as it was.
Stopped == phase = "stopping" /\ phase' \in { "down", "up" } /\ UNCHANGED users

Next ==
  \/ Begin \/ NotStarted \/ Stop \/ Stopped
  \/ \E u \in Users : Started(u) \/ Use(u) \/ Leave(u)

Spec == Init /\ [][Next]_vars
=============================================================================
