----------------------------- MODULE ExclusiveUse -----------------------------
(***************************************************************************)
(* The promise behind the GPU leases: whoever uses resources uses all of   *)
(* the ones it asked for, and nobody else uses any of them meanwhile.      *)
(***************************************************************************)
CONSTANTS
  Tasks,       \* the possible users
  Request      \* Request[t]: the resources t needs, all at once

VARIABLE using   \* the tasks that use their resources now

Init == using = {}

Enter(t) ==
  /\ t \notin using
  /\ \A u \in using : Request[t] \cap Request[u] = {}
  /\ using' = using \cup { t }

Leave(t) ==
  /\ t \in using
  /\ using' = using \ { t }

Next == \E t \in Tasks : Enter(t) \/ Leave(t)

Spec == Init /\ [][Next]_using
=============================================================================
