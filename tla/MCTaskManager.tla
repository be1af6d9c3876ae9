---------------------------- MODULE MCTaskManager ----------------------------
(* Two tasks of either kind, small bounds on revisions, crashes and replay.  *)
EXTENDS TaskManager, TLC

CONSTANTS t1, t2

MCTasks == { t1, t2 }

\* The two tasks are interchangeable: nothing orders them.
TaskSymmetry == Permutations(MCTasks)
=============================================================================
