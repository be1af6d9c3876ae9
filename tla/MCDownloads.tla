----------------------------- MODULE MCDownloads -----------------------------
(* Two downloads into one directory.                                        *)
EXTENDS Downloads

CONSTANTS d1, d2, p1, p2, p3

MCTasks == { d1, d2 }
MCPosts == { p1, p2, p3 }

\* One wants two of three posts, two at a time; the other wants one of them too.
MCPostIds == [ t \in MCTasks |-> IF t = d1 THEN << p1, p2, p3 >> ELSE << p2 >> ]
MCTarget == [ t \in MCTasks |-> IF t = d1 THEN 2 ELSE 1 ]
MCConcurrency == [ t \in MCTasks |-> IF t = d1 THEN 2 ELSE 1 ]
=============================================================================
