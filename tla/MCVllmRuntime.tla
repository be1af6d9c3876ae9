---------------------------- MODULE MCVllmRuntime ----------------------------
(* Five calls: a tagging task, an augmentation, a task with another model, a  *)
(* manual load and a manual unload.                                           *)
EXTENDS VllmRuntime

CONSTANTS c1, c2, c3, c4, c5, k1, k2

MCCalls == { c1, c2, c3, c4, c5 }
MCKeys == { k1, k2 }
MCRole == [ c \in MCCalls |-> CASE c = c2 -> "augmentation"
                                [] c = c4 -> "load"
                                [] c = c5 -> "unload"
                                [] OTHER  -> "task" ]
MCKey == [ c \in MCCalls |-> IF c = c3 THEN k2 ELSE k1 ]
=============================================================================
