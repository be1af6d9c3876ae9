------------------------------ MODULE MCGpuQueue ------------------------------
(* Two GPUs; one task wants both of them, two tasks want one each.           *)
EXTENDS GpuQueue

CONSTANTS both, left, right, g0, g1

MCTasks == { both, left, right }
MCGpus == { g0, g1 }
MCRequest == [ t \in MCTasks |-> CASE t = both  -> MCGpus
                                   [] t = left  -> { g0 }
                                   [] t = right -> { g1 } ]
=============================================================================
