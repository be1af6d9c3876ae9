---------------------------- MODULE MCTaskWorkers ----------------------------
(* Two tasks at a time: a download beside a tool on the files of one media   *)
(* root, or two tasks that share GPUs.                                       *)
EXTENDS TaskWorkers

CONSTANTS t1, t2, g0, g1

MCTasks == { t1, t2 }
MCGpus == { g0, g1 }

\* One CPU task and one network task at a time; eight GPU tasks.
MCClassSlots == [ c \in Classes |-> IF c = "gpu" THEN 8 ELSE 1 ]

FileKinds == [ t \in MCTasks |-> IF t = t1 THEN "download" ELSE "tool" ]
GpuKinds  == [ t \in MCTasks |-> IF t = t1 THEN "dataset_augmentation" ELSE "vllm_tag" ]
TrainKinds == [ t \in MCTasks |-> IF t = t1 THEN "training" ELSE "vllm_tag" ]

NoRequest == [ t \in MCTasks |-> {} ]
\* Both GPUs against the one vLLM runs on.
GpuRequest == [ t \in MCTasks |-> IF t = t1 THEN MCGpus ELSE { g0 } ]
Downloads == { t1 }
=============================================================================
