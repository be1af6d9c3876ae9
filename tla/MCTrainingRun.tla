---------------------------- MODULE MCTrainingRun ----------------------------
(* The requests the runs of TrainingRun start from.                        *)
EXTENDS TrainingRun

Request(kind, tracking, skip, resume, tree) ==
  [ kind |-> kind, tracking |-> tracking, skip |-> skip, resume |-> resume, tree |-> tree ]

\* A whole model that logs, where a kill reaches the trainer and where it does
\* not; one without trackers; one that starts from a state of the user's; an
\* adapter; adapters that resume with and without skipping.
MCArguments ==
  { Request("model", TRUE, FALSE, 0, TRUE), Request("model", TRUE, FALSE, 0, FALSE),
    Request("model", FALSE, FALSE, 0, TRUE), Request("model", TRUE, FALSE, 2, FALSE),
    Request("network", TRUE, TRUE, 0, TRUE), Request("network", FALSE, TRUE, 5, FALSE),
    Request("network", TRUE, FALSE, 5, TRUE) }
==============================================================================
