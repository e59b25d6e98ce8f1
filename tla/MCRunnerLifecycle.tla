------------------------- MODULE MCRunnerLifecycle -------------------------
(***************************************************************************)
(* Circumstances of RunnerLifecycle for TLC.                               *)
(***************************************************************************)
EXTENDS RunnerLifecycle

\* A runner fails once, and is replaced.
Restart ==
  [calm |-> TRUE, retries |-> 2, failures |-> 1, lag |-> 3, deletes |-> FALSE,
   disks |-> {"reported"}]

\* It may not be replaced, and the instance may be deleted at any moment.
Deletion == [Restart EXCEPT !.retries = 1, !.lag = 2, !.deletes = TRUE]

\* Nothing fails; the model may have to be downloaded.
Placement == [Restart EXCEPT !.failures = 0, !.disks = {"missing", "present"}]

\* Nothing is assumed of timing.
Disorder == [Restart EXCEPT !.calm = FALSE, !.lag = 4]

AllSetups == {Restart, Deletion, Placement, Disorder}
============================================================================
