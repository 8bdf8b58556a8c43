--------------------------- MODULE MCStepWorkers ---------------------------
(***************************************************************************)
(* Three jobs with maxAttempts 3, 1 and 0 (stored as 1), two workers: one   *)
(* that is retried, one whose execution throws, one no workflow knows.     *)
(***************************************************************************)
EXTENDS StepWorkers

CONSTANTS j1, j2, j3

MCMaxAttempts == (j1 :> 3) @@ (j2 :> 1) @@ (j3 :> 0)
=============================================================================
