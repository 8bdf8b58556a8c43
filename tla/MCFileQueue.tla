---------------------------- MODULE MCFileQueue ----------------------------
(* Two processes, two jobs: one with a retry and one without.               *)
EXTENDS FileQueue

CONSTANTS a, b

\* The processes are alike.
MCSymmetry == Permutations(Worker)

MCMaxAttempts == a :> 2 @@ b :> 1
=============================================================================
