---------------------------- MODULE MCJobEngine ----------------------------
(* A job of executeWorkflow and an urgent one that is retried.              *)
EXTENDS JobEngine

CONSTANTS a, b
MCPriority == a :> 1 @@ b :> 2
MCMaxRetries == a :> 0 @@ b :> 2
=============================================================================
