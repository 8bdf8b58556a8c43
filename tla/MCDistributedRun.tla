-------------------------- MODULE MCDistributedRun --------------------------
(***************************************************************************)
(* Workflows for TLC: a chain a -> b -> c, a diamond a -> (b, c) -> d and a *)
(* join (a, b) -> c; b may be attempted twice, the other steps once.       *)
(***************************************************************************)
EXTENDS DistributedRun

CONSTANTS a, b, c, d

ChainNeeds == (a :> {}) @@ (b :> {a}) @@ (c :> {b})
ChainAttempts == (a :> 1) @@ (b :> 2) @@ (c :> 1)

DiamondNeeds == (a :> {}) @@ (b :> {a}) @@ (c :> {a}) @@ (d :> {b, c})
DiamondAttempts == (a :> 1) @@ (b :> 2) @@ (c :> 1) @@ (d :> 1)

\* a and b are independent, c needs both.
JoinNeeds == (a :> {}) @@ (b :> {}) @@ (c :> {a, b})
JoinAttempts == (a :> 1) @@ (b :> 2) @@ (c :> 1)
=============================================================================
