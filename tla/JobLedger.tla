----------------------------- MODULE JobLedger -----------------------------
(***************************************************************************)
(* What a DistributedJobQueue promises, with no trace of how it keeps its  *)
(* jobs: a submitted job is in one phase at a time, a job that is done or  *)
(* dead stays so, only a leased job can settle or be charged an attempt,   *)
(* and a job is sent back only while it has attempts left.  A lease may be *)
(* revoked at the start of any call, at no charge.                         *)
(***************************************************************************)
EXTENDS Integers

CONSTANTS Job, AttemptLimit

VARIABLES phase,  \* phase[j]: where job j is
          tries   \* tries[j]: attempts charged to job j

ledgerVars == <<phase, tries>>

Init ==
  /\ phase = [j \in Job |-> "new"]
  /\ tries = [j \in Job |-> 0]

\* The phases once the leases of the jobs in R are revoked.
Revoked(R) == [j \in Job |-> IF j \in R THEN "queued" ELSE phase[j]]

Submit(p, j) ==
  /\ p[j] = "new"
  /\ phase' = [p EXCEPT ![j] = "queued"]
  /\ tries' = [tries EXCEPT ![j] = 0]

Deliver(p, j) ==
  /\ p[j] = "queued"
  /\ phase' = [p EXCEPT ![j] = "leased"]
  /\ UNCHANGED tries

Finish(p, j) ==
  /\ p[j] = "leased"
  /\ phase' = [p EXCEPT ![j] = "done"]
  /\ UNCHANGED tries

SendBack(p, j) ==
  /\ p[j] = "leased"
  /\ tries[j] + 1 < AttemptLimit[j]
  /\ phase' = [p EXCEPT ![j] = "queued"]
  /\ tries' = [tries EXCEPT ![j] = @ + 1]

Bury(p, j) ==
  /\ p[j] = "leased"
  /\ phase' = [p EXCEPT ![j] = "dead"]
  /\ tries' = [tries EXCEPT ![j] = @ + 1]

Call(p) ==
  \/ phase' = p /\ UNCHANGED tries
  \/ \E j \in Job : Submit(p, j) \/ Deliver(p, j) \/ Finish(p, j) \/ SendBack(p, j) \/ Bury(p, j)

Next == \E R \in SUBSET {j \in Job : phase[j] = "leased"} : Call(Revoked(R))

Spec == Init /\ [][Next]_ledgerVars
=============================================================================
