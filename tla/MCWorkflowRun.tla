--------------------------- MODULE MCWorkflowRun ---------------------------
(* Two calls of execute on one run: steps 1 and 2 together, 3 after both.   *)
EXTENDS WorkflowRun

Graph == INSTANCE ExecutionPlan

MCStep == {1, 2, 3}
MCNeeds == <<{}, {}, {1, 2}>>
MCPlan == <<<<1, 2>>, <<3>>>>
MCRetryMax == <<0, 0, 2>>
MCUntimely == {2}
MCConditional == {2}
MCReferencing == {3}
MCContinuing == {2}

ASSUME MCPlan = Graph!Phases(<<<<>>, <<>>, <<2, 1>>>>)
=============================================================================
