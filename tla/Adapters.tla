------------------------------ MODULE Adapters ------------------------------
(***************************************************************************)
(* What carries out the action of a step.  First the AdapterRegistry, whose *)
(* adapters are found by the action's name and initialized on demand; then *)
(* one call of StepExecutor.execute: the driver runs the adapter, and when *)
(* the driver fails in any way, a legacy adapter of the step's name, if    *)
(* there is one, does the action again.                                    *)
(***************************************************************************)
EXTENDS Naturals, FiniteSets

CONSTANTS AdapterName,      \* the names of adapters, in alphabetical order
          MaxRegistryCalls, \* bound: the calls of a registry
          MaxTries          \* step.retry.max

ASSUME AdaptersAssumption ==
  AdapterName \subseteq Nat \ {0} /\ MaxRegistryCalls \in Nat /\ MaxTries \in Nat \ {0}

VARIABLES
  adapters,      \* adapters: a name and what is registered under it, or Nobody
  initialized,   \* initialized: a set of names
  initializing,  \* the calls of initialize that wait for their adapter
  cleaning,      \* the calls of cleanup that wait for adapters, or have failed
  primed,        \* history: names whose adapter, this very one, has been initialized
  crossed,       \* history: names given up or cleaned up while being initialized
  registryCalls  \* calls made so far: the next call's number

registryVars == <<adapters, initialized, initializing, cleaning, primed, crossed, registryCalls>>

\* A priority, its own or the one given, is 50 by default.  An adapter supports
\* the actions of its namespace, or any action.
Nobody == [priority |-> 0, any |-> FALSE]
AdapterKinds == [priority : {50, 90}, any : BOOLEAN]
RegisteredNames == {a \in AdapterName : adapters[a] # Nobody}
BeingInitialized == {c.name : c \in initializing}
BeingCleaned == UNION {c.names : c \in cleaning}

RegistryInit ==
  /\ adapters = [a \in AdapterName |-> Nobody]
  /\ initialized = {} /\ initializing = {} /\ cleaning = {}
  /\ primed = {} /\ crossed = {} /\ registryCalls = 0

CountsRegistryCall == registryCalls < MaxRegistryCalls /\ registryCalls' = registryCalls + 1

\* A name that is taken is left alone.
RegisterAdapter(a) ==
  /\ CountsRegistryCall
  /\ a \notin RegisteredNames
  /\ \E kind \in AdapterKinds : adapters' = [adapters EXCEPT ![a] = kind]
  /\ UNCHANGED <<initialized, initializing, cleaning, primed, crossed>>

\* What is taken from these names while they are being initialized.
Crosses(names) == crossed' = crossed \cup (names \cap BeingInitialized)

\* Mutant: the next adapter of that name is taken to be initialized.
UnregisterAdapter_Remembered(a) ==
  /\ CountsRegistryCall
  /\ a \in RegisteredNames
  /\ adapters' = [adapters EXCEPT ![a] = Nobody]
  /\ primed' = primed \ {a}
  /\ Crosses({a})
  /\ UNCHANGED <<initialized, initializing, cleaning>>

\* The adapter's own cleanup is not waited for.
UnregisterAdapter(a) ==
  /\ CountsRegistryCall
  /\ a \in RegisteredNames
  /\ adapters' = [adapters EXCEPT ![a] = Nobody]
  /\ initialized' = initialized \ {a}
  /\ primed' = primed \ {a}
  /\ Crosses({a})
  /\ UNCHANGED <<initializing, cleaning>>

\* The name is looked up in initialized before the adapter is awaited.
InitializeCalled(a) ==
  /\ CountsRegistryCall
  /\ a \in RegisteredNames \ initialized
  /\ initializing' = initializing \cup {[call |-> registryCalls, name |-> a]}
  /\ crossed' = crossed \cup ({a} \cap BeingCleaned)
  /\ UNCHANGED <<adapters, initialized, cleaning, primed>>

InitializeEnds(c) ==
  /\ c \in initializing
  /\ initializing' = initializing \ {c}
  /\ initialized' = initialized \cup {c.name}
  /\ primed' = IF c.name \in RegisteredNames \ crossed THEN primed \cup {c.name} ELSE primed
  /\ UNCHANGED <<adapters, cleaning, crossed, registryCalls>>

InitializeFails(c) ==
  /\ c \in initializing
  /\ initializing' = initializing \ {c}
  /\ UNCHANGED <<adapters, initialized, cleaning, primed, crossed, registryCalls>>

\* cleanup of one name, or cleanupAll: the names are unmarked only when the
\* adapters have answered.
CleanupCalled(names) ==
  /\ CountsRegistryCall
  /\ cleaning' = cleaning \cup {[call |-> registryCalls, names |-> names]}
  /\ primed' = primed \ names
  /\ Crosses(names)
  /\ UNCHANGED <<adapters, initialized, initializing>>

\* The cleanup of one name that fails never gets here.
CleanupCallEnds(c) ==
  /\ c \in cleaning
  /\ cleaning' = cleaning \ {c}
  /\ initialized' = initialized \ c.names
  /\ UNCHANGED <<adapters, initializing, primed, crossed, registryCalls>>

ClearRegistry ==
  /\ CountsRegistryCall
  /\ adapters' = [a \in AdapterName |-> Nobody]
  /\ initialized' = {} /\ primed' = {}
  /\ Crosses(AdapterName)
  /\ UNCHANGED <<initializing, cleaning>>

RegistryNext ==
  \/ \E a \in AdapterName : RegisterAdapter(a) \/ UnregisterAdapter(a) \/ InitializeCalled(a)
  \/ \E c \in initializing : InitializeEnds(c) \/ InitializeFails(c)
  \/ \E names \in {AdapterName} \cup {{a} : a \in AdapterName} : CleanupCalled(names)
  \/ \E c \in cleaning : CleanupCallEnds(c)
  \/ ClearRegistry

RegistrySpec == RegistryInit /\ [][RegistryNext]_registryVars

\* resolve of an action of a namespace, with the adapters A: the namespace's own
\* adapter, then the highest priority, then the first name.
NotFound == 0
Supporting(A, namespace) == {a \in AdapterName : A[a] # Nobody /\ (A[a].any \/ a = namespace)}

Preferred(A, a, b, namespace) ==
  \/ a = namespace /\ b # namespace
  \/ /\ a = namespace <=> b = namespace
     /\ A[a].priority > A[b].priority \/ (A[a].priority = A[b].priority /\ a < b)

AdapterFor(A, namespace) ==
  LET candidates == Supporting(A, namespace)
  IN IF candidates = {} THEN NotFound
     ELSE CHOOSE a \in candidates : \A b \in candidates \ {a} : Preferred(A, a, b, namespace)

\* assertAdapterCapabilities, before a run whose steps have these namespaces: it
\* asks for an adapter of the very name, where resolve would take one for any.
CapabilitiesPass(namespaces) == namespaces \subseteq RegisteredNames

RegistryTypeOK ==
  /\ adapters \in [AdapterName -> AdapterKinds \cup {Nobody}]
  /\ initialized \subseteq AdapterName /\ BeingInitialized \subseteq AdapterName
  /\ BeingCleaned \subseteq AdapterName
  /\ primed \subseteq AdapterName /\ crossed \subseteq AdapterName
  /\ registryCalls \in 0 .. MaxRegistryCalls

\* An adapter that counts as initialized is one that was and has not been cleaned
\* up since, unless its cleanup goes on or has failed, or the name was given up or
\* cleaned up while it was being initialized.  A namespace that passes before the
\* run is served by its own adapter, whatever the priorities, and an adapter
\* that is not chosen can go without a difference to what is.
RegistrySafe ==
  /\ initialized \cap RegisteredNames \subseteq primed \cup crossed \cup BeingCleaned
  /\ \A n \in AdapterName \cup {0} :
       LET chosen == AdapterFor(adapters, n)
       IN /\ CapabilitiesPass({n}) => chosen = n
          /\ \A a \in RegisteredNames \ {chosen} : AdapterFor([adapters EXCEPT ![a] = Nobody], n) = chosen

-----------------------------------------------------------------------------
(***************************************************************************)
(* StepExecutor.execute, for one step                                      *)
(***************************************************************************)
VARIABLE stepCall \* the call: what the executor has, where the attempt is, what runs

\* driver: there is an AdapterDriver, and whether it can handle the step; timer:
\* no timer, the executor's own or a TimeoutManager's, and a timeout that cannot
\* be parsed; when: what the condition resolves to; policy: there is a
\* retryPolicy; outputs: the step maps its outputs; named: it has a name that
\* does not contain its id.  No id contains "timeout".
Resolutions == {"none", "true", "false", "text", "textFalse", "zero", "empty", "undefined"}
CallSettings ==
  [driver : {"none", "handles", "unable"}, legacy : BOOLEAN,
   timer : {"none", "own", "manager", "invalid"}, when : Resolutions,
   policy : BOOLEAN, outputs : BOOLEAN, named : BOOLEAN]

Met(condition) == condition \in {"none", "true", "text"}

\* The ways an attempt fails.  An error says "timeout" in its message or not; an
\* invalid configuration is known as such by its class.
Failures == {"error", "errorSaysTimeout"}
Done == {"success", "failure", "timeout", "skipped", "threw"}

CallInit ==
  \E c \in CallSettings :
    /\ c.when # "none" => /\ c.timer = "own" /\ c.driver = "handles" /\ c.legacy
                          /\ ~c.policy /\ ~c.outputs /\ ~c.named
    /\ stepCall = [set |-> c, at |-> "called", try |-> 0, started |-> 0, left |-> 0,
               second |-> FALSE, resolved |-> FALSE, expired |-> FALSE, unfit |-> FALSE]

\* evaluateCondition; the attempts begin.
CallBegins ==
  /\ stepCall.at = "called"
  /\ stepCall' = IF Met(stepCall.set.when) THEN [stepCall EXCEPT !.at = "trying", !.try = 1]
                                   ELSE [stepCall EXCEPT !.at = "skipped"]

\* An attempt of the call has failed with an error of which the message is known.
\* A timeout ends the step, but to log it the timeout is parsed once more.  An
\* invalid configuration ends it too, and a policy may.
CallEnds(call, at) == stepCall' = [call EXCEPT !.at = at, !.second = FALSE]

AttemptFails(call, message) ==
  \/ message = "errorSaysTimeout" /\ CallEnds(call, IF call.set.timer = "invalid" THEN "threw" ELSE "timeout")
  \/ /\ message = "invalid" \/ (message = "error" /\ (call.try = MaxTries \/ call.set.policy))
     /\ CallEnds(call, "failure")
  \/ /\ message = "error" /\ call.try < MaxTries
     /\ stepCall' = [call EXCEPT !.at = "trying", !.try = @ + 1, !.second = FALSE]

\* resourceValidator.validate comes first: a path of the input is not as it must
\* be.  The error is a StepError that names the step; if it does so by a name
\* without the id, it is wrapped as one that is no StepError any more.  The path
\* in its message may say "timeout".
ValidationFails ==
  /\ stepCall.at = "trying"
  /\ \E message \in {"errorSaysTimeout", IF stepCall.set.named THEN "error" ELSE "invalid"} :
       AttemptFails([stepCall EXCEPT !.unfit = TRUE], message)

\* Mutant: no fallback.
DriverFails_NoFallback(call, message) == AttemptFails(call, message)

\* executeWithTimeout: any failure of the driver, a timeout too, is no failure of
\* the attempt if there is a legacy adapter.
DriverFails(call, message) ==
  IF call.set.legacy THEN stepCall' = [call EXCEPT !.at = "legacy", !.second = TRUE]
                     ELSE AttemptFails(call, message)

\* convertToDriverContext reads the timeout of the step, outside the try block,
\* and says "Invalid timeout format" if it can not.
TryDriver ==
  /\ stepCall.at = "trying" /\ stepCall.set.driver # "none"
  /\ CASE stepCall.set.timer = "invalid" -> AttemptFails(stepCall, "errorSaysTimeout")
       [] stepCall.set.timer # "invalid" /\ stepCall.set.driver = "unable" -> DriverFails(stepCall, "error")
       [] OTHER -> stepCall' = [stepCall EXCEPT !.at = "driver", !.started = @ + 1]

\* executeWithLegacyAdapter: the adapter begins before the timeout is read.
TryLegacy ==
  /\ stepCall.at = "legacy" \/ (stepCall.at = "trying" /\ stepCall.set.driver = "none")
  /\ CASE ~stepCall.set.legacy -> AttemptFails(stepCall, "error")
       [] stepCall.set.legacy /\ stepCall.set.timer = "invalid" ->
            AttemptFails([stepCall EXCEPT !.started = @ + 1, !.left = @ + 1], "errorSaysTimeout")
       [] OTHER -> stepCall' = [stepCall EXCEPT !.at = "legacyRuns", !.started = @ + 1]

\* AdapterDriver.execute wraps an error, and its message is lost; a legacy
\* adapter's is not.
ExecutionEnds ==
  \/ /\ stepCall.at \in {"driver", "legacyRuns"}
     /\ stepCall' = [stepCall EXCEPT !.at = "success", !.resolved = TRUE, !.expired = FALSE]
  \/ stepCall.at = "driver" /\ DriverFails(stepCall, "error")
  \/ stepCall.at = "legacyRuns" /\ \E message \in Failures : AttemptFails(stepCall, message)

\* It ends well, but mapOutputs can not resolve a path: the action is done again.
MappingFails ==
  /\ stepCall.at \in {"driver", "legacyRuns"} /\ stepCall.set.outputs
  /\ \E message \in Failures : AttemptFails(stepCall, message)

\* The executor's own timer says "exceeded timeout of", a TimeoutManager's "timed
\* out": the first is a timeout of the step, the second an error like any other.
\* What was started goes on.
ExecutionTimesOut ==
  /\ stepCall.at \in {"driver", "legacyRuns"} /\ stepCall.set.timer \in {"own", "manager"}
  /\ LET message == IF stepCall.set.timer = "own" THEN "errorSaysTimeout" ELSE "error"
         later == [stepCall EXCEPT !.left = @ + 1, !.expired = TRUE]
     IN IF stepCall.at = "driver" THEN DriverFails(later, message) ELSE AttemptFails(later, message)

\* An execution that nobody waits for ends, and its result is dropped.
LeftEnds == stepCall.left > 0 /\ stepCall' = [stepCall EXCEPT !.left = @ - 1]

CallNext ==
  \/ CallBegins \/ ValidationFails \/ TryDriver \/ TryLegacy \/ ExecutionEnds \/ MappingFails
  \/ ExecutionTimesOut \/ LeftEnds

CallSpec == CallInit /\ [][CallNext]_stepCall

CallTypeOK ==
  stepCall \in [set : CallSettings,
            at : {"called", "trying", "driver", "legacy", "legacyRuns"} \cup Done,
            try : 0 .. MaxTries, started : 0 .. 2 * MaxTries, left : 0 .. 2 * MaxTries,
            second : BOOLEAN, resolved : BOOLEAN, expired : BOOLEAN, unfit : BOOLEAN]

\* A step that counts as a success had an execution that ended well, and one that
\* was skipped had none.  An attempt runs the action at most twice, twice only with
\* a legacy adapter, and a step without one at most once an attempt.  Before its
\* last attempt a step fails only by a policy, or by an input that validation has
\* refused.  One that fails while there is a legacy adapter has asked it, unless
\* its input or its outputs were to blame.  A step times out only by the executor's
\* own timer, or by an error that says so: of a legacy adapter, of validation or of
\* the mapping.  The call itself throws only for a timeout that can not be parsed.
CallSafe ==
  /\ stepCall.at = "success" => stepCall.resolved
  /\ stepCall.at = "skipped" => stepCall.started = 0 /\ ~Met(stepCall.set.when)
  /\ stepCall.started <=
       (IF stepCall.set.legacy /\ stepCall.set.driver = "handles" THEN 2 ELSE 1) * stepCall.try
  /\ stepCall.left > 0 => stepCall.expired \/ stepCall.at \in {"success", "threw"}
  /\ stepCall.at = "threw" => stepCall.set.timer = "invalid"
  /\ stepCall.at = "timeout" =>
       stepCall.set.legacy \/ stepCall.set.timer = "own" \/ stepCall.unfit \/ stepCall.set.outputs
  /\ stepCall.at = "failure" =>
       stepCall.try = MaxTries \/ stepCall.set.policy \/ (stepCall.unfit /\ ~stepCall.set.named)
  /\ stepCall.at \in {"failure", "timeout"} /\ stepCall.set.legacy /\ ~stepCall.unfit =>
       stepCall.started >= (IF stepCall.set.driver = "handles" /\ ~stepCall.set.outputs THEN 2 ELSE 1)
=============================================================================
