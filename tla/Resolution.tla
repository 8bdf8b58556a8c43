----------------------------- MODULE Resolution -----------------------------
(***************************************************************************)
(* ContextStore and VariableResolver: what ${...} in the input of a step   *)
(* becomes.  A resolution context that the store has given out shares the  *)
(* store's map of step outputs, and has a copy of the attempt number.      *)
(***************************************************************************)
EXTENDS Naturals, SequencesExt

CONSTANTS StepId,     \* the ids of steps
          MaxStoreOps \* bound: the calls of a ContextStore

ASSUME ContextAssumption == MaxStoreOps \in Nat

VARIABLES
  outputMaps, \* the Map objects with step outputs, in the order they were made
  attemptNo,  \* attempt
  view,       \* the resolution context a step is resolved with: a map, an attempt
  snapshot,   \* what snapshot returned, or NoSnapshot
  restored,   \* history: restore was called, and nothing has been set since
  storeOps    \* calls made so far

contextVars == <<outputMaps, attemptNo, view, snapshot, restored, storeOps>>

\* A key that was never set and one that was set to undefined are the same.
Undefined == "undefined"
Falsy == {Undefined, "null", "empty"}
Outputs == Falsy \cup {"text"}
ThrowsError == "throws"
NoOutputs == [s \in StepId |-> Undefined]
NoSnapshot == [outputs |-> NoOutputs, attempt |-> 0]

\* The store's own map is the last.
OwnMap == Len(outputMaps)

ContextInit ==
  /\ outputMaps = <<NoOutputs>> /\ attemptNo = 1
  /\ view = [map |-> 1, attempt |-> 1]
  /\ snapshot = NoSnapshot /\ restored = FALSE /\ storeOps = 0

-----------------------------------------------------------------------------
(***************************************************************************)
(* VariableResolver                                                        *)
(***************************************************************************)
\* The terms of an expression: a reference, with a key that is there or not; a
\* call of a function; and, last in a chain, a literal.
References ==
  [form : {"reference"}, source : {"env", "secrets", "metadata", "nowhere"}, key : {"set", "unset"}]
    \cup [form : {"reference"}, source : {"steps"}, key : StepId \cup {"none", "stranger"}]
Functions == [form : {"function"}, source : {"attempt", "runId", "triggeredBy", "env", "other"}]
Literals == [form : {"literal"}, source : {"text", "empty", "null"}]
Terms == References \cup Functions

StepOutput(v, id) == IF id \in StepId THEN outputMaps[v.map][id] ELSE Undefined

Lookup_Silent(v, term) ==
  CASE term.source = "steps" -> StepOutput(v, term.key)
    [] term.source \in {"env", "secrets"} /\ term.key = "set" -> "text"
    [] OTHER -> Undefined

\* lookup: the store always has secrets, and metadata only if it was given any.
Lookup(v, term) ==
  CASE term.source = "steps" /\ StepOutput(v, term.key) = Undefined -> ThrowsError
    [] term.source = "steps" /\ StepOutput(v, term.key) # Undefined -> StepOutput(v, term.key)
    [] term.source \in {"env", "secrets"} -> IF term.key = "set" THEN "text" ELSE Undefined
    [] OTHER -> ThrowsError

CallBuiltInFunction(name) ==
  IF name \in {"attempt", "runId", "triggeredBy"} THEN "text" ELSE ThrowsError

TermValue(v, term) ==
  CASE term.form = "reference" -> Lookup(v, term)
    [] term.form = "function" -> CallBuiltInFunction(term.source)
    [] term.form = "literal" -> term.source

\* evaluateExpression of t1 || t2 || ...: what a term throws is caught, but for
\* the last one.
EvaluateExpression(v, terms) ==
  LET GivesWay(i) == i < Len(terms) /\ TermValue(v, terms[i]) \in Falsy \cup {ThrowsError}
      taken == CHOOSE i \in 1 .. Len(terms) : ~GivesWay(i) /\ \A j \in 1 .. i - 1 : GivesWay(j)
  IN TermValue(v, terms[taken])

Expressions ==
  {<<t>> : t \in Terms} \cup {<<t, d>> : t \in Terms, d \in Terms \cup Literals}

MaxDepth == 10

\* resolve of a string under depth arrays and objects: alone in its string, an
\* expression keeps its value, in a longer one it becomes text, "" for nothing.
Resolved(v, terms, alone, depth) ==
  LET value == EvaluateExpression(v, terms)
  IN CASE depth > MaxDepth -> ThrowsError
       [] depth <= MaxDepth /\ (alone \/ value = ThrowsError) -> value
       [] OTHER -> IF value \in {Undefined, "null", "empty"} THEN "empty" ELSE "text"

\* validateStepReferences: it looks at the beginning of an expression only.
ReferencesRefused(terms, available) ==
  /\ terms[1].form = "reference" /\ terms[1].source = "steps" /\ terms[1].key # "none"
  /\ terms[1].key \notin available

-----------------------------------------------------------------------------
(***************************************************************************)
(* ContextStore                                                            *)
(***************************************************************************)
CountsStoreOp == storeOps < MaxStoreOps /\ storeOps' = storeOps + 1

SetStepOutput(s) ==
  /\ \E value \in Outputs : outputMaps' = [outputMaps EXCEPT ![OwnMap][s] = value]
  /\ restored' = FALSE
  /\ UNCHANGED <<attemptNo, view, snapshot>>

ClearStepOutputs ==
  /\ outputMaps' = [outputMaps EXCEPT ![OwnMap] = NoOutputs]
  /\ restored' = FALSE
  /\ UNCHANGED <<attemptNo, view, snapshot>>

\* The attempt number is the run's, and every retry of every step adds to it.
IncrementAttempt ==
  /\ attemptNo' = attemptNo + 1
  /\ restored' = FALSE
  /\ UNCHANGED <<outputMaps, view, snapshot>>

GetResolutionContext ==
  /\ view' = [map |-> OwnMap, attempt |-> attemptNo]
  /\ UNCHANGED <<restored, outputMaps, attemptNo, snapshot>>

TakeSnapshot ==
  /\ snapshot' = [outputs |-> outputMaps[OwnMap], attempt |-> attemptNo]
  /\ UNCHANGED <<restored, outputMaps, attemptNo, view>>

Restore_InPlace ==
  /\ snapshot # NoSnapshot
  /\ outputMaps' = [outputMaps EXCEPT ![OwnMap] =
       [s \in StepId |-> IF snapshot.outputs[s] = Undefined THEN @[s] ELSE snapshot.outputs[s]]]
  /\ attemptNo' = snapshot.attempt /\ restored' = TRUE
  /\ UNCHANGED <<view, snapshot>>

\* restore makes a Map of its own.
Restore ==
  /\ snapshot # NoSnapshot
  /\ outputMaps' = Append(outputMaps, snapshot.outputs)
  /\ attemptNo' = snapshot.attempt /\ restored' = TRUE
  /\ UNCHANGED <<view, snapshot>>

ContextNext ==
  /\ CountsStoreOp
  /\ \/ \E s \in StepId : SetStepOutput(s)
     \/ ClearStepOutputs \/ IncrementAttempt \/ GetResolutionContext \/ TakeSnapshot \/ Restore

ContextSpec == ContextInit /\ [][ContextNext]_contextVars

-----------------------------------------------------------------------------
(***************************************************************************)
(* Properties                                                              *)
(***************************************************************************)
ContextTypeOK ==
  /\ outputMaps \in Seq([StepId -> Outputs]) /\ OwnMap >= 1
  /\ attemptNo \in 1 .. MaxStoreOps + 1
  /\ view.map \in 1 .. OwnMap /\ view.attempt \in 1 .. MaxStoreOps + 1
  /\ snapshot.outputs \in [StepId -> Outputs] /\ snapshot.attempt \in 0 .. MaxStoreOps + 1

\* A default saves an expression from whatever its first term does, and gives
\* way to a value.  An expression whose references the validation takes throws
\* for no missing step, if those steps have an output, and no step is named in
\* its default or not at all.
ExpressionsSafe ==
  \A terms \in Expressions :
    LET value == EvaluateExpression(view, terms)
        first == TermValue(view, terms[1])
        done == {s \in StepId : StepOutput(view, s) # Undefined}
    IN /\ Len(terms) = 2 /\ terms[2].form = "literal" => value # ThrowsError
       /\ first \notin Falsy \cup {ThrowsError} => value = first
       /\ value \in Falsy => value = TermValue(view, Last(terms))
       /\ terms[1].source = "steps" /\ terms[1].key # "none" /\ Len(terms) = 1 =>
            (ReferencesRefused(terms, done) <=> value = ThrowsError)
       /\ Resolved(view, terms, FALSE, MaxDepth) \in {"text", "empty", ThrowsError}
       /\ Resolved(view, terms, TRUE, 0) = Resolved(view, terms, TRUE, MaxDepth)

\* A context that was given out stays that of the store until a snapshot is
\* restored, and a restored store is the snapshot, whatever was set before.
RestoreIsExact ==
  /\ view.map < OwnMap => snapshot # NoSnapshot
  /\ restored => snapshot = [outputs |-> outputMaps[OwnMap], attempt |-> attemptNo]
  /\ view.map = OwnMap /\ view.attempt > attemptNo => snapshot # NoSnapshot
=============================================================================
