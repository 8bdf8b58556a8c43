---------------------------- MODULE SchemaChecks ----------------------------
(***************************************************************************)
(* SchemaValidator and FieldRegistry: a workflow document, its two shapes, *)
(* and what the validator makes of it.  A document has the sections and    *)
(* settings below, none of them or with the values that the checks tell    *)
(* apart, and its steps.  The schema of the core package is external: it   *)
(* takes every document that gets that far.                                *)
(***************************************************************************)
EXTENDS GraphSearch

-----------------------------------------------------------------------------
(***************************************************************************)
(* StepParser: what it makes of the steps of a document, and the checks    *)
(* that it makes on all of them together.  A step is a record: its id, the *)
(* action it uses, its condition, the ids it needs as they are written,    *)
(* and the places where it mentions the output of a step.  Ids are numbers *)
(* in the order in which they sort.                                        *)
(***************************************************************************)

\* The ids that the pattern of parse refuses, and one that no step has.
BadId == 0

Actions == {"http.get", "media.resize", "htp.get", "http", " http.get", ""}
Conditions == {"", "  ", "!", "${inputs.a}", "${odd.a}", "f(x)", "for", "a ? b"}

-----------------------------------------------------------------------------
(***************************************************************************)
(* One step                                                                *)
(***************************************************************************)
\* resolveAdapter: a built-in adapter, an action of a plugin, or an error: a
\* space around it, no dot in it, or a name close to a built-in one.
ResolveAdapter(uses) ==
  CASE uses = "http.get" -> "http"
    [] uses = "media.resize" -> "plugin"
    [] OTHER -> "error"

\* validateConditionalExpression: it is not blank, and every variable starts
\* with one of the known prefixes.
ConditionAccepted(when) == when # "  " /\ when # "${odd.a}"

\* parse throws.
StepRefused(step) ==
  \/ step.id = BadId
  \/ ResolveAdapter(step.uses) = "error"
  \/ step.when # "" /\ ~ConditionAccepted(step.when)

\* parse: dependencies lose their repetitions and are sorted.
ParsedStep_KeepsOrder(step) ==
  [step EXCEPT !.needs = SelectSeq(@, LAMBDA d : d # step.id)]

ParsedStep(step) == [step EXCEPT !.needs = Sorted(ToSet(@))]

ParseAll(steps) == [i \in DOMAIN steps |-> ParsedStep(steps[i])]

-----------------------------------------------------------------------------
(***************************************************************************)
(* All steps                                                               *)
(***************************************************************************)
IdsOf(steps) == {steps[i].id : i \in DOMAIN steps}

\* validateUniqueIds throws.
DuplicateIds(steps) == Cardinality(IdsOf(steps)) # Len(steps)

\* validateDependencies throws: a step needs itself or no step.
BadDependencies(steps) ==
  \E i \in DOMAIN steps : ~(ToSet(steps[i].needs) \subseteq IdsOf(steps) \ {steps[i].id})

\* stepMap: the last step with an id.
NeedsOf(steps) ==
  [id \in IdsOf(steps) |->
     steps[CHOOSE i \in DOMAIN steps :
             steps[i].id = id /\ \A j \in DOMAIN steps : steps[j].id = id => j <= i].needs]

\* detectCircularDependencies: visit; once it throws nothing more is visited.
RECURSIVE ParserVisit(_, _, _)
ParserVisit(needs, id, st) ==
  CASE st.throws \/ (id \notin st.stack /\ id \in st.visited) -> st
    [] ~st.throws /\ id \in st.stack -> [st EXCEPT !.throws = TRUE]
    [] OTHER ->
         LET end == FoldLeft(LAMBDA t, d : ParserVisit(needs, d, t),
                             [st EXCEPT !.visited = @ \cup {id}, !.stack = @ \cup {id}],
                             needs[id])
         IN [end EXCEPT !.stack = @ \ {id}]

Circular(steps) ==
  FoldLeft(LAMBDA st, step : IF step.id \in st.visited THEN st
                             ELSE ParserVisit(NeedsOf(steps), step.id, st),
           [visited |-> {}, stack |-> {}, throws |-> FALSE], steps).throws

\* getExecutionOrder of validateOutputReferences: dependencies first, from
\* each step on in the order of the document.
DocumentOrder(steps) ==
  FoldLeft(LAMBDA st, step : Visit(NeedsOf(steps), step.id, st), NothingVisited, steps).order

\* The steps that the outputs of a step mention.
OutputReferences(step) == {r.of : r \in {r \in step.mentions : r.in = "outputs"}}

\* validateOutputReferences throws: an output mentions a step that is not
\* before its own in that order.
EarlyReference_SelfAllowed(steps) ==
  LET order == DocumentOrder(steps)
  IN \E i \in DOMAIN order : \E k \in DOMAIN steps :
       /\ steps[k].id = order[i]
       /\ ~(OutputReferences(steps[k]) \subseteq ToSet(SubSeq(order, 1, i)))

EarlyReference(steps) ==
  LET order == DocumentOrder(steps)
  IN \E i \in DOMAIN order : \E k \in DOMAIN steps :
       /\ steps[k].id = order[i]
       /\ ~(OutputReferences(steps[k]) \subseteq ToSet(SubSeq(order, 1, i - 1)))

\* parseAll and validateAll: the first check that refuses the steps, or "none".
StepsRefusal(steps) ==
  IF \E i \in DOMAIN steps : StepRefused(steps[i]) THEN "step"
  ELSE LET parsed == ParseAll(steps)
       IN IF DuplicateIds(parsed) THEN "duplicate id"
          ELSE IF BadDependencies(parsed) THEN "dependency"
          ELSE IF Circular(parsed) THEN "cycle"
          ELSE IF EarlyReference(parsed) THEN "reference"
          ELSE "none"

-----------------------------------------------------------------------------
None == "none"
Unset == "unset"   \* a key that is there without a value

\* shape "nested" has workflow.steps, "parsed" has the steps and some of the
\* metadata at the root, with other names for the fields of a step.
SettingValues ==
  [name         |-> {"a", "b"},
   metadataName |-> {"a", "b"},
   oddKey       |-> {"root", "step", "defaults", "annotations", "sourceMetadata"},
   trigger      |-> {"manual", "event", "schedule", "cron", "odd"},
   cpu          |-> {"0", "1", "odd"},
   concurrency  |-> {"0", "1"},
   usageMode    |-> {"auto", "manual", "disabled", "odd"},
   usageTrack   |-> {"true", "false"},
   usageScope   |-> {"step", "odd"},
   usageTags    |-> {"strings", "odd"},
   limit        |-> {"0", "1"},
   minVersion   |-> {"1", "2", "odd"},
   maxVersion   |-> {"1", "2", "odd"},
   deprecation  |-> {"message", "blank"},
   timeout      |-> {"50ms", "1d", "odd"},
   retryMax     |-> {"10", "11"},
   with         |-> {"loop", "secret", "oddSecret", "dynamicSecret"}]

Settings == DOMAIN SettingValues
NoSettings == [f \in Settings |-> None]

Document(shape, settings, steps) == [shape |-> shape, set |-> settings, steps |-> steps]

-----------------------------------------------------------------------------
(***************************************************************************)
(* The core schema's shape                                                 *)
(***************************************************************************)
\* normalizeParsedStepShape: a step of the parsed shape may lack "needs".
\* normalizeParsedWorkflowShape: the steps go below workflow, the aliases at
\* the root go into the metadata, where it has none yet, and are deleted.
\* The rest of normalizeForCoreSchema: a usage mode stands for a track flag
\* that is not there; schedule triggers are cron triggers; what the engine
\* alone knows is deleted.
TrackOf(set) ==
  CASE set.usageTrack \in {"true", "false"} -> set.usageTrack
    [] set.usageTrack = None /\ set.usageMode = "disabled" -> "false"
    [] set.usageTrack = None /\ set.usageMode \in {"auto", "manual"} -> "true"
    [] OTHER -> None

TriggerOf(set) == IF set.trigger = "schedule" THEN "cron" ELSE set.trigger

AliasesInMetadata(doc) ==
  IF doc.shape = "nested" THEN doc.set
  ELSE [doc.set EXCEPT !.metadataName = IF @ = None THEN doc.set.name ELSE @,
                       !.name = None]

Normalized(doc) ==
  Document("nested",
           [AliasesInMetadata(doc) EXCEPT
              !.usageTrack = TrackOf(doc.set), !.usageMode = None,
              !.trigger = TriggerOf(doc.set), !.limit = None,
              !.minVersion = None, !.maxVersion = None, !.deprecation = None],
           doc.steps)

-----------------------------------------------------------------------------
(***************************************************************************)
(* The checks, each TRUE where the code throws                             *)
(***************************************************************************)
\* getValidFields: the paths with a list of their own; any other path has the
\* fields of the root, so a section without a list cannot have its own fields.
Registered == {"root", "metadata", "workflow", "step", "defaults", "policies", "permissions",
               "retry", "usage", "limits"}
FreeForm == {"annotations", "context", "secrets", "inputs", "with", "outputs", "env"}
OwnFieldsRefused(section) == section \notin Registered \cup FreeForm

\* validateUnknownFields, on the normalized document.
UnknownField(set) ==
  \/ set.name # None
  \/ set.oddKey # None /\ set.oddKey \notin FreeForm
  \/ set.trigger # None /\ OwnFieldsRefused("triggers")
  \/ set.cpu # None /\ OwnFieldsRefused("resources")

\* validateUsageAndLimits, on the document as it is.
BadUsageOrLimits(set) ==
  \/ "odd" \in {set.usageMode, set.usageScope, set.usageTags}
  \/ set.limit = "0"

\* validateCompatibilityAndDeprecation, likewise.
BadCompatibility(set) ==
  \/ "odd" \in {set.minVersion, set.maxVersion}
  \/ set.minVersion = "2" /\ set.maxVersion = "1"
  \/ set.deprecation = "blank"

\* validateWorkflowBody
NoBody(steps) == steps = <<>>

\* validateTriggerContract
BadTrigger(set) == set.trigger \notin {None, "manual", "event", "cron"}

\* validateRetryAndTimeoutPolicies, with parseDurationToMs and
\* assertMinimumTimeout.
BadRetryOrTimeout(set) == set.retryMax = "11" \/ set.timeout \in {"50ms", "odd"}

\* validateConditionExpressionSafety: words of loops, calls, operators; then
\* the grammar, which leaves nothing but operators and spaces: any operand
\* that a condition has is still there when the operators are gone.
UnsafeCondition(when) ==
  \/ when \in {"for", "f(x)", "a ? b"}
  \/ when \in {"${inputs.a}", "${odd.a}"}

\* validateControlFlowGuardrails, validateSecretReferenceContracts.
ControlFlowKey(set) == set.with = "loop"
BadSecret(set) == set.with \in {"oddSecret", "dynamicSecret"}

\* validateResourceConstraints, with parseNumericResourceValue.
BadResources(set) == set.concurrency = "0" \/ set.cpu \in {"0", "odd"}

\* validateStepOutputReferences: every ${steps.X.output...}, spelled so, names
\* a step.
UnknownReference(steps) ==
  \E i \in DOMAIN steps : \E r \in steps[i].mentions :
     r.spelled = "output" /\ r.of \notin IdsOf(steps)

\* validate: the first check that refuses the document, or "none".
SchemaRefusal(doc) ==
  LET core == Normalized(doc)
  IN IF UnknownField(core.set) THEN "unknown field"
     ELSE IF BadUsageOrLimits(doc.set) THEN "usage"
     ELSE IF BadCompatibility(doc.set) THEN "compatibility"
     ELSE IF NoBody(core.steps) THEN "body"
     ELSE IF BadTrigger(core.set) THEN "trigger"
     ELSE IF BadRetryOrTimeout(core.set) THEN "policy"
     ELSE IF \E i \in DOMAIN core.steps : UnsafeCondition(core.steps[i].when) THEN "condition"
     ELSE IF ControlFlowKey(core.set) THEN "control flow"
     ELSE IF BadResources(core.set) THEN "resources"
     ELSE IF BadSecret(core.set) THEN "secret"
     ELSE IF UnknownReference(core.steps) THEN "reference"
     ELSE "none"
=============================================================================
