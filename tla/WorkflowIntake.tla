--------------------------- MODULE WorkflowIntake ---------------------------
(***************************************************************************)
(* WorkflowParser and WorkflowLoader: a document is written one link or    *)
(* setting at a time, and may be handed to any of the loader's entry       *)
(* points, as an object of either shape, as text or as a file.             *)
(***************************************************************************)
EXTENDS SchemaChecks

CONSTANTS DocSteps,  \* the number of steps of the document
          MaxInk     \* bound: a link between steps counts 2, a setting 3

ASSUME WorkflowIntakeAssumption == DocSteps \in Nat \ {0} /\ MaxInk \in Nat

VARIABLE doc   \* the document, in the nested shape

DocStep == 1 .. DocSteps
Mention ==
       [of : DocStep \cup {DocSteps + 1}, in : {"outputs"}, spelled : {"outputs"}]
  \cup [of : DocStep \cup {DocSteps + 1}, in : {"with"}, spelled : {"output"}]
PlainStep(i) == [id |-> i, uses |-> "http.get", when |-> "", needs |-> <<>>, mentions |-> {}]

Ink(d) ==
  LET links(step) == Len(step.needs) + Cardinality(step.mentions)
      written(step, i) == Cardinality({f \in {"id", "uses", "when"} : step[f] # PlainStep(i)[f]})
  IN   2 * MapThenSumSet(LAMBDA i : links(d.steps[i]), DOMAIN d.steps)
     + 3 * (  MapThenSumSet(LAMBDA i : written(d.steps[i], i), DOMAIN d.steps)
            + Cardinality({f \in Settings : d.set[f] # None})
            + DocSteps - Len(d.steps))

IntakeTypeOK ==
  /\ doc.shape = "nested" /\ Ink(doc) <= MaxInk
  /\ \A f \in Settings : doc.set[f] \in SettingValues[f] \cup {None}
  /\ \A i \in DOMAIN doc.steps :
       /\ doc.steps[i].id \in DocStep \cup {BadId}
       /\ doc.steps[i].uses \in Actions /\ doc.steps[i].when \in Conditions
       /\ doc.steps[i].needs \in Seq(DocStep \cup {DocSteps + 1})
       /\ doc.steps[i].mentions \subseteq Mention

IntakeInit == doc = Document("nested", NoSettings, [i \in DocStep |-> PlainStep(i)])

Writes(d) == Ink(d) <= MaxInk /\ doc' = d
WriteSetting ==
  \E f \in Settings : \E v \in SettingValues[f] :
    doc.set[f] = None /\ Writes([doc EXCEPT !.set[f] = v])
WriteStep ==
  \E i \in DOMAIN doc.steps :
    \/ \E id \in DocStep \cup {BadId} : Writes([doc EXCEPT !.steps[i].id = id])
    \/ \E uses \in Actions : Writes([doc EXCEPT !.steps[i].uses = uses])
    \/ \E when \in Conditions : Writes([doc EXCEPT !.steps[i].when = when])
WriteLink ==
  \E i \in DOMAIN doc.steps :
    \/ \E d \in DocStep \cup {DocSteps + 1} : Writes([doc EXCEPT !.steps[i].needs = Append(@, d)])
    \/ \E m \in Mention : Writes([doc EXCEPT !.steps[i].mentions = @ \cup {m}])
DropStep == doc.steps # <<>> /\ Writes([doc EXCEPT !.steps = Tail(@)])

IntakeNext == WriteSetting \/ WriteStep \/ WriteLink \/ DropStep

-----------------------------------------------------------------------------
(***************************************************************************)
(* WorkflowParser                                                          *)
(***************************************************************************)
\* The check that makes parse throw, or "none".
Refusal(d) ==
  IF SchemaRefusal(d) # "none" THEN SchemaRefusal(d) ELSE StepsRefusal(d.steps)

\* extractUsageAndLimits: what the document says goes before what the schema
\* made of it; a usage section has a mode in any case.
UsageModeOf(d) ==
  LET core == Normalized(d).set
      given == \E f \in {"usageMode", "usageTrack", "usageScope", "usageTags"} : d.set[f] # None
  IN IF d.set.usageMode # None THEN d.set.usageMode
     ELSE IF core.usageTrack = "false" THEN "disabled"
     ELSE IF given THEN "auto" ELSE None

\* parse: the workflow that a document stands for.  Compatibility and
\* deprecation are taken from the document, the rest from its core shape.
ParsedWorkflow(d) ==
  [set   |-> [Normalized(d).set EXCEPT
                !.usageMode = UsageModeOf(d), !.oddKey = None, !.limit = d.set.limit,
                !.minVersion = d.set.minVersion, !.maxVersion = d.set.maxVersion,
                !.deprecation = d.set.deprecation],
   steps |-> ParseAll(d.steps)]

\* A parsed workflow is a document of the parsed shape: its name is at the root.
\* In memory its usage section has all keys, the track flag with no value
\* perhaps; a file that it is saved to has not.
SavedDocument(workflow) ==
  Document("parsed", [workflow.set EXCEPT !.name = workflow.set.metadataName,
                                          !.metadataName = None],
           workflow.steps)

AsDocument(workflow) ==
  [SavedDocument(workflow) EXCEPT
     !.set.usageTrack = IF workflow.set.usageMode # None /\ @ = None THEN Unset ELSE @]

\* The same document with the metadata at the root and the fields of the steps
\* by their other names.
OtherShape(d) ==
  Document("parsed", IF d.set.metadataName = None THEN d.set
                     ELSE [d.set EXCEPT !.name = d.set.metadataName, !.metadataName = None],
           d.steps)

-----------------------------------------------------------------------------
(***************************************************************************)
(* WorkflowLoader                                                          *)
(***************************************************************************)
\* A string: whether looksLikeFilePath takes it for one (it contains a slash,
\* or ends as a file of a workflow does), whether there is such a file, and
\* whether looksLikeStructuredWorkflowContent takes it for a document.
Text == [pathLike : BOOLEAN, exists : BOOLEAN, structured : BOOLEAN]
Entry == {"toWorkflowObject", "fromString", "fromFile", "fromYAML"}

\* Which way a string takes: as a file, as content, or an error.
Route(entry, text) ==
  CASE entry = "fromYAML" -> "content"
    [] entry = "fromFile" -> IF text.exists THEN "file" ELSE "not found"
    [] OTHER -> IF text.pathLike
                THEN IF text.exists THEN "file" ELSE "not found"
                ELSE IF text.structured THEN "content" ELSE "unsupported"

\* What comes of a text, or of a file with it, that the parser answers with
\* refusal: variables become inputs except through fromYAML and fromJSON.
Load(entry, text, refusal) ==
  LET route == Route(entry, text)
  IN [refused   |-> IF route \in {"file", "content"} THEN refusal ELSE route,
      variables |-> entry # "fromYAML"]

-----------------------------------------------------------------------------
(***************************************************************************)
(* Properties                                                              *)
(***************************************************************************)
\* The two shapes of a document get one verdict and become one workflow.
ShapesAgree(refusal, workflow) ==
  doc.set.name = None =>
    /\ Refusal(OtherShape(doc)) = refusal
    /\ refusal = "none" => ParsedWorkflow(OtherShape(doc)) = workflow

\* What has been parsed is itself a document, and parses to itself; so does
\* the file it is saved to, up to a track flag that its mode stands for.
ReparsesToItself(workflow) ==
  LET inMemory == AsDocument(workflow)
      saved    == SavedDocument(workflow)
  IN /\ Refusal(inMemory) = "none" /\ ParsedWorkflow(inMemory) = workflow
     /\ Refusal(saved) = "none"
     /\ [ParsedWorkflow(saved) EXCEPT !.set.usageTrack = workflow.set.usageTrack] = workflow

\* The orders of all the steps with the dependencies of each before it.
Orders(steps) ==
  {order \in SetToSeqs(IdsOf(steps)) :
     \A k \in DOMAIN steps : \A i \in DOMAIN order :
       order[i] = steps[k].id => ToSet(steps[k].needs) \subseteq ToSet(SubSeq(order, 1, i - 1))}

\* An accepted document has one step for every id and an order of them, which
\* the planner and the executor take for granted, and its outputs mention only
\* other steps of it.
AcceptedCanRun ==
  /\ doc.steps # <<>>
  /\ Cardinality(IdsOf(doc.steps)) = Len(doc.steps)
  /\ Orders(doc.steps) # {}
  /\ \A i \in DOMAIN doc.steps :
       OutputReferences(doc.steps[i]) \subseteq IdsOf(doc.steps) \ {doc.steps[i].id}

\* A document is refused as circular only if no order exists, and for a
\* reference to a step that has not run only if that can be so.
RefusalsAreRight(refusal) ==
  /\ refusal = "cycle" => Orders(doc.steps) = {}
  /\ refusal = "reference" /\ ~UnknownReference(doc.steps) =>
       \E k \in DOMAIN doc.steps : \E r \in OutputReferences(doc.steps[k]) :
         \E order \in Orders(doc.steps) : \E i \in DOMAIN order :
           order[i] = doc.steps[k].id /\ r \notin ToSet(SubSeq(order, 1, i - 1))

\* Where a document can come in as text, all the ways give one answer; a text
\* that is taken for the path of a missing file never gets to the parser.
EntriesAgree(refusal) ==
  \A entry \in Entry : \A text \in Text :
    LET load == Load(entry, text, refusal)
    IN /\ text.exists /\ text.pathLike => load.refused = refusal
       /\ text.pathLike /\ ~text.exists /\ entry # "fromYAML" => load.refused = "not found"

IntakeSound ==
  LET refusal  == Refusal(doc)
      workflow == ParsedWorkflow(doc)
  IN /\ ShapesAgree(refusal, workflow) /\ RefusalsAreRight(refusal) /\ EntriesAgree(refusal)
     /\ refusal = "none" => ReparsesToItself(workflow) /\ AcceptedCanRun

-----------------------------------------------------------------------------
(***************************************************************************)
(* WorkflowLoader.convertDiagramToWorkflowObject: a diagram of nodes and   *)
(* edges, drawn one edge at a time, and the document made of it.           *)
(***************************************************************************)
CONSTANTS MaxNodes,  \* bound: nodes of the diagram
          MaxEdges   \* bound: edges of the diagram

ASSUME DiagramIntakeAssumption == MaxNodes \in Nat /\ MaxEdges \in Nat

VARIABLES nodes,  \* nodes[n]: the type of node n; "bare" is a step without an action
          edges   \* the edges, source and target

drawingVars == <<nodes, edges>>

Kinds == <<"start", "end", "step", "bare", "condition">>
Unlisted == MaxNodes + 1   \* an id that no node has
InOrder(kinds) == \A i \in 1 .. Len(kinds) - 1 : kinds[i] <= kinds[i + 1]

DrawingTypeOK ==
  /\ nodes \in Seq(ToSet(Kinds)) /\ Len(nodes) <= MaxNodes
  /\ \A e \in edges : e[1] \in DOMAIN nodes /\ e[2] \in (DOMAIN nodes) \cup {Unlisted}
  /\ Cardinality(edges) <= MaxEdges

\* Nodes are numbered by their types: their order makes no other difference.
DrawingInit ==
  /\ \E n \in 0 .. MaxNodes : \E kinds \in [1 .. n -> DOMAIN Kinds] :
       InOrder(kinds) /\ nodes = [i \in 1 .. n |-> Kinds[kinds[i]]]
  /\ edges = {}

DrawingNext ==
  /\ Cardinality(edges) < MaxEdges
  /\ \E a \in DOMAIN nodes : \E b \in (DOMAIN nodes) \cup {Unlisted} : edges' = edges \cup {<<a, b>>}
  /\ UNCHANGED nodes

-----------------------------------------------------------------------------
OfType(type) == {n \in DOMAIN nodes : nodes[n] = type}
Executable == OfType("step") \cup OfType("bare") \cup OfType("condition")

Targets(n) == {e[2] : e \in {e \in edges : e[1] = n}}
Sources(n) == {e[1] : e \in {e \in edges : e[2] = n}}

\* walk: the nodes reached from a node.
RECURSIVE Walk(_, _)
Walk(n, reachable) ==
  IF n \in reachable THEN reachable
  ELSE FoldSet(LAMBDA m, seen : Walk(m, seen), reachable \cup {n}, Targets(n))

\* The check that makes the conversion throw, or "none".
ConversionRefusal ==
  IF nodes = <<>> THEN "no nodes"
  ELSE IF Cardinality(OfType("start")) # 1 THEN "start"
  ELSE IF OfType("end") = {} THEN "end"
  ELSE IF \E e \in edges : e[2] = Unlisted THEN "edge"
  ELSE IF \E n \in Executable : \A s \in OfType("start") : n \notin Walk(s, {}) THEN "unreachable"
  ELSE IF \E n \in OfType("condition") : Cardinality(Targets(n)) < 2 THEN "condition"
  ELSE IF OfType("bare") # {} THEN "action"
  ELSE "none"

\* A step needs the sources of the edges to its node, whatever they are.  A
\* condition node without an action is a step of the control adapter.
StepOfNode_DropsLast(n) ==
  [PlainStep(n) EXCEPT !.needs = Sorted(IF Cardinality(Sources(n)) < 2 THEN {} ELSE Sources(n))]

StepOfNode(n) == [PlainStep(n) EXCEPT !.needs = Sorted(Sources(n))]

\* The document has the keys name, description, tags and owner at its root in
\* any case, without a value if the diagram has none.
Converted ==
  LET order == Sorted(Executable)
  IN Document("nested", [NoSettings EXCEPT !.name = Unset],
              [i \in DOMAIN order |-> StepOfNode(order[i])])

-----------------------------------------------------------------------------
(***************************************************************************)
(* Properties                                                              *)
(***************************************************************************)
\* The steps of a converted diagram are ordered as its edges say, none is lost,
\* and each follows from the start.
ConversionKeepsOrder ==
  ConversionRefusal = "none" =>
    /\ IdsOf(Converted.steps) = Executable
    /\ \A i \in DOMAIN Converted.steps :
         LET step == Converted.steps[i]
         IN /\ step.needs # <<>>
            /\ \A d \in Executable : d \in ToSet(step.needs) <=> <<d, step.id>> \in edges

\* What the validator says of it, as it is now: no diagram is accepted, for the
\* keys at the root, nor are its steps, where the first one needs a node that is
\* not a step.
ConvertedIsRefused ==
  ConversionRefusal = "none" =>
    /\ Refusal(Converted) = "unknown field"
    /\ Converted.steps # <<>> => StepsRefusal(Converted.steps) = "dependency"

DrawingSound == ConversionKeepsOrder /\ ConvertedIsRefused
=============================================================================
