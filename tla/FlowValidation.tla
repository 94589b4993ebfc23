--------------------------- MODULE FlowValidation ---------------------------
(***************************************************************************)
(* validate_workflow (framework/graph.rs): the rules a parsed .flow meets  *)
(* before it may run.  The edges come from the declared inputs that name a *)
(* declared output, FlowGraph orders them, and the report accepts the      *)
(* workflow when no rule is broken.                                        *)
(*                                                                         *)
(* Product types and algorithms have the names of the registry without     *)
(* their ".v1"; node ids are numbers, ordered as the names sort.           *)
(***************************************************************************)
EXTENDS FlowGraph

CONSTANT Workflows   \* parsed workflows

InputPlaces(w) == UNION {{i} \X DOMAIN w.nodes[i].inputs : i \in DOMAIN w.nodes}
OutputPlaces(w) == UNION {{i} \X DOMAIN w.nodes[i].outputs : i \in DOMAIN w.nodes}

\* A node of a .flow, and what bounds the files: their ids are Node.
NodeSpec == [id : Node, algorithm : STRING, layer : STRING,
             inputs : Seq([from : Nat, role : STRING]), outputs : Seq([role : STRING, type : STRING])]

ASSUME FlowValidationAssumption ==
    \A w \in Workflows :
        /\ w.nodes \in Seq(NodeSpec) /\ Len(w.nodes) <= MaxNodes
        /\ Node = {w.nodes[i].id : i \in DOMAIN w.nodes}
        /\ IsFiniteSet(InputPlaces(w)) /\ Cardinality(InputPlaces(w)) <= MaxEdges

VARIABLES
    flow,        \* the ParsedWorkflow
    report       \* "none", then the event of the ValidationReport

validationVars == <<vars, flow, report>>

Nodes == {flow.nodes[i] : i \in DOMAIN flow.nodes}
InputsOf(n) == {n.inputs[k] : k \in DOMAIN n.inputs}
TypesOf(n) == {n.outputs[k].type : k \in DOMAIN n.outputs}

Distinct(names) == \A i, j \in DOMAIN names : names[i] = names[j] => i = j

(* The reference data every start seeds: docs/contracts and registry.rs *)

Algorithm(id, class, purity, inputs, outputs, resources) ==
    [algorithm_id |-> id, hazard_class |-> class, purity |-> purity,
     inputs |-> inputs, outputs |-> outputs \cup {"command_output"}, resources |-> resources]

Registry == {
    Algorithm("cmd.recon", "A", "deterministic_io", {}, {"reconciliation_snapshot"}, {"sqlite.local"}),
    Algorithm("cmd.plan", "A", "deterministic_io", {"reconciliation_snapshot"},
        {"forecast_set", "target_weight_set", "order_intent_set"}, {"sqlite.local"}),
    Algorithm("cmd.value", "A", "deterministic_io", {"reconciliation_snapshot"},
        {"statement_snapshot_set", "valuation_set", "target_weight_set", "order_intent_set"}, {"sqlite.local"}),
    Algorithm("cmd.feat", "B", "deterministic_io", {"statement_snapshot_set"},
        {"feature_snapshot_set"}, {"sqlite.local"}),
    Algorithm("cmd.gate", "A", "deterministic_io", {"order_intent_set", "reconciliation_snapshot"},
        {"risk_decision_set"}, {"sqlite.local"}),
    Algorithm("cmd.stage", "A", "deterministic_io", {"risk_decision_set"},
        {"staged_order_set"}, {"sqlite.local"}),
    Algorithm("cmd.send.mock", "A", "external_write", {"staged_order_set", "reconciliation_snapshot"},
        {"broker_event_set"}, {"sqlite.local", "broker.adapter"}),
    Algorithm("cmd.report.daily", "C", "deterministic_io",
        {"valuation_set", "risk_decision_set", "feature_snapshot_set"}, {"report"}, {"sqlite.local"}),
    Algorithm("fixture.seed_portfolio", "B", "deterministic_io", {}, {}, {"sqlite.local"}),
    Algorithm("fixture.ingest_sec_package", "B", "deterministic_io", {"command_output"},
        {"raw_filing_package", "xbrl_fact_set", "canonical_observation_set"}, {"sqlite.local", "filesystem.local"}),
    Algorithm("fixture.seed_model_observations", "B", "deterministic_io", {"canonical_observation_set"},
        {"canonical_observation_set"}, {"sqlite.local", "filesystem.local"}),
    Algorithm("fixture.set_mode", "A", "deterministic_io", {}, {}, {"sqlite.local"}),
    Algorithm("noop.test", "C", "pure", {"command_output"}, {}, {}) }

ProductType(class) ==
    CASE class = "A" -> {"statement_snapshot_set", "forecast_set", "valuation_set", "target_weight_set",
                         "order_intent_set", "risk_decision_set", "staged_order_set",
                         "broker_event_set", "reconciliation_snapshot"}
      [] class = "B" -> {"raw_filing_package", "xbrl_fact_set", "canonical_observation_set",
                         "feature_snapshot_set"}
      [] class = "C" -> {"command_output", "report"}

Modes == {"halted", "observe", "shadow", "stage", "paper", "live_limited", "live"}
CanSubmit == {"paper", "live_limited", "live"}
CanStage == CanSubmit \cup {"stage"}

AllowedModes(resource) == IF resource = "broker.adapter" THEN CanSubmit ELSE Modes

Authority == {"order_intent_set", "risk_decision_set", "staged_order_set",
              "broker_event_set", "reconciliation_snapshot"}
-----------------------------------------------------------------------------
(* The outputs map and the edges *)

\* Places in the file, <<node, line>>, are read in this order.
Precedes(p, q) == p[1] < q[1] \/ (p[1] = q[1] /\ p[2] < q[2])

\* Mutant: a role means the same on every node.
DeclarationsOfRole(in) ==
    {p \in OutputPlaces(flow) : flow.nodes[p[1]].outputs[p[2]].role = in.role}

\* Where the (node id, role) that an input names is declared.
Declarations(in) ==
    {p \in OutputPlaces(flow) :
        /\ flow.nodes[p[1]].id = in.from
        /\ flow.nodes[p[1]].outputs[p[2]].role = in.role}

\* The types an input resolves to: none, or the one declared last.
Resolved(in) ==
    {flow.nodes[p[1]].outputs[p[2]].type :
        p \in {q \in Declarations(in) : \A r \in Declarations(in) : ~Precedes(q, r)}}

\* collect_edges skips an input whose node or role is unknown.
Wired ==
    {p \in InputPlaces(flow) : Declarations(flow.nodes[p[1]].inputs[p[2]]) # {}}

EdgeOf(p) == <<flow.nodes[p[1]].inputs[p[2]].from, flow.nodes[p[1]].id>>

\* The place of S that k - 1 others of S precede.
Nth(S, k) == CHOOSE p \in S : Cardinality({q \in S : Precedes(q, p)}) = k - 1

EdgeList(places) == [k \in 1 .. Cardinality(places) |-> EdgeOf(Nth(places, k))]
-----------------------------------------------------------------------------
(* The rules *)

LayersKnown ==
    /\ Distinct([i \in DOMAIN flow.layers |-> flow.layers[i].layer])
    /\ \A i \in DOMAIN flow.layers : flow.layers[i].parent \in
            {"none"} \cup {flow.layers[j].layer : j \in DOMAIN flow.layers}
    /\ \A n \in Nodes : \E j \in DOMAIN flow.layers : n.layer = flow.layers[j].layer

NamesDistinct ==
    /\ Distinct([i \in DOMAIN flow.nodes |-> flow.nodes[i].id])
    /\ \A n \in Nodes : Distinct([k \in DOMAIN n.outputs |-> n.outputs[k].role])

InputsKnown == \A n \in Nodes : \A in \in InputsOf(n) : Declarations(in) # {}

HasInputType(n, type) == \E in \in InputsOf(n) : type \in Resolved(in)

\* Mutant: what a node puts out need only have a known type.
ContractOfInputs(n, a) ==
    /\ \A in \in InputsOf(n) : Resolved(in) \subseteq a.inputs
    /\ TypesOf(n) \subseteq UNION {ProductType(c) : c \in {"A", "B", "C"}}

\* validate_algorithm_contract
Contract(n, a) ==
    /\ \A in \in InputsOf(n) : Resolved(in) \subseteq a.inputs
    /\ TypesOf(n) \subseteq a.outputs \cap UNION {ProductType(c) : c \in {"A", "B", "C"}}

\* Mutant: a broker event may have either parent.
AuthorityLineageEither(n) ==
    /\ "staged_order_set" \in TypesOf(n) => HasInputType(n, "risk_decision_set")
    /\ "broker_event_set" \in TypesOf(n) =>
        HasInputType(n, "staged_order_set") \/ HasInputType(n, "reconciliation_snapshot")

\* validate_authority_lineage_shape: a rule on what a node declares to put out.
AuthorityLineage(n) ==
    /\ "staged_order_set" \in TypesOf(n) => HasInputType(n, "risk_decision_set")
    /\ "broker_event_set" \in TypesOf(n) =>
        HasInputType(n, "staged_order_set") /\ HasInputType(n, "reconciliation_snapshot")

\* Mutant: the modes of the broker resource stand for its permission.
AlgorithmModeOfResources(a) ==
    /\ a.purity = "external_write" => flow.mode \in CanSubmit /\ flow.allow_external_write
    /\ a.algorithm_id = "cmd.stage" => flow.mode \in CanStage
    /\ \A r \in a.resources : flow.mode \in AllowedModes(r)

\* validate_algorithm_mode
AlgorithmMode(a) ==
    /\ a.purity = "external_write" => flow.mode \in CanSubmit /\ flow.allow_external_write
    /\ a.algorithm_id = "cmd.stage" => flow.mode \in CanStage
    /\ \A r \in a.resources :
        /\ flow.mode \in AllowedModes(r)
        /\ r = "broker.adapter" => flow.mode \in CanSubmit /\ flow.allow_broker_resource

\* validate_class_c_outputs and validate_class_a_input_product
Classes(n, a) ==
    /\ a.hazard_class = "C" => TypesOf(n) \cap Authority = {}
    /\ a.hazard_class = "A" => \A in \in InputsOf(n) : Resolved(in) \cap ProductType("C") = {}

NodesValid ==
    \A n \in Nodes : \E a \in Registry :
        /\ a.algorithm_id = n.algorithm
        /\ Contract(n, a) /\ AuthorityLineage(n) /\ AlgorithmMode(a) /\ Classes(n, a)

Valid ==
    /\ flow.mode \in Modes
    /\ LayersKnown /\ NamesDistinct /\ InputsKnown /\ NodesValid
    /\ verdict = "ordered"
-----------------------------------------------------------------------------
ValidateInit ==
    /\ flow \in Workflows /\ report = "none"
    /\ \E places \in {Wired} : edges = EdgeList(places)
    /\ declared = Len(flow.nodes)
    /\ indegree = [n \in Node |-> InDegree(n)]
    /\ found \in Sources
    /\ done = 0 /\ todo = {} /\ verdict = "none"

TopologicalOrder == Next /\ UNCHANGED <<flow, report>>

Report ==
    /\ verdict # "none" /\ report = "none"
    /\ report' = IF Valid THEN "workflow_validated" ELSE "workflow_rejected"
    /\ UNCHANGED <<vars, flow>>

Validate == TopologicalOrder \/ Report

ValidateSpec == ValidateInit /\ [][Validate]_validationVars
-----------------------------------------------------------------------------
Accepted == report = "workflow_validated"

\* The order runs a node that makes products of this type before place j.
MadeBefore(type, j) ==
    \E i \in 1 .. j - 1 : \E n \in Nodes : n.id = found[i] /\ type \in TypesOf(n)

\* The order of an accepted workflow gives each declared input its product:
\* it holds every node once, and before the node that declares an input comes
\* the one node of that id, which declares that role once.  run_node looks
\* products up by id and role without any check of its own.
ExecutorCanRun ==
    Accepted =>
        /\ Len(found) = Len(flow.nodes)
        /\ \A n \in Nodes : \E j \in 1 .. Len(found) :
             /\ found[j] = n.id
             /\ \A in \in InputsOf(n) : \E i \in 1 .. j - 1 : \E m \in Nodes :
                  /\ found[i] = in.from /\ m.id = in.from
                  /\ Cardinality({k \in DOMAIN m.outputs : m.outputs[k].role = in.role}) = 1

\* Broker events are only declared behind the whole chain: a node that makes
\* risk decisions, after it one that stages orders, and a reconciliation, all
\* of them ordered before the node that sends (docs/PRODUCT_GRAPH.md, 6).
AuthorityChain ==
    Accepted => \A j \in 1 .. Len(found), n \in Nodes :
        (n.id = found[j] /\ "broker_event_set" \in TypesOf(n)) =>
            /\ MadeBefore("reconciliation_snapshot", j)
            /\ \E i \in 1 .. j - 1 : \E m \in Nodes :
                 /\ m.id = found[i] /\ "staged_order_set" \in TypesOf(m)
                 /\ MadeBefore("risk_decision_set", i)

ClassOf(n) == {a.hazard_class : a \in {b \in Registry : b.algorithm_id = n.algorithm}}

\* Along every edge of an accepted workflow into a node of class A lies a node
\* of class A, so nothing upstream of an order is of a lower class: "Class C
\* code must never become part of the execution authority" (docs/INTENT.md).
\* No rule says so; it follows from the rules and the contracts together.
ClassAFromClassA ==
    Accepted => \A e \in DOMAIN edges : \A m, n \in Nodes :
        (m.id = From(e) /\ n.id = To(e) /\ "A" \in ClassOf(n)) => ClassOf(m) = {"A"}

\* An accepted workflow of a mode that may not stage, or not submit, has no
\* node that does, whatever it is called and whatever it declares: "observe
\* and shadow workflows cannot use them for side effects".
ModeBoundsAuthority ==
    Accepted => \A n \in Nodes :
        /\ (n.algorithm = "cmd.stage" \/ "staged_order_set" \in TypesOf(n)) => flow.mode \in CanStage
        /\ (n.algorithm = "cmd.send.mock" \/ "broker_event_set" \in TypesOf(n)) =>
            flow.mode \in CanSubmit /\ flow.allow_external_write /\ flow.allow_broker_resource
=============================================================================
