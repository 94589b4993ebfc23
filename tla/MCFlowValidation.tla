--------------------------- MODULE MCFlowValidation ---------------------------
(* Two workflows after docs/contracts/workflow.paper_mock.flow and          *)
(* workflow.full_analysis.flow, and the workflows two edits away from them. *)
EXTENDS FlowValidation

KNode == 1 .. 6   \* gate, value, reconcile, report, send (features), stage (plan)

In(n, role) == [from |-> n, role |-> role]
Out(type) == [role |-> type, type |-> type]
Cmd(n, alg, inputs, outputs) ==
    [id |-> n, algorithm |-> alg, layer |-> "job", inputs |-> inputs, outputs |-> outputs]

Recon == In(3, "reconciliation_snapshot")
Decisions == In(1, "risk_decision_set")
Staged == In(6, "staged_order_set")

Layers == << [layer |-> "job", parent |-> "none"], [layer |-> "run", parent |-> "job"] >>

Value == Cmd(2, "cmd.value", << Recon >>,
    << Out("statement_snapshot_set"), Out("valuation_set"), Out("order_intent_set") >>)
Gate == Cmd(1, "cmd.gate", << In(2, "order_intent_set"), Recon >>, << Out("risk_decision_set") >>)

Paper == [mode |-> "paper", allow_external_write |-> TRUE, allow_broker_resource |-> TRUE,
    layers |-> Layers,
    nodes |-> <<
        Cmd(3, "cmd.recon", <<>>, << Out("reconciliation_snapshot") >>), Value, Gate,
        Cmd(6, "cmd.stage", << Decisions >>, << Out("staged_order_set") >>),
        Cmd(5, "cmd.send.mock", << Staged, Recon >>, << Out("broker_event_set") >>),
        Cmd(4, "cmd.report.daily", << In(2, "valuation_set"), Decisions >>, << Out("report") >>) >>]

Shadow == [mode |-> "shadow", allow_external_write |-> FALSE, allow_broker_resource |-> FALSE,
    layers |-> Layers,
    nodes |-> <<
        Cmd(3, "cmd.recon", <<>>, << Out("reconciliation_snapshot") >>),
        Cmd(6, "cmd.plan", << Recon >>, << Out("forecast_set"), Out("order_intent_set") >>), Value,
        Cmd(5, "cmd.feat", << In(2, "statement_snapshot_set") >>, << Out("feature_snapshot_set") >>), Gate,
        Cmd(4, "cmd.report.daily", << In(2, "valuation_set"), In(5, "feature_snapshot_set"), Decisions >>,
            << Out("report") >>) >>]

SomeInputs == {Recon, In(2, "valuation_set"), Decisions, Staged, In(5, "broker_event_set"),
               In(4, "report"), In(2, "report"), In(9, "report"),
               In(2, "feature_snapshot_set"), In(4, "command_output"), In(2, "order_intent_set")}
SomeTypes == {"statement_snapshot_set", "staged_order_set", "broker_event_set", "reconciliation_snapshot",
              "feature_snapshot_set", "command_output", "report", "unheard_of"}
SomeAlgorithms == {"cmd.recon", "cmd.plan", "cmd.gate", "cmd.report.daily", "cmd.feat", "cmd.stage", "cmd.send.mock", "noop.test",
                   "fixture.ingest_sec_package", "unheard_of"}

Without(seq, k) == [i \in 1 .. Len(seq) - 1 |-> IF i < k THEN seq[i] ELSE seq[i + 1]]

NodeEdits(n) ==
    {[n EXCEPT !.algorithm = a] : a \in SomeAlgorithms}
    \cup {[n EXCEPT !.layer = "unheard_of"]}
    \cup {[n EXCEPT !.inputs = Append(@, in)] : in \in SomeInputs}
    \cup {[n EXCEPT !.inputs = Without(@, k)] : k \in DOMAIN n.inputs}
    \cup {[n EXCEPT !.outputs = Append(@, Out(t))] : t \in SomeTypes}
    \cup {[n EXCEPT !.outputs = Without(@, k)] : k \in DOMAIN n.outputs}
    \cup {[n EXCEPT !.outputs[k].type = t] : k \in DOMAIN n.outputs, t \in SomeTypes}

FlowEdits(f) ==
    {f}
    \cup {[f EXCEPT !.mode = m] : m \in {"observe", "stage", "unheard_of"}}
    \cup {[f EXCEPT !.allow_external_write = FALSE], [f EXCEPT !.allow_broker_resource = FALSE]}
    \cup {[f EXCEPT !.layers = Append(@, @[1])], [f EXCEPT !.layers[2].parent = "unheard_of"]}
    \cup {[f EXCEPT !.nodes = Append(@, @[i])] : i \in {2, 6}}

\* An edit replaces the node at a place, or what is around the nodes.
OfNode(f) == UNION {[place : {i}, node : NodeEdits(f.nodes[i]), around : {f}] : i \in 1 .. 6}
OfFlow(f) == [place : {0}, node : {f.nodes[1]}, around : FlowEdits(f)]

Edited(d, e) == [e.around EXCEPT !.nodes = [i \in DOMAIN @ |->
    CASE i = e.place -> e.node [] i = d.place /\ i # e.place -> d.node [] OTHER -> @[i]]]

KWorkflows ==
    {Edited(p[1], p[2]) : p \in
        {q \in (OfNode(Paper) \cup OfNode(Shadow)) \X
               (OfNode(Paper) \cup OfNode(Shadow) \cup OfFlow(Paper) \cup OfFlow(Shadow)) :
            /\ q[1].around.nodes = SubSeq(q[2].around.nodes, 1, 6)
            /\ q[1].place < q[2].place \/ q[2].place = 0}}
=============================================================================
