---------------------------- MODULE FlowExecutor ----------------------------
(***************************************************************************)
(* run_validated_workflow (framework/executor.rs) over the product store   *)
(* (framework/storage.rs): runs of workflows, each in a process of its     *)
(* own, interleaved between their transactions and killed at any of them.  *)
(*                                                                         *)
(* data_products holds at most one row per UNIQUE key, and two rows of one *)
(* product_id would agree on the key, so a product is named by its key     *)
(* and products maps it to the rest of the identity it was stored with.    *)
(* The effects an operation commits itself are those of OrderPipeline.     *)
(***************************************************************************)
EXTENDS Integers, FiniteSets, Sequences

CONSTANTS
    Run,         \* workflow runs, one process each
    Flow,        \* validated workflows
    Node,        \* nodes of all workflows
    Order,       \* order of execution: Flow -> Seq(Node)
    Inputs,      \* declared inputs: Flow -> Node -> Seq(<<node, type>>)
    Cell,        \* cell, algorithm and config of a node
    Domain,      \* nodes that declare a product besides command_output.v1
    Noop,        \* nodes of noop.test.v1
    Checked,     \* nodes of the deterministic operations: plan, value, feat, gate
    AsOf,        \* texts of decision_as_of, which nothing validates
    Readable,    \* those that are dates
    Instant,     \* the dates in milliseconds since 1970: Readable -> Int
    Same, Error  \* contents that repeat: of a success, of a failure

Type == {"output", "domain"}

\* An input of the j-th node comes from a node before it that declares it, and
\* has a type of the algorithm's contract.
InputAllowed(f, j, in) ==
    /\ \E i \in 1 .. j - 1 : Order[f][i] = in[1]
    /\ in[2] = "domain" => in[1] \in Domain
    /\ Order[f][j] \in Checked => in[2] = "domain"

\* What topological_order and the algorithm contracts leave of a workflow.
ASSUME FlowExecutorAssumption ==
    /\ Order \in [Flow -> Seq(Node)]
    /\ Inputs \in [Flow -> [Node -> Seq(Node \X Type)]]
    /\ \A f \in Flow : \A j \in 1 .. Len(Order[f]) :
         /\ \A i \in 1 .. Len(Order[f]) : Order[f][i] = Order[f][j] => i = j
         /\ \A k \in 1 .. Len(Inputs[f][Order[f][j]]) :
              InputAllowed(f, j, Inputs[f][Order[f][j]][k])
    /\ Noop \subseteq Node /\ Checked \subseteq Node \ Noop /\ Domain \subseteq Node \ Noop
    /\ Readable \subseteq AsOf
    /\ Instant \in [Readable -> Int]
    /\ Same # Error /\ {Same, Error} \cap (Run \X Node) = {}

\* The content of a product repeats whenever its node does the same, unless it
\* carries a fresh event id or the workflow_run_id.
Content == {Same, Error} \cup (Run \X Node)

Key == [cell : {Cell[n] : n \in Node}, type : Type, content : Content]

VARIABLES
    status,      \* workflow_runs.status, "none" before the row exists
    node,        \* workflow_nodes.status of each node of a run
    ins,         \* workflow_nodes.input_product_ids_json
    outs,        \* workflow_nodes.output_product_ids_json
    products,    \* data_products: key -> parents and available_at of its identity
    lineage,     \* data_product_lineage: <<child, parent>>
    violations,  \* runs with rows in graph_invariant_violations
    flow,        \* the workflow of a run
    asOf,        \* its decision_as_of
    cur,         \* position in the order
    made,        \* output products of the node under execution
    pc           \* where the process stands

tables == <<status, node, ins, outs, products, lineage, violations>>
locals == <<flow, asOf, cur, made, pc>>
vars == <<tables, locals>>

Init ==
    /\ status = [r \in Run |-> "none"]
    /\ node = [r \in Run |-> [n \in Node |-> "none"]]
    /\ ins = [r \in Run |-> [n \in Node |-> <<>>]]
    /\ outs = [r \in Run |-> [n \in Node |-> {}]]
    /\ products = <<>> /\ lineage = {} /\ violations = {}
    /\ flow \in [Run -> Flow]
    /\ asOf \in [Run -> AsOf]
    /\ cur = [r \in Run |-> 1]
    /\ made = [r \in Run |-> {}]
    /\ pc = [r \in Run |-> "start"]

Current(r) == Order[flow[r]][cur[r]]
Goto(r, label) == pc' = [pc EXCEPT ![r] = label]

\* Mutant: the input is looked up in the store instead of among what the run
\* produced.
ProducedByAnyRun(r, in) == CHOOSE k \in DOMAIN products : k.type = in[2] /\ k.cell = Cell[in[1]]

\* resolve_inputs: the products an input line was produced as in this run.
Produced(r, in) == CHOOSE k \in outs[r][in[1]] : k.type = in[2]
Resolved(r) ==
    [i \in DOMAIN Inputs[flow[r]][Current(r)] |-> Produced(r, Inputs[flow[r]][Current(r)][i])]

\* epoch_second: whole seconds, and 0 for what is not a date.
EpochSecond(text) == IF text \in Readable THEN Instant[text] \div 1000 ELSE 0

\* Mutant: a product available in the second of decision_as_of is refused.
LookaheadInclusive(r) == \E i \in DOMAIN Resolved(r) :
    LET available == EpochSecond(products[Resolved(r)[i]].at)
        decision == EpochSecond(asOf[r])
    IN  available > 0 /\ decision > 0 /\ available >= decision

\* validate_product_available_for_decision of any input.
Lookahead(r) == \E i \in DOMAIN Resolved(r) :
    LET available == EpochSecond(products[Resolved(r)[i]].at)
        decision == EpochSecond(asOf[r])
    IN  available > 0 /\ decision > 0 /\ available > decision

\* The row, the spec and the edges in one transaction.
Start(r) ==
    /\ pc[r] = "start"
    /\ status' = [status EXCEPT ![r] = "running"]
    /\ Goto(r, "node")
    /\ UNCHANGED <<node, ins, outs, products, lineage, violations, flow, asOf, cur, made>>

\* runtime_input_violations, then persist_violations.
Violate(r) ==
    /\ pc[r] = "node" /\ cur[r] <= Len(Order[flow[r]])
    /\ Lookahead(r)
    /\ violations' = violations \cup {r}
    /\ Goto(r, "reject")
    /\ UNCHANGED <<status, node, ins, outs, products, lineage, flow, asOf, cur, made>>

\* mark_workflow_finished
Reject(r) ==
    /\ pc[r] = "reject"
    /\ status' = [status EXCEPT ![r] = "rejected"]
    /\ Goto(r, "end")
    /\ UNCHANGED <<node, ins, outs, products, lineage, violations, flow, asOf, cur, made>>

\* insert_node_running.  The products read before it are never updated.
BeginNode(r) ==
    /\ pc[r] = "node" /\ cur[r] <= Len(Order[flow[r]])
    /\ ~Lookahead(r)
    /\ node' = [node EXCEPT ![r][Current(r)] = "running"]
    /\ ins' = [ins EXCEPT ![r][Current(r)] = Resolved(r)]
    /\ Goto(r, "run")
    /\ UNCHANGED <<status, outs, products, lineage, violations, flow, asOf, cur, made>>

\* Mutant: a product found in the store gets no lineage.
PersistLineageOfNew(r, keys) ==
    LET parents == ins[r][Current(r)] IN
    /\ products' = [k \in DOMAIN products \cup keys |->
            IF k \in DOMAIN products THEN products[k]
            ELSE [parents |-> parents, at |-> asOf[r]]]
    /\ lineage' = lineage \cup
            {<<k, parents[i]>> : k \in keys \ DOMAIN products, i \in DOMAIN parents}

\* Mutant: INSERT OR REPLACE.
PersistReplacing(r, keys) ==
    LET parents == ins[r][Current(r)] IN
    /\ products' = [k \in DOMAIN products \cup keys |->
            IF k \in keys THEN [parents |-> parents, at |-> asOf[r]] ELSE products[k]]
    /\ lineage' = lineage \cup {<<k, parents[i]>> : k \in keys, i \in DOMAIN parents}

\* persist_product of several products: a key that is taken keeps its row, and
\* the inputs become parents of the row found.
Persist(r, keys) ==
    LET parents == ins[r][Current(r)] IN
    /\ products' = [k \in DOMAIN products \cup keys |->
            IF k \in DOMAIN products THEN products[k]
            ELSE [parents |-> parents, at |-> asOf[r]]]
    /\ lineage' = lineage \cup {<<k, parents[i]>> : k \in keys, i \in DOMAIN parents}

OutputKey(n, content) == [cell |-> Cell[n], type |-> "output", content |-> content]
DomainKey(r, n) == [cell |-> Cell[n], type |-> "domain", content |-> <<r, n>>]

\* Mutant: the events of an operation carry no fresh id.
ContentsRepeating(r, n) == {Same}

\* The stdout of noop.test.v1 is its config; an operation that appends an event
\* prints its fresh id; stage and send without rows and the report may repeat.
Contents(r, n) ==
    IF n \in Noop THEN {Same} ELSE IF n \in Checked THEN {<<r, n>>} ELSE {Same, <<r, n>>}

\* execute_algorithm, and persist_node_outputs with exit code 0.
PersistOutputs(r) ==
    /\ pc[r] = "run"
    /\ \E c \in Contents(r, Current(r)) :
         LET n == Current(r)
             keys == {OutputKey(n, c)} \cup (IF n \in Domain THEN {DomainKey(r, n)} ELSE {})
         IN  Persist(r, keys) /\ made' = [made EXCEPT ![r] = keys]
    /\ Goto(r, "made")
    /\ UNCHANGED <<status, node, ins, outs, violations, flow, asOf, cur>>

\* An exit code other than 0: the output is stored and the node fails.  Outputs
\* of failures that do not repeat are left out, as nothing refers to them.
PersistFailure(r) ==
    /\ pc[r] = "run" /\ Current(r) \notin Noop
    /\ Persist(r, {OutputKey(Current(r), Error)})
    /\ Goto(r, "failed")
    /\ UNCHANGED <<status, node, ins, outs, violations, flow, asOf, cur, made>>

\* A statement of persist_node_outputs fails and its transaction is rolled back.
PersistError(r) ==
    /\ pc[r] = "run"
    /\ Goto(r, "failed")
    /\ UNCHANGED <<tables, flow, asOf, cur, made>>

\* mark_node_finished of a node that succeeded.
MarkSucceeded(r) ==
    /\ pc[r] = "made"
    /\ node' = [node EXCEPT ![r][Current(r)] = "succeeded"]
    /\ outs' = [outs EXCEPT ![r][Current(r)] = made[r]]
    /\ cur' = [cur EXCEPT ![r] = @ + 1]
    /\ Goto(r, "node")
    /\ UNCHANGED <<status, ins, products, lineage, violations, flow, asOf, made>>

\* mark_node_finished of a node that failed.
MarkFailed(r) ==
    /\ pc[r] = "failed"
    /\ node' = [node EXCEPT ![r][Current(r)] = "failed"]
    /\ Goto(r, "fail")
    /\ UNCHANGED <<status, ins, outs, products, lineage, violations, flow, asOf, cur, made>>

\* mark_workflow_status after a failed node.
FailRun(r) ==
    /\ pc[r] = "fail"
    /\ status' = [status EXCEPT ![r] = "failed"]
    /\ Goto(r, "end")
    /\ UNCHANGED <<node, ins, outs, products, lineage, violations, flow, asOf, cur, made>>

\* Mutant: the last node is not waited for.
FinishOneEarly(r) ==
    /\ pc[r] = "node" /\ cur[r] >= Len(Order[flow[r]])
    /\ status' = [status EXCEPT ![r] = "succeeded"]
    /\ Goto(r, "end")
    /\ UNCHANGED <<node, ins, outs, products, lineage, violations, flow, asOf, cur, made>>

\* mark_workflow_status after the last node.
Finish(r) ==
    /\ pc[r] = "node" /\ cur[r] > Len(Order[flow[r]])
    /\ status' = [status EXCEPT ![r] = "succeeded"]
    /\ Goto(r, "end")
    /\ UNCHANGED <<node, ins, outs, products, lineage, violations, flow, asOf, cur, made>>

\* The process dies, or a statement outside a node's error path fails: the rows
\* stay as they are.
Crash(r) ==
    /\ pc[r] # "end"
    /\ Goto(r, "end")
    /\ UNCHANGED <<tables, flow, asOf, cur, made>>

Step(r) ==
    \/ Start(r) \/ Violate(r) \/ Reject(r) \/ BeginNode(r)
    \/ PersistOutputs(r) \/ PersistFailure(r) \/ PersistError(r)
    \/ MarkSucceeded(r) \/ MarkFailed(r) \/ FailRun(r) \/ Finish(r) \/ Crash(r)

Next == \E r \in Run : Step(r)

Spec == Init /\ [][Next]_vars
-----------------------------------------------------------------------------
\* The rows show how far a run came, whatever killed it: the nodes that
\* succeeded are a prefix of the order, at most the next one is running or
\* failed, and the status of the run agrees with them.
RowsFollowOrder == \A r \in Run :
    LET order == Order[flow[r]]
        After(i) == \A j \in i + 1 .. Len(order) : node[r][order[j]] = "none"
    IN  /\ \A i \in 1 .. Len(order) : node[r][order[i]] # "succeeded" => After(i)
        /\ status[r] = "succeeded" => \A i \in 1 .. Len(order) : node[r][order[i]] = "succeeded"
        /\ status[r] = "failed" => \E i \in 1 .. Len(order) : node[r][order[i]] = "failed"
        /\ status[r] = "rejected" =>
             \A i \in 1 .. Len(order) : node[r][order[i]] \in {"none", "succeeded"}

\* A node starts on the products that its own run made for it, of the declared
\* types, and never on those another run left in the store.
InputsOfRun == \A r \in Run, n \in Node :
    node[r][n] # "none" =>
        \A i \in DOMAIN Inputs[flow[r]][n] :
            LET in == Inputs[flow[r]][n][i] IN
            /\ node[r][in[1]] = "succeeded"
            /\ ins[r][n][i] \in outs[r][in[1]] /\ ins[r][n][i].type = in[2]

\* The dates the check can compare: those after the first second of 1970.
Dated == {text \in Readable : Instant[text] >= 1000}

\* No node ever consumes what became available a second or more after the run's
\* decision_as_of, although products are shared between runs of different dates.
\* The check knows no more: a text that is no date switches it off, and what is
\* later within one second passes.
NoLookahead == \A r \in Run, n \in Node : \A i \in DOMAIN ins[r][n] :
    LET available == products[ins[r][n][i]].at IN
    available \in Dated /\ asOf[r] \in Dated => Instant[available] - Instant[asOf[r]] < 1000

\* A run is rejected only for a product with repeated content that a run of a
\* later date stored first, and the violation is on record before the status.
RejectionExplained == \A r \in Run :
    /\ status[r] = "rejected" => r \in violations
    /\ r \in violations => \E n \in Node : \E k \in outs[r][n] :
         /\ k.content = Same
         /\ products[k].at \in Dated /\ asOf[r] \in Dated
         /\ Instant[products[k].at] > Instant[asOf[r]]

\* The path from an output back to the products its node consumed is on record,
\* also when the output was found in the store.
LineageComplete == \A r \in Run, n \in Node :
    node[r][n] = "succeeded" =>
        \A k \in outs[r][n], i \in DOMAIN ins[r][n] : <<k, ins[r][n][i]>> \in lineage

\* replay_workflow (framework/replay.rs) of one node: the recorded parents of
\* the outputs of a deterministic operation against the inputs of the node, as
\* lists; the content of a noop.
Parents(k) == {l[2] : l \in {m \in lineage : m[1] = k}}
ListsOnce(s) == \A i, j \in DOMAIN s : s[i] = s[j] => i = j
Replays(r, n) ==
    /\ node[r][n] = "succeeded"
    /\ n \in Checked =>
         \A k \in outs[r][n] :
            /\ k \in DOMAIN products /\ k.cell = Cell[n] /\ k.content # Error
            /\ ListsOnce(ins[r][n]) /\ Parents(k) = {ins[r][n][i] : i \in DOMAIN ins[r][n]}
    /\ n \in Noop => \E k \in outs[r][n] : k.type = "output" /\ k.content = Same

\* Every run that succeeded replays, for good: no later run adds a parent to an
\* output of a deterministic operation.  (A node that lists an input twice has
\* one lineage row for it and two entries in its list, and does not replay.)
ReplayMatches == \A r \in Run :
    status[r] = "succeeded" =>
        \A i \in 1 .. Len(Order[flow[r]]) :
            LET n == Order[flow[r]][i] IN
            n \in Noop \cup Checked /\ ListsOnce(Inputs[flow[r]][n]) => Replays(r, n)

\* A product's identity includes its parents and available_at: what a node
\* recorded as its output has the identity that its own run computed.
OutputIdentity == \A r \in Run, n \in Node : \A k \in outs[r][n] :
    products[k].parents = ins[r][n] /\ products[k].at = asOf[r]

(* The inductive invariant of the proofs *)

TypeOK ==
    /\ status \in [Run -> {"none", "running", "succeeded", "failed", "rejected"}]
    /\ node \in [Run -> [Node -> {"none", "running", "succeeded", "failed"}]]
    /\ ins \in [Run -> [Node -> Seq(Key)]]
    /\ outs \in [Run -> [Node -> SUBSET Key]]
    /\ DOMAIN products \subseteq Key
    /\ \A k \in DOMAIN products : products[k].parents \in Seq(Key) /\ products[k].at \in AsOf
    /\ lineage \subseteq Key \X Key
    /\ violations \subseteq Run
    /\ flow \in [Run -> Flow]
    /\ asOf \in [Run -> AsOf]
    /\ cur \in [Run -> Nat \ {0}]
    /\ made \in [Run -> SUBSET Key]
    /\ pc \in [Run -> {"start", "node", "reject", "run", "made", "failed", "fail", "end"}]

\* The process and its rows agree on how far the run came.
PositionOf(r) ==
    /\ cur[r] <= Len(Order[flow[r]]) + 1
    /\ \A i \in 1 .. Len(Order[flow[r]]) :
         /\ i < cur[r] => node[r][Order[flow[r]][i]] = "succeeded"
         /\ i > cur[r] => node[r][Order[flow[r]][i]] = "none"
    /\ \A n \in Node :
         node[r][n] # "none" => \E i \in 1 .. Len(Order[flow[r]]) : Order[flow[r]][i] = n
    /\ pc[r] \in {"reject", "run", "made", "failed", "fail"} => cur[r] <= Len(Order[flow[r]])
    /\ pc[r] \in {"start", "node", "reject"} /\ cur[r] <= Len(Order[flow[r]]) =>
         node[r][Current(r)] = "none"
    /\ pc[r] \in {"run", "made", "failed"} => node[r][Current(r)] = "running"
    /\ pc[r] = "fail" => node[r][Current(r)] = "failed"
    /\ cur[r] <= Len(Order[flow[r]]) => node[r][Current(r)] # "succeeded"

Position == \A r \in Run : PositionOf(r)

StatusOf(r) ==
    /\ pc[r] # "end" => status[r] \in {"none", "running"}
    /\ status[r] = "succeeded" => cur[r] > Len(Order[flow[r]])
    /\ status[r] = "failed" => cur[r] <= Len(Order[flow[r]]) /\ node[r][Current(r)] = "failed"
    /\ status[r] = "rejected" => cur[r] <= Len(Order[flow[r]]) /\ node[r][Current(r)] = "none"
    /\ pc[r] = "reject" \/ status[r] = "rejected" => r \in violations

StatusOfPosition == \A r \in Run : StatusOf(r)

\* The products of an execution of n in r that ended with exit code 0.
Outputs(r, n, keys) ==
    /\ keys \subseteq DOMAIN products
    /\ \E c \in Contents(r, n) :
         keys = {OutputKey(n, c)} \cup (IF n \in Domain THEN {DomainKey(r, n)} ELSE {})

RecordedOf(r) ==
    /\ \A n \in Node :
         /\ node[r][n] = "succeeded" => Outputs(r, n, outs[r][n])
         /\ node[r][n] # "succeeded" => outs[r][n] = {}
         /\ node[r][n] = "none" => ins[r][n] = <<>>
         /\ node[r][n] # "none" => DOMAIN ins[r][n] = DOMAIN Inputs[flow[r]][n]
    /\ pc[r] = "made" =>
         /\ Outputs(r, Current(r), made[r])
         /\ \A k \in made[r], i \in DOMAIN ins[r][Current(r)] :
              <<k, ins[r][Current(r)][i]>> \in lineage

Recorded == \A r \in Run : RecordedOf(r)

\* What carries a fresh id was stored, and got its parents, in one run only.
FreshIsOwn == \A r \in Run, n \in Node :
    /\ \A k \in DOMAIN products : k.content = <<r, n>> => products[k].at = asOf[r]
    /\ \A l \in lineage : l[1].content = <<r, n>> =>
         \E i \in DOMAIN ins[r][n] : l[2] = ins[r][n][i]

IInv ==
    /\ TypeOK /\ Position /\ StatusOfPosition /\ Recorded /\ FreshIsOwn
    /\ InputsOfRun /\ NoLookahead /\ LineageComplete /\ RejectionExplained
=============================================================================
