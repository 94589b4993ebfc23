# Verification of sec-fa

TLA+ models of the parts of sec-fa that decide whether work is lost, whether an
order is sent twice, whether a decision can be reconstructed and whether it saw the
future: the daemon work queue, the authority chain from order intent to broker event,
the risk gate, the notification tail, the validation and execution of workflows over
the product store, and the way of a filing from the SEC to a feature row. Every
module is translated from the source; `PROJECT.json` names the lines behind each
definition.

## The system

`sec` is a Rust command-line program over one SQLite database, with a C++ kernel
behind a C ABI and a Go binary that runs daemons.

| Component | State it keeps | Operations | Interacts with | What makes it hard | What makes it correct |
|---|---|---|---|---|---|
| Daemon queue (`daemon.go`) | `work_items`: status, attempts, lease, available_at | enqueue, claim, succeed, fail, defer; one role per process: watchd, pulld, xbrld, pland, gated, staged, submitd | starts `sec` as a child process between claim and settlement; enqueues the next stage | leases overrun while the command runs, which may hang; crashes between command and settlement; watchd re-enqueues rows that are leased; no settlement compares its owner | no row is lost while one daemon of its type goes on, every effect and every repetition is accounted for, a settled row holds no lease, the chain of stages does not break |
| Notification tail (`daemon.go`) | `daemon_cursors`, `events` | read cursor, read a batch, send, store cursor | `sec ping` | two processes over one overwritten cursor; failures append events to the same ledger | every event is sent, none is skipped |
| Authority chain (`main.rs`, `fa_core.rs`) | `order_intents`, `risk_decisions`, `staged_orders`, `broker_events`, `broker_state`, `settings.trading_mode` | `recon`, `mode`, `plan`, `gate`, `stage`, `send` | the risk kernel; the daemons start the commands | reads in autocommit, writes in a transaction opened later; no uniqueness constraint except minted keys | one broker order per intent, nothing unapproved is sent, and what was staged first goes first |
| Risk gate (`engine/gate.cpp`) | none | `fa_check_risk_limits_v1` | called by `gate` | NaN, zero limits, one cash sum over the whole batch | approved buys fit in the cash; approvals do not depend on unrelated intents |
| Workflow validation (`framework/graph.rs`, `invariants.rs`, `registry.rs`) | none; reads the seeded registry | build the edges, order them, test every rule | the executor runs what it accepts, in its order | doubled edges, self loops, repeated ids and roles; the rules are about declarations of single nodes | the order respects the edges; cycles are recognised exactly; what is accepted can be run, and has the whole authority chain before a broker event |
| Workflow executor and product store (`framework/executor.rs`, `storage.rs`, `replay.rs`) | `workflow_runs`, `workflow_nodes`, `data_products`, `data_product_lineage`, `graph_invariant_violations` | run, persist, check look-ahead, replay | calls the operations of `main.rs` in process | kills between transactions; products shared between runs of different dates | lineage is complete, no look-ahead by a second or more between readable dates, replay matches |
| Ingestion (`main.rs`, started by `daemon.go` or a batch) | `filings`, the raw store on disk, `events` | `watch`, `pull`, `xbrl`, `ingest-universe` | SEC over HTTP; `pull` writes the files that `xbrl` reads | files are truncated and written outside the transaction that records them; three commands select for themselves, beside the daemons | what a batch skips it reports; the raw store is what `raw_sha256` says; only whole packages are parsed |
| XBRL parser (`filings/src/lib.rs`) | `source_documents`, `reporting_periods`, `xbrl_contexts`, `xbrl_facts`, `canonical_observations` | parse a package in one transaction | `xbrl`, fixture nodes of a workflow | the same facts in two files; identities that collide; keys that `OR IGNORE` does not silence | no figure of a filing pulled once is counted twice, a refused parse leaves nothing |
| Statements and features (`engine/statements.cpp`, `op_value`, `op_feat`) | `statement_snapshots`, `feature_snapshots`, `feature_rows` | build annual statements of all facts, store them, pick those known at a time | reads what every parse left | filings in any order, restatements, statements that mix filings | no look-ahead; a comparable year is found if there is one |
| Growth and value kernels (`engine/*.cpp`) | none | forecasts and values of one statement | `plan`, `value` | floating point | not modelled |
| Server, reports, bindings | none of their own | read-only pages and reports, marshalling | | | not modelled |

## Modules

| Module | Models | Proofs | Model-checked through |
|---|---|---|---|
| `WorkQueue` | `work_items` and the workers of `daemon.go` | `WorkQueueProofs` | `MCWorkQueue` |
| `Notifier` | `notifyd` | `NotifierProofs` | `MCNotifier` |
| `RiskGate` | the operators of `gate.cpp` | | `GateCheck`, `OrderPipeline` |
| `GateCheck` | one call of the gate on any batch | `GateCheckProofs` | `MCGateCheck` |
| `OrderPipeline` | `recon` to `send`, statement by statement; extends `RiskGate` | `OrderPipelineProofs` | `MCOrderPipeline` |
| `AuthorityLedger` | what the four authority tables promise: the abstract specification of `OrderPipeline` | | `MCOrderPipeline` |
| `FlowGraph` | `topological_order` | `FlowValidationProofs` | `MCFlowValidation` |
| `FlowValidation` | `validate_workflow` with its rules and reference data; extends `FlowGraph` | `FlowValidationProofs` | `MCFlowValidation` |
| `FlowExecutor` | `run_validated_workflow`, `persist_product`, `replay_workflow` | `FlowExecutorProofs` | `MCFlowExecutor` |
| `FactStore` | what a parse makes of the files of a filing, and its tables | | `Ingestion`, `FeatureStore` |
| `Ingestion` | `watch`, `pull`, `xbrl`, a batch and two daemons; extends `FactStore` | `IngestionProofs` | `MCIngestion` |
| `FeatureStore` | `value`'s statements and `feat`; extends `FactStore` | `FeatureStoreProofs` | `MCFeatures` |

A comment that begins with *Mutant* marks a definition that is not part of the
model: a plausible bug that shows a property can fail.

### WorkQueue

One variable per column of `work_items`; timestamps that a guard compares with the
clock are kept relative to now, and only `Tick` lets time pass. An action is one
transaction: `Claim` (`claim`), `Succeed`, `Fail` and `Defer` (the three
settlements, `Succeed` with the enqueueing of the next stage), `WatchRead` and
`WatchEnqueue` (`enqueuePullAccessions`, which reads and enqueues in two
statements). `RunCommand` is the `sec` child process: it commits its effect, or
`Fail` says it did not. `Fail` may also follow the effect (the child was killed
after its commit, or the second of two commands failed). `Hang` is a child that does not
return: `http_get` (`main.rs:3681`) sets no timeout and `runSec` (`daemon.go:418`) gives
the child a context that only a signal to the daemon ends. A transaction that SQLite
refuses with `SQLITE_BUSY` leaves the row leased and the daemon forgets it, which
is what `Crash` does. `Follow` says which rows a settlement may enqueue; rows whose
subject is a run id minted by the command are new each time (`Fresh`).

### OrderPipeline and AuthorityLedger

`gate`, `stage` and `send` are split at every statement: the checks of mode and
reconciliation, the query, and the transaction that writes. A process is one
command that may be killed at any of them. A row is named by the rank of the
transaction that minted its key. `AuthorityLedger` has the same four tables and
four atomic steps; it promises that an intent is decided, staged and submitted once.
`Ledger` in `OrderPipeline` is its instance on the tables; the operator's controls
and the processes' local state are hidden.

### FlowGraph

The queue and the order of the code are one sequence, `found`: the popped part,
then the rest. `Pop`, `Relax` (one child) and `Return` are the steps of the loop.
Edges are a list, so two inputs from one node are two edges.

### FlowValidation

A parsed `.flow` file is a record; `ValidateInit` builds the edges as `collect_edges`
does, from the inputs whose (node, role) is declared, and `FlowGraph`'s steps order
them. `Report` tests every rule. `Registry`, `ProductType` and `AllowedModes` are the
data that every start seeds from `docs/contracts` and `registry.rs`. A place
<<node, line>> stands for the order in which the loops read the file, which decides
the last of two declarations of one name. The rules look only at what a node declares:
a node of `cmd.send.mock.v1` that declares no output passes without its parents, and
`docs/PRODUCT_GRAPH.md:107` is meant of declared products. The `resource` lines of a
`.flow` and the `forbidden_resources` of an algorithm are read and never tested. Left
out are tests of a single value: `spec_version`, the workflow's name, empty ids.

### FlowExecutor

A run is a process whose transactions are actions: the row of the run, the check of
the inputs, the row of a node, the node's outputs, the settlement of the node, the
settlement of the run. `Crash` ends the process between any two. A product is
named by its UNIQUE key; `products` maps a key to what else its identity holds, and
`Persist` is `persist_product`: a key that is taken keeps its row and gets the new
parents. A product's content is fresh where the operation prints a fresh event id or
the payload names the workflow run, and may repeat otherwise (`Contents`).
`decision_as_of` is a text, which nothing validates: `EpochSecond` gives whole seconds,
or 0 for what is no date, and `Lookahead` refuses only what is later in seconds and where
neither is 0.
`Replays` is what `replay_workflow` checks of one node.

Simplifications: the domain outputs of a node are one product, and so are several
`command_output.v1` roles; two runs never share a `workflow_run_id` (it contains the
millisecond of the start); the runtime check of hazard classes is a static property
of a workflow.

### FactStore

A fact, a context and a document are their identities, as the code's keys are hashes
of them. `Document` gives what the XML parser finds in a content; `StoreParse` is the
transaction of `parse_xbrl_package` over the files read: it ignores a document whose
bytes are known and a context whose id the filing has, and fails as a whole where a
foreign key or a check refuses (`KeysHold`). `Period`, `Comparable` and `Relabel` give
a context its fiscal label, from its dates and from the document's. `Candidates` has
six of the thirty concepts, one of each kind that a property tells apart. The row of
`index.json` itself is left out; a year has 365 days.

### Ingestion

`Get` and `Write` are the two halves of `fs::write`, the truncation and the bytes, so a
reader may find an empty file. `Update` takes the write lock of the deferred
transaction, which the downloads of the pull's other filings then hold; `Commit` shows
the rows. `ToPull` and `ToParse` are the selections of `cmd_pull` and
`fetched_filing_metadata_list` with every order their ties allow. `PullFails`,
`WatchFails` and `ParseFails` are the errors and kills; `Skip` is what
`--continue-on-error` makes of one. `Publish` and `Republish` are the SEC: a filing
appears, a package gets other files. The commands are started by the daemons and by
`cmd_ingest_universe`; like the verbs of `WorkQueue` they are not reachable from the
`.flow`-only command line of this commit, and tests call them.
`NoPull` is a process without a pull. The files a parse has read are a table by their
place in the index, which may name a file twice. `last` and `shown` are history for the
properties.

### FeatureStore

`Parse` stores one annual report; `RunValue` builds a statement for each end of an
annual revenue fact, of the newest facts of each metric, for each way a tie in
`load_facts` may fall, and keeps those already there. `FeatRead` and `FeatStore` are the
two reads of `op_feat`, which no transaction joins. `Prompt` is an environment, not
code: with it, filings are parsed and valued on the day they are accepted; without it
an old filing may come at any time and both properties of the past still hold.
One issuer, whose statements are annual: the sums of four quarters and the
year-to-date bridges have nothing to add up.

## Runs

| Run | Question | Instance | Answer |
|---|---|---|---|
| `MCWorkQueue` | Are leases, attempts and settlements consistent, does the chain hold, are repetitions bounded, is every row settled unless every daemon of its type hangs? | one filing through pull, parse, model and a risk row minted by the model command; two pulld, an xbrld and a pland; two faults, hangs among them | holds |
| `MCWorkQueueExclusive` | Is a leased row left to its owner, as docs/DAEMONS.md:37 says? | the same | no |
| `MCNotifier` | Is every event sent, none skipped? | two processes, batches of two, four events | holds |
| `MCGateCheck` | Do approvals fit in the cash and stay independent? | every batch of up to three of eight intents under every limit | holds |
| `MCOrderPipeline` | Is the split into statements invisible in the tables, one order per intent, and does what LIMIT left behind go first? | two runs of one buy, one process per command, LIMIT 1 | holds |
| `MCPipelineCash` | Do all approved buys fit in the cash, as docs/GATES.md:29 says? | two runs, gated one after the other | no |
| `MCPipelineDuplicate` | Is no order sent twice, as docs/DAEMONS.md:126 says? | two `send` processes | no |
| `MCFlowValidation` | Does the order respect the edges, are cycles recognised exactly, and does what is accepted run, keep the chain, the classes and the mode? | every workflow within two edits of a paper and of a shadow workflow of six and five nodes | holds |
| `MCFlowExecutor` | Do rows follow the order, inputs come from the run, are they no later by a second, is lineage complete, does replay match? | two runs of two workflows that share cells; dates in one second, a later one and a text that is none | holds |
| `MCFlowIdentity` | Does a product's identity include parents and available_at, as docs/PRODUCT_GRAPH.md:21 says? | the same | no |
| `MCIngestion` | Does a batch report what it skips, is the raw store what its hash says, is a parse of a filing pulled once whole and counted once? | two annual and one quarterly filing, one served again with its extracted instance; a batch, a pulld, an xbrld; one fault | holds |
| `MCFeatures` | Does a feature row know only its past, find its comparable year, answer alike later? | four filings with a restatement, an amendment and a recast year, a balance that grows too old; two as-of times | holds |

### What the violations show

- *A leased row can be claimed.* `enqueueTx` sets a leased row back to queued. The
  properties that hold show what this costs: effects may repeat, but never more
  often than the row was claimed (`RunsAreCountedHolds`), the second claim does not
  multiply the claims of the rows after it (`RepeatsArePaid`), and nothing is lost.
- *Cash is checked per call.* `gate` sums the pending intents of one call and forgets
  the buys approved earlier and not filled.
- *Two senders, two orders.* `send` selects before its transaction, and
  `broker_events` has no constraint on the staged order. With one process per
  command the same code sends once (`OneOrderPerIntent`, `ImplementsLedger`).
- *A shared product keeps its first identity.* When a content repeats, the row of the
  first run is taken with its date and gets more parents. `NoLookahead` still holds,
  and `RejectionExplained` says what the price is: a run of an earlier date is
  rejected because a run of a later date stored the same content first.

Other differences between documents and code that were met and have no run: a failed
parse, model, risk, stage or submit row is never taken up again, as `claim` selects
queued and leased rows and only watchd re-enqueues, for `pull_accession` only
(docs/DAEMONS.md:34 draws failed -> leased); a second pull of a filing rewrites its
files in the raw store, which is to be immutable (docs/OPS.md:58), and
`FetchedIsOnDisk` says what is left; a restatement that is parsed before the next
`value` hides the statement of the first filing, so that `feat` for a time between
the two has none (`KnownIfPrompt` says when it has); runtime inputs "must not be available
after decision_as_of" (docs/PRODUCT_GRAPH.md:105), but a `decision_as_of` that is no date
switches the check off, and what is later within the same second passes
(`invariants.rs:171`, `NoLookahead` says what is left); a node that lists one input twice
has one lineage row for it and does not replay; two workflows that chain the same
cells in opposite orders give lineage a cycle, which nothing relies on; a `checked_at`
in the future counts as fresh (`gate.cpp:71`); a dead
row is to need an operator (docs/DAEMONS.md:47), but nothing marks it; `max_order_notional`
of 0 switches the check off (docs/REQS.md:15); `halted` does not stop a write whose
mode was read before (docs/GATES.md:54); the reconciliation is rechecked before the
rows are read, not at the write (docs/GATES.md:28); `plan` creates intents in
`observe` (docs/GATES.md:48); the daemons start verbs such as `sec pull --db`, while
the command line accepts `.flow` files only (the tests at the end of `main.rs`) - the
outcome of a command is a choice in `WorkQueue`, so its properties do not depend on it.

### Bounds

- `WorkQueue`: `MaxFaults` bounds crashes, hangs, overruns and deferrals together,
  `MaxClaims` the claims of one row. Two faults are enough for the cases that matter: a
  lease overrun by one worker while the next one crashes, a deferral followed by a death,
  both pullers hanging, and one puller hanging while the other, or a later stage, does
  not;
  `MaxClaims` 8 is never reached, as two faults and two attempts leave no row more than
  six claims. `Lease` and `DeferDelay` of one tick make both sides of each comparison
  reachable. The safety theorems hold for every value of these constants.
- `OrderPipeline`: `MaxTx` is six, what a gate, a stage and a send of each of two intents
  need; a call that finds nothing mints nothing. `MaxAge` 1 gives fresh,
  ageing and stale. Cash 10 against two buys of 6: each fits, both do not. In
  `MCOrderPipeline` `KMaxIntents` is 1, so that the gate refuses a batch of both.
- `GateCheck`: a batch over `KMaxIntents` occurs, as do NaN, an unknown security, a
  missing side, an adverse weight, and a reconciliation that is missing, old or from
  the future.
- `Notifier`: four events and batches of two, so that one process stops inside a batch
  while the other overtakes it.
- `FlowValidation`: the two workflows are a paper workflow with every step of the
  authority chain and a shadow workflow without. An edit changes one node (its algorithm
  or layer, an input or an output more or less, the type of an output) or what is
  around the nodes (the mode, a permission, a layer doubled or without its parent, a
  node doubled); the two edits are in different places. Two are what it takes to break
  a rule at one node and hide it at another, and to close a cycle.
- `FlowExecutor`: two runs, as the store only relates a run to the one that stored a
  product first; four texts, two dates in one second, one of a later second and one that
  is no date; the two workflows chain the same cells in opposite
  orders, which is what makes a shared product collect foreign parents.

- `Ingestion`: three filings and limits of one make every selection choose; the two
  annual reports share a date, so that the orders of pull and parse may differ.
  `MaxDeliveries`, `MaxFaults` and `MaxBatches` of one give one item of pulld and one
  of xbrld beside the batch and one error or kill anywhere; what a repeated delivery
  does, a second pull or parse of the same filing, the batch does beside them.
- `FeatureStore`: the six days are the acceptances of the filings, a day soon after all of
  them and one long after, where with `MaxAge` 550 the balance of the second filing is too
  old and those of the third filing and the amendment are not: asked for the ninth
  hundredth day on either of the last two days, `feat` rests on different statements of
  one year. `MaxRuns` gives five runs of `value` where filings are valued as they come,
  one after each filing and one more when figures have grown too old, and three
  otherwise; two snapshots, as `SameAnswer` compares two; ends 65 days apart lie on both
  sides of what is comparable.

`CHECK_DEADLOCK FALSE` is set where the system stops: one call of the gate, one
ordering, a finite set of runs, filings and days.

### Fairness

- `WorkQueue!Fairness`: the loop of `daemonMain` polls for ever, so `Claim` is weakly fair;
  what has returned is settled by the code after it; time passes. That a command returns
  is not assumed, as no timeout makes it: a command goes on or hangs (`Hang`), and
  nothing ends one that hangs. Faults, hangs among them, are bounded in the model;
  nothing is assumed of watchd. Under it `WorkSettles` says that the rows of crashed and
  hung workers are taken up again by another daemon of the type, and that a row may wait
  for ever only if all of them hang.
- `Notifier!Fairness`: every process polls; strong fairness of the statements of a cycle says
  that not every cycle is cut short at the same place, and of `Notify` that the channel
  does not fail for ever. It is an assumption about the channel that a `sec ping` ends,
  as its POST (`main.rs:2906`) has no timeout either.
- `OrderPipeline` has safety properties only: submitd runs `send` once for each
  `submit_orders` row it claims, a refused `send` makes the row failed for good, and what
  `LIMIT` leaves behind waits for the row of some later run. That it then goes first is
  `SentOldestFirst`.
- The other modules have safety properties only: the code does not resume a workflow, a
  pull or a batch that was killed, so nothing must happen eventually.

## Proofs

TLAPS checks these for every value of the constants, under the assumptions that each
module names. Every property of the passing runs but the two liveness properties is a
theorem. The strengthened invariants, each called `IInv` or the conjunction of the named
parts, hold on the runs too: they can be added to the same configurations as an
`INVARIANT`. (`Typed` of `IngestionProofs` speaks of all sequences; TLC was given those
of up to three elements.)

- **WorkQueueProofs** (`QueueAssumption`). `IInv` adds to the properties what makes them
  inductive: a worker's note of a row is behind the row's count (`FenceBehind`), and
  two workers on one row read different counts (`FencesDistinct`). The second is why
  stale settlements are harmless: `SettledOnce` and `DeadIsEarned` rest on it.
  `RunsAreCounted` is not inductive; `ClaimsCoverRuns` also counts the claims whose
  command is still to commit. `RepeatsArePaid` needs the same of two rows
  (`EffectsPayClaims`): an open row is good for one more claim, and a worker that has
  returned for one more success of the cause; an effect or a fault pays for each.
- **OrderPipelineProofs** (`PipelineAssumption`). `PipelineInvariant` says that what a
  process read is still undecided, unstaged or unsent when it writes, if no second
  process runs the same command (`GateReads`, `StageReads`, `SendReads`), and that the
  anti-joins hold on the tables (`OnceEach`). From it `LedgerImplemented`: under
  `OneEach` each step maps to a step of `AuthorityLedger` or to a stutter.
  `SentOldestFirstHolds` is a layer over it (`InTurn`): a sender's rows are no later than
  any order it left, and what is staged meanwhile is later than all of them.
- **NotifierProofs** (`NotifierAssumption`). Before the event a process handles,
  everything was sent (`ProcessBehindSent`); so two processes may overwrite the cursor
  with older values and nothing is skipped, for any number of them.
- **FlowExecutorProofs** (`FlowExecutorAssumption`: what ordering and contracts leave of a
  workflow). `Position` and `StatusOfPosition` tie rows to the place where the process
  stands; `Recorded` says what a node's outputs are; `FreshIsOwn`, that what carries a
  fresh id was stored and got its parents in one run only, is the step from
  one run to many: with it a product of a deterministic operation keeps its parents
  (`ReplayMatchesHolds`) and only repeated contents cause rejections
  (`RejectionExplainedHolds`). `NoLookaheadHolds` says as much as the check does
  (`Seconds`): no input is a second or more later than a `decision_as_of`, where both are
  dates after the first second of 1970.
- **FlowValidationProofs** (`FlowValidationAssumption`, `FlowGraphAssumption`). First the
  ordering: the indegree counts the edges whose source was not popped yet
  (`IndegreeCountsOpen`), a node is found exactly when it is 0, and no member of a
  circular set is ever found. So the comparison of two lengths decides acyclicity
  exactly: `VerdictIsExactHolds`, where a cycle is a set of nodes each of which has an
  input from the set. Then `ValidationOrders`: what validation does to the variables of
  `FlowGraph` is that module's specification, so its theorems apply, for workflows of
  any size. Each property joins a rule at one node to the order: an input resolves to
  the type one node declares (names are distinct), that node comes earlier (the order
  respects the edges and is complete), and its own rules hold in turn.
  `ClassAFromClassAHolds` goes through the registry: the contracts of class A name only
  products that class A makes.
- **FeatureStoreProofs** (`FactStoreAssumption`, `FeatureStoreAssumption`). The invariant says
  that a statement's figures were filed by the time it carries (`StatementsFiled`) and
  that feature rows name statements that were known (`RowsKnown`); it needs
  `FactsFiled`, that observations have dates at all, and that facts are only added.
  `ComparableIfAnyHolds` is about the query alone: among what is 75 days around a year
  one comes first, and that is within 290 to 440 days. `KnownIfPromptHolds` and
  `SameAnswerHolds` need filings to be parsed and valued as they come: then every annual
  revenue has a statement made of what was filed by then, and a later run of `value`
  adds statements, never one that a past time would have seen and did not. What
  `SameAnswer` promises is the year. That the same filings are behind it is false: a
  cash figure that grows too old for `MaxAge` gives way to one of an older date that was
  filed later, and the statement made then is available later. The proof showed that;
  the property says what is left, that a later answer rests on no earlier filings.
- **GateCheckProofs** (`GateCheckAssumption`: amounts are integers or NonFinite, cash is an
  integer). `AggregateBuy` is a fold of the library, over a function the fold defines by
  recursion. `SumExists` and `SumsAgree` show that there is one such function and that
  parts of a set have the same sum in every set; `SumTakes`, that the order does not
  matter; `SumGrows`, that a part sums to no more than the whole. In place of an
  induction, each takes a smallest set that would refute it (`SmallestPart`). From these
  both properties of the gate follow in a few steps.
- **IngestionProofs** (`IngestionAssumption`, `FactStoreAssumption`, and `NoneIsNoValue`: NULL
  is no content). `IInv` has a part for each thing a step relies on:
  `Packaged`, what a pull has hashed and the names it has still to fetch are together
  the package its index names, so a row is set to a whole package;
  `OneWriter`, the write lock, without which two commits could undo each other;
  `Undisturbed`, a pull that overlaps no other finds on disk what it hashed, among its
  files, after its UPDATE and after its commit (`FetchedIsOnDiskHolds`);
  `FirstPull`, while a filing was pulled once its row comes from that pull;
  `ParsesFetched`, a parse started after the commit, so of a filing pulled once it reads
  what the row was hashed from, item by item (`ParsedIsCompleteHolds`), and all its
  facts are of one document, as the index names either the extracted instance or not
  (`NoDoubleCountHolds`);
  `Staged`, where the batch is; and `BatchCovers`, that what its watches showed is
  covered by what has come as far as the batch (`Through`): listed, selected by the
  pull, fetched, selected for the parse, parsed. Its core is `NewestCovers`: selecting
  the newest of a set, ties in any order, keeps what the set covered, so the two
  selections compose although each query sees rows that others added
  (`BatchCoversFeedHolds`).

Model-checked only: the liveness properties (`WorkSettles` and
`EveryEventSent`), as fairness is outside the prover, and the four properties the code
violates.

## Not modelled, and plan

1. *Composition of queue and authority chain*: a model row that runs again mints a second
   run id, and `send` takes no run id. `WorkQueue` and `OrderPipeline` composed, with the
   daemons' guards on mode.
2. *Quarters in the statement builder*: the sum of four quarters and the year-to-date
   bridge, whose choice of rows may depend on their order; `Relabel` already gives the
   labels they would use.
3. *Validation implies the executor's assumption* as a theorem across the two modules,
   whose workflows are represented differently.

The universe commands, the import of securities and the market data downloads stay
out: each is one read followed by one transaction of upserts, with no second actor on
its rows. Floating-point valuation, HTTP, HTML and JSON output, the C marshalling and
the parsers of text, XML and JSON stay out as well: they hold no state that a property
here is about.
