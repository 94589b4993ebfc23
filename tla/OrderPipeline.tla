---------------------------- MODULE OrderPipeline ----------------------------
(***************************************************************************)
(* The authority chain of the sec command (cli/src/main.rs): plan writes   *)
(* order_intents, gate writes risk_decisions, stage writes staged_orders   *)
(* and send writes broker_events, while recon and mode overwrite the state *)
(* the last three consult.                                                 *)
(*                                                                         *)
(* gate, stage and send read with single autocommit statements and write   *)
(* in a transaction they open afterwards; every such statement is a step.  *)
(* No table has a uniqueness constraint besides its minted key.  The rank  *)
(* tx of the transaction that wrote a row stands for the row's key and for *)
(* its time (created_at, staged_at): one process per command writes its    *)
(* rows in that order.                                                     *)
(*                                                                         *)
(* The age of the reconciliation is kept instead of checked_at; it stops   *)
(* at MaxAge + 1.  The event every command appends is left out.            *)
(***************************************************************************)
EXTENDS RiskGate

CONSTANTS
    Proc,        \* processes that run sec
    Kind,        \* [Proc -> {"gate", "stage", "send"}]: the command each one runs
    Run,         \* model runs
    Intent,      \* order intents
    RunOf,       \* [Intent -> Run]
    Order,       \* [Intent -> order intent record of RiskGate]
    Securities,  \* the securities table
    Policy,      \* the limits given on gate's command line
    Mode,        \* the trading modes the operator sets
    Cash,        \* the cash amounts a reconciliation reports
    Limit,       \* --limit of stage and send
    MaxAge,      \* --max-reconciliation-age-s, in ticks
    MaxTx        \* bound: row-minting transactions

ASSUME PipelineAssumption ==
    /\ Kind \in [Proc -> {"gate", "stage", "send"}]
    /\ RunOf \in [Intent -> Run]
    /\ "observe" \in Mode
    /\ Limit \in Nat
    /\ MaxAge \in Nat
    /\ MaxTx \in Nat

VARIABLES
    mode,        \* settings.trading_mode
    broker,      \* the row of broker_state: reconciled, age of checked_at, cash
    planned,     \* order_intents
    decisions,   \* risk_decisions: [tx, intent, approved]
    staged,      \* staged_orders: [tx, decision]
    sent,        \* broker_events: [tx, order, mode]
    tx,          \* rank of the next transaction that mints keys
    pc,          \* the next statement of each process
    rows,        \* what the process read: intents, decisions or staged orders
    verdict,     \* gate: the intents the kernel approved
    modeRead     \* send: the trading mode it read

tables == <<planned, decisions, staged, sent, tx>>
control == <<mode, broker>>
local == <<pc, rows, verdict, modeRead>>
vars == <<tables, control, local>>

Decision == [tx : Nat, intent : Intent, approved : BOOLEAN]
StagedOrder == [tx : Nat, decision : Decision]
BrokerEvent == [tx : Nat, order : StagedOrder, mode : Mode]

TypeOK ==
    /\ mode \in Mode
    /\ broker \in [reconciled : BOOLEAN, age : 0 .. MaxAge + 1, cash : Cash \cup {0}]
    /\ planned \subseteq Intent
    /\ decisions \subseteq Decision
    /\ staged \subseteq StagedOrder
    /\ sent \subseteq BrokerEvent
    /\ tx \in Nat
    /\ pc \in [Proc -> {"idle", "checked", "fresh", "read", "judged"}]
    /\ rows \in [Proc -> SUBSET (Intent \cup Decision \cup StagedOrder)]
    /\ verdict \in [Proc -> SUBSET Intent]
    /\ modeRead \in [Proc -> Mode]

\* An initialised database: schema.sql sets observe; no broker_state row is read
\* as a reconciliation that did not pass.
Init ==
    /\ mode = "observe"
    /\ broker = [reconciled |-> FALSE, age |-> MaxAge + 1, cash |-> 0]
    /\ planned = {} /\ decisions = {} /\ staged = {} /\ sent = {}
    /\ tx = 0
    /\ pc = [p \in Proc |-> "idle"]
    /\ rows = [p \in Proc |-> {}]
    /\ verdict = [p \in Proc |-> {}]
    /\ modeRead = [p \in Proc |-> "observe"]
-----------------------------------------------------------------------------
StageModes == {"stage", "paper", "live_limited", "live"}
SubmitModes == {"paper", "live_limited", "live"}

\* require_fresh_broker_reconciliation
Fresh == broker.reconciled /\ broker.age <= MaxAge

\* make_risk_limits
LimitsNow ==
    [reconciled |-> broker.reconciled,
     now |-> MaxAge + 2,
     checkedAt |-> MaxAge + 2 - broker.age,
     maxAge |-> MaxAge,
     cash |-> IF Policy.cash > 0 THEN Policy.cash ELSE broker.cash,
     minNotional |-> Policy.minNotional,
     maxNotional |-> Policy.maxNotional,
     maxWeight |-> Policy.maxWeight,
     minAdv |-> Policy.minAdv,
     maxParticipation |-> Policy.maxParticipation]

\* run_id of the command line: one run, or all of them when it is absent.
Selections == {{r} : r \in Run} \cup {Run}

\* Mutants: a decision that was rejected counts as none; the side tables are
\* not consulted.
PendingUnlessApproved(R) ==
    {i \in planned : RunOf[i] \in R
        /\ ~ \E d \in decisions : d.intent = i /\ d.approved}
StageableAgain(R) ==
    {d \in decisions : d.approved /\ RunOf[d.intent] \in R}
StageableUnapproved(R) ==
    {d \in decisions : RunOf[d.intent] \in R /\ ~ \E s \in staged : s.decision = d}
SendableAgain == staged

\* load_pending_intents
Pending(R) ==
    {i \in planned : RunOf[i] \in R /\ ~ \E d \in decisions : d.intent = i}

\* The queries of op_stage and op_send, before LIMIT.
Stageable(R) ==
    {d \in decisions :
        d.approved /\ RunOf[d.intent] \in R /\ ~ \E s \in staged : s.decision = d}
Sendable == {s \in staged : ~ \E e \in sent : e.order = s}

\* Mutant: LIMIT without an ORDER BY.
AnyRows(S) ==
    {T \in SUBSET S :
        /\ Cardinality(T) <= Limit
        /\ Cardinality(T) < Limit => T = S}

\* ORDER BY the creation time LIMIT: the oldest Limit rows of S.
Oldest(S) ==
    {T \in SUBSET S :
        /\ Cardinality(T) <= Limit
        /\ Cardinality(T) < Limit => T = S
        /\ \A t \in T, s \in S \ T : t.tx <= s.tx}

Goto(p, where) == pc' = [pc EXCEPT ![p] = where]

\* The process ends; what it read is gone.
Exit(p) ==
    /\ Goto(p, "idle")
    /\ rows' = [rows EXCEPT ![p] = {}]
    /\ verdict' = [verdict EXCEPT ![p] = {}]
    /\ modeRead' = [modeRead EXCEPT ![p] = "observe"]

\* A transaction mints keys only for rows it inserts.
Minted(S) == tx' = IF S = {} THEN tx ELSE tx + 1
-----------------------------------------------------------------------------
(* recon, mode and plan: one transaction each. *)

Recon == \E ok \in BOOLEAN, c \in Cash :
    /\ broker' = [reconciled |-> ok, age |-> 0, cash |-> c]
    /\ UNCHANGED <<tables, local, mode>>

SetMode == \E m \in Mode :
    /\ mode' = m
    /\ UNCHANGED <<tables, local, broker>>

\* A run_id is minted once, so a run is planned once.  No mode is consulted.
Plan(r) ==
    /\ \A i \in planned : RunOf[i] # r
    /\ planned' = planned \cup {i \in Intent : RunOf[i] = r}
    /\ UNCHANGED <<decisions, staged, sent, tx, control, local>>

(* gate *)

GateLoad(p) ==
    /\ pc[p] = "idle" /\ Kind[p] = "gate"
    /\ \E R \in Selections : rows' = [rows EXCEPT ![p] = Pending(R)]
    /\ Goto(p, "read")
    /\ UNCHANGED <<tables, control, verdict, modeRead>>

\* make_risk_limits and the kernel's answer; a batch over the resource limit
\* ends the command.
GateJudge(p) ==
    /\ pc[p] = "read" /\ Kind[p] = "gate"
    /\ LET batch == [i \in rows[p] |-> Order[i]] IN
        IF Accepted(batch)
        THEN /\ verdict' = [verdict EXCEPT ![p] = Approved(batch, Securities, LimitsNow)]
             /\ Goto(p, "judged")
             /\ UNCHANGED <<rows, modeRead>>
        ELSE Exit(p)
    /\ UNCHANGED <<tables, control>>

GateCommit(p) ==
    /\ pc[p] = "judged" /\ Kind[p] = "gate" /\ tx < MaxTx
    /\ decisions' = decisions \cup
        {[tx |-> tx, intent |-> i, approved |-> i \in verdict[p]] : i \in rows[p]}
    /\ Minted(rows[p])
    /\ Exit(p)
    /\ UNCHANGED <<planned, staged, sent, control>>

(* stage *)

\* A mode that does not permit staging ends the command here.
StageCheck(p) ==
    /\ pc[p] = "idle" /\ Kind[p] = "stage"
    /\ mode \in StageModes
    /\ Goto(p, "checked")
    /\ UNCHANGED <<tables, control, rows, verdict, modeRead>>

StageRead(p) ==
    /\ pc[p] = "checked" /\ Kind[p] = "stage"
    /\ \E R \in Selections : \E T \in Oldest(Stageable(R)) : rows' = [rows EXCEPT ![p] = T]
    /\ Goto(p, "read")
    /\ UNCHANGED <<tables, control, verdict, modeRead>>

\* Mutant: the row refers to the intent where the decision belongs.
StageIntents(p) ==
    /\ pc[p] = "read" /\ Kind[p] = "stage" /\ tx < MaxTx
    /\ staged' = staged \cup {[tx |-> tx, decision |-> d.intent] : d \in rows[p]}
    /\ Minted(rows[p])
    /\ Exit(p)
    /\ UNCHANGED <<planned, decisions, sent, control>>

StageCommit(p) ==
    /\ pc[p] = "read" /\ Kind[p] = "stage" /\ tx < MaxTx
    /\ staged' = staged \cup {[tx |-> tx, decision |-> d] : d \in rows[p]}
    /\ Minted(rows[p])
    /\ Exit(p)
    /\ UNCHANGED <<planned, decisions, sent, control>>

(* send *)

SendCheckMode(p) ==
    /\ pc[p] = "idle" /\ Kind[p] = "send"
    /\ mode \in SubmitModes
    /\ modeRead' = [modeRead EXCEPT ![p] = mode]
    /\ Goto(p, "checked")
    /\ UNCHANGED <<tables, control, rows, verdict>>

\* A reconciliation that is missing, failed or old ends the command.
SendCheckFresh(p) ==
    /\ pc[p] = "checked" /\ Kind[p] = "send"
    /\ IF Fresh THEN Goto(p, "fresh") /\ UNCHANGED <<rows, verdict, modeRead>> ELSE Exit(p)
    /\ UNCHANGED <<tables, control>>

\* The staged orders of all runs: send has no --run-id.
SendRead(p) ==
    /\ pc[p] = "fresh" /\ Kind[p] = "send"
    /\ \E T \in Oldest(Sendable) : rows' = [rows EXCEPT ![p] = T]
    /\ Goto(p, "read")
    /\ UNCHANGED <<tables, control, verdict, modeRead>>

SendCommit(p) ==
    /\ pc[p] = "read" /\ Kind[p] = "send" /\ tx < MaxTx
    /\ sent' = sent \cup {[tx |-> tx, order |-> s, mode |-> modeRead[p]] : s \in rows[p]}
    /\ Minted(rows[p])
    /\ Exit(p)
    /\ UNCHANGED <<planned, decisions, staged, control>>

(* The environment *)

\* The process is killed, or its transaction is refused.
Crash(p) ==
    /\ pc[p] # "idle"
    /\ Exit(p)
    /\ UNCHANGED <<tables, control>>

Tick ==
    /\ broker.age <= MaxAge
    /\ broker' = [broker EXCEPT !.age = @ + 1]
    /\ UNCHANGED <<tables, local, mode>>

Next ==
    \/ Recon \/ SetMode \/ Tick
    \/ \E r \in Run : Plan(r)
    \/ \E p \in Proc :
        \/ GateLoad(p) \/ GateJudge(p) \/ GateCommit(p)
        \/ StageCheck(p) \/ StageRead(p) \/ StageCommit(p)
        \/ SendCheckMode(p) \/ SendCheckFresh(p) \/ SendRead(p) \/ SendCommit(p)
        \/ Crash(p)

Spec == Init /\ [][Next]_vars
-----------------------------------------------------------------------------
(* Safety *)

\* docs/DAEMONS.md: "no staged order without an approved risk decision", "no
\* broker order without a staged order"; the rows a command carries from its
\* read to its write are still there when it writes.
Lineage ==
    /\ \A d \in decisions : d.intent \in planned
    /\ \A s \in staged : s.decision \in decisions /\ s.decision.approved
    /\ \A e \in sent : e.order \in staged

\* One process at most runs each command.
OneEach == \A p, q \in Proc : Kind[p] = Kind[q] => p = q

SameIntent(e, f) == e.order.decision.intent = f.order.decision.intent

\* One broker order per intent, over every retry after a crash at any statement,
\* as long as no command runs twice at a time: no table has a constraint that
\* would say so, only the anti-joins of the reads do.
OneOrderPerIntent ==
    OneEach => \A e, f \in sent : SameIntent(e, f) => e = f

\* A rejection is final: no later call of gate takes the intent up again.
RejectedNeverSent ==
    OneEach => \A e \in sent, d \in decisions :
        d.intent = e.order.decision.intent => d.approved

\* Orders go out in the order they were staged, over crashes and stale reads:
\* what LIMIT left behind is never overtaken by what was staged later.  With two
\* stagers staged_at, taken before the transaction has the lock, need not follow
\* the order of the commits.
SentOldestFirst ==
    OneEach => \A e \in sent, s \in staged :
        (\A f \in sent : f.order # s) => e.order.tx <= s.tx

(* Refinement *)

\* What an observer of the tables alone sees: commands that act at once.
Ledger == INSTANCE AuthorityLedger WITH Key <- 0 .. MaxTx

\* Under OneEach, reading before the transaction is harmless: at every write the
\* rows are still undecided, unstaged or unsent.
ImplementsLedger == Ledger!Spec

(* The inductive invariant of the proofs *)

GateReads == \A p \in Proc : Kind[p] = "gate" =>
    /\ rows[p] \subseteq planned
    /\ verdict[p] \subseteq rows[p]
    /\ pc[p] # "judged" => verdict[p] = {}
    /\ OneEach => \A i \in rows[p], d \in decisions : d.intent # i

StageReads == \A p \in Proc : Kind[p] = "stage" =>
    /\ rows[p] \subseteq {d \in decisions : d.approved}
    /\ Cardinality(rows[p]) <= Limit
    /\ OneEach => \A d \in rows[p], s \in staged : s.decision # d

SendReads == \A p \in Proc : Kind[p] = "send" =>
    /\ rows[p] \subseteq staged
    /\ Cardinality(rows[p]) <= Limit
    /\ pc[p] # "idle" => modeRead[p] \in SubmitModes
    /\ OneEach => \A s \in rows[p], e \in sent : e.order # s

\* The anti-joins of the three reads, each kept by its one writer.
OnceEach == OneEach =>
    /\ \A d, e \in decisions : d.intent = e.intent => d = e
    /\ \A s, t \in staged : s.decision = t.decision => s = t
    /\ \A e, f \in sent : e.order = f.order => e = f

\* The next transaction is later than every staged order.
StagedBefore == \A s \in staged : s.tx < tx

\* What a sender read is no later than any order it left unsent.
ReadsOldest ==
    \A p \in Proc : Kind[p] = "send" =>
        \A t \in rows[p], s \in staged \ rows[p] :
            (\A f \in sent : f.order # s) => t.tx <= s.tx

SentInTurn ==
    \A e \in sent, s \in staged : (\A f \in sent : f.order # s) => e.order.tx <= s.tx

\* The order of sending, a layer of its own over the rest of the invariant.
InTurn == StagedBefore /\ ReadsOldest /\ SentInTurn

IInv == TypeOK /\ Lineage /\ GateReads /\ StageReads /\ SendReads /\ OnceEach

(* What the documents say and the code does not do *)

\* docs/GATES.md: "aggregate buy notional cannot exceed cash": gate holds one
\* call's intents against the cash, not those approved and not yet filled.
ApprovedBuysFitCash ==
    AggregateBuy(Order, {d.intent : d \in {a \in decisions : a.approved}})
        <= Max(Cash \cup {Policy.cash})

\* docs/DAEMONS.md: "no duplicate client order id"; two submitters read the same
\* staged order before either writes its event.
NoDuplicateSubmission ==
    \A e, f \in sent : e.order = f.order => e = f
=============================================================================
