------------------------------ MODULE RiskGate ------------------------------
(***************************************************************************)
(* The hard risk gate of the C++ kernel (engine/gate.cpp), as operators.   *)
(*                                                                         *)
(* A batch is a function from intent ids to order intents                  *)
(*   [security, side, notional, weight],                                   *)
(* securities a function from security ids to [investable, adv], and       *)
(* limits one record.  Amounts are integers, or NonFinite for a NaN or an  *)
(* infinity.  The reason string of a decision is left out: only approved   *)
(* or rejected is used by the rest of the program.  ADV participation is a *)
(* percentage.                                                             *)
(***************************************************************************)
EXTENDS Integers, FiniteSets, FiniteSetsExt

CONSTANTS
    NonFinite,     \* a NaN or an infinity
    KMaxIntents    \* kernel::kMaxIntents, the resource limit of a batch

Finite(x) == x # NonFinite

IsBuy(intent) == intent.side = "buy"

CountsTowardsCash(intent) ==
    IsBuy(intent) /\ Finite(intent.notional) /\ intent.notional > 0

\* The buys of the whole batch, those the gate will reject for another reason
\* included.
AggregateBuy(batch, ids) ==
    MapThenSumSet(LAMBDA i : batch[i].notional, {i \in ids : CountsTowardsCash(batch[i])})

ReconciliationFresh(limits) ==
    /\ limits.reconciled
    /\ limits.now > 0
    /\ limits.checkedAt > 0
    /\ limits.maxAge > 0
    /\ limits.now - limits.checkedAt <= limits.maxAge

\* The checks of one intent against its security and the limits of one order.
WithinLimits(intent, security, limits) ==
    /\ security.investable
    /\ intent.side \in {"buy", "sell"}
    /\ Finite(intent.notional)
    /\ intent.notional >= limits.minNotional
    /\ limits.maxNotional > 0 => intent.notional <= limits.maxNotional
    /\ Finite(intent.weight)
    /\ (IF intent.weight < 0 THEN -intent.weight ELSE intent.weight) <= limits.maxWeight
    /\ Finite(security.adv)
    /\ security.adv >= limits.minAdv
    /\ limits.maxParticipation > 0 =>
        100 * intent.notional <= security.adv * limits.maxParticipation

\* Mutant: the order's own notional is held against the cash, not the batch's.
ApprovedOneByOne(batch, securities, limits) ==
    {i \in DOMAIN batch :
        /\ ReconciliationFresh(limits)
        /\ batch[i].security \in DOMAIN securities
        /\ WithinLimits(batch[i], securities[batch[i].security], limits)
        /\ IsBuy(batch[i]) => batch[i].notional <= limits.cash}

\* Mutant: the sells of the batch pay for its buys.
ApprovedNetOfSells(batch, securities, limits) ==
    {i \in DOMAIN batch :
        /\ ReconciliationFresh(limits)
        /\ batch[i].security \in DOMAIN securities
        /\ WithinLimits(batch[i], securities[batch[i].security], limits)
        /\ IsBuy(batch[i]) =>
            AggregateBuy(batch, DOMAIN batch) <= limits.cash
                + MapThenSumSet(LAMBDA j : batch[j].notional,
                                {j \in DOMAIN batch : batch[j].side = "sell"})}

\* The intents of a batch that fa_check_risk_limits_v1 approves.
Approved(batch, securities, limits) ==
    {i \in DOMAIN batch :
        /\ ReconciliationFresh(limits)
        /\ batch[i].security \in DOMAIN securities
        /\ WithinLimits(batch[i], securities[batch[i].security], limits)
        /\ IsBuy(batch[i]) => AggregateBuy(batch, DOMAIN batch) <= limits.cash}

\* A batch above the resource limit gets an error and no decision at all.
Accepted(batch) == Cardinality(DOMAIN batch) <= KMaxIntents
=============================================================================
