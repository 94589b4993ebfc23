----------------------------- MODULE GateCheck -----------------------------
(***************************************************************************)
(* One call of the risk gate on any batch of bounded size, and what its    *)
(* answer promises.  The call is a step, so that the properties speak of   *)
(* the decisions it returns.                                               *)
(***************************************************************************)
EXTENDS RiskGate

CONSTANTS
    Id,            \* intent ids of the batch
    Security,      \* known security ids
    Intents,       \* the order intents a batch is made of
    Securities,    \* the securities tables: a set of functions from Security
    Limits         \* the risk limits a call may come with

ASSUME GateCheckAssumption ==
    /\ IsFiniteSet(Id) /\ NonFinite \notin Int
    /\ \A o \in Intents : o.notional \in Int \cup {NonFinite}
    /\ \A l \in Limits : l.cash \in Int

VARIABLES batch, securities, limits, approved, called

vars == <<batch, securities, limits, approved, called>>

Init ==
    /\ batch \in UNION {[S -> Intents] : S \in SUBSET Id}
    /\ securities \in Securities
    /\ limits \in Limits
    /\ approved = {}
    /\ called = FALSE

\* core.check_risk: the decisions, or an error that leaves none.
Check ==
    /\ ~called
    /\ called' = TRUE
    /\ approved' = IF Accepted(batch) THEN Approved(batch, securities, limits) ELSE {}
    /\ UNCHANGED <<batch, securities, limits>>

Spec == Init /\ [][Check]_vars

-----------------------------------------------------------------------------
Sub(f, S) == [i \in S |-> f[i]]

\* FA-SAF-006: the buys one call approves fit in the cash together, although the
\* sum they are held against also counts buys the call rejects.
ApprovedWithinCash ==
    (\E i \in approved : IsBuy(batch[i])) => AggregateBuy(batch, approved) <= limits.cash

\* Leaving intents out of a batch never costs another intent its approval: what
\* a batch approved, any part of it gated alone would approve again.
SmallerBatchKeepsApprovals ==
    called /\ Accepted(batch) =>
        \A S \in SUBSET DOMAIN batch :
            approved \cap S \subseteq Approved(Sub(batch, S), securities, limits)
=============================================================================
