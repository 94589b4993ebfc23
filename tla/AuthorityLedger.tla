--------------------------- MODULE AuthorityLedger ---------------------------
(***************************************************************************)
(* What the four append-only tables of the authority chain promise a       *)
(* reader: an intent is decided at most once, only what was approved is    *)
(* staged, once, and only what was staged is submitted, once, in batches   *)
(* of at most Limit.  Every step is atomic.  Mode and reconciliation are   *)
(* not part of the promise.                                                *)
(***************************************************************************)
EXTENDS Integers, FiniteSets

CONSTANTS Intent, Run, RunOf, Limit, Mode, SubmitModes, Key

VARIABLES planned, decisions, staged, sent

vars == <<planned, decisions, staged, sent>>

Init == planned = {} /\ decisions = {} /\ staged = {} /\ sent = {}

Propose == \E r \in Run :
    /\ \A i \in planned : RunOf[i] # r
    /\ planned' = planned \cup {i \in Intent : RunOf[i] = r}
    /\ UNCHANGED <<decisions, staged, sent>>

Decide == \E k \in Key, S \in SUBSET planned : \E A \in SUBSET S :
    /\ \A i \in S, d \in decisions : d.intent # i
    /\ decisions' = decisions \cup {[tx |-> k, intent |-> i, approved |-> i \in A] : i \in S}
    /\ UNCHANGED <<planned, staged, sent>>

Stage == \E k \in Key, S \in SUBSET {d \in decisions : d.approved} :
    /\ Cardinality(S) <= Limit
    /\ \A d \in S, s \in staged : s.decision # d
    /\ staged' = staged \cup {[tx |-> k, decision |-> d] : d \in S}
    /\ UNCHANGED <<planned, decisions, sent>>

Submit == \E k \in Key, m \in SubmitModes, S \in SUBSET staged :
    /\ Cardinality(S) <= Limit
    /\ \A s \in S, e \in sent : e.order # s
    /\ sent' = sent \cup {[tx |-> k, order |-> s, mode |-> m] : s \in S}
    /\ UNCHANGED <<planned, decisions, staged>>

Next == Propose \/ Decide \/ Stage \/ Submit

Spec == Init /\ [][Next]_vars
=============================================================================
