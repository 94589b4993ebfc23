----------------------------- MODULE MCFeatures -----------------------------
(* Three annual reports and an amendment.  The second report restates the    *)
(* first year and has the net income of its own under two concepts that share *)
(* a basis; the third recasts twelve months that end 65 days after the second *)
(* year; the amendment, of ten days later, adds a balance of the first year.  *)
(* By the last day the balance of the second report is too old for value,     *)
(* while the third report and the amendment are not.                          *)
EXTENDS FeatureStore, Functions

CONSTANTS none

KAccepted == [a |-> 420, b |-> 790, c |-> 890, x |-> 900]
KPrimary == [a |-> "a_htm", b |-> "b_htm", c |-> "c_htm", x |-> "x_htm"]

Years == [y1 |-> [kind |-> "duration", start |-> 0, end |-> 364, total |-> TRUE],
          y2 |-> [kind |-> "duration", start |-> 365, end |-> 729, total |-> TRUE],
          y3 |-> [kind |-> "duration", start |-> 430, end |-> 794, total |-> TRUE],
          at1 |-> [kind |-> "instant", start |-> 364, end |-> 364, total |-> TRUE],
          at2 |-> [kind |-> "instant", start |-> 729, end |-> 729, total |-> TRUE]]

\* One run of op_value after each filing, and one on the last day.
KRuns == [p \in BOOLEAN |-> IF p THEN 5 ELSE 3]

Item(concept, context, value) ==
  [concept |-> concept, context |-> context, unit |-> "USD", value |-> value]
Report(items) ==
  [xml |-> TRUE, contexts |-> Restrict(Years, {i.context : i \in items}), focus |-> none,
   items |-> items]

KDocument ==
  [cut |-> [Report({}) EXCEPT !.xml = FALSE],
   a_htm |-> Report({Item("Revenues", "y1", 11),
                     Item("CashAndCashEquivalentsAtCarryingValue", "at1", 12)}),
   b_htm |-> Report({Item("Revenues", "y1", 21), Item("Revenues", "y2", 22),
                     Item("CashAndCashEquivalentsAtCarryingValue", "at2", 25),
                     Item("NetIncomeLoss", "y2", 23), Item("ProfitLoss", "y2", 24)}),
   c_htm |-> Report({Item("Revenues", "y2", 31), Item("Revenues", "y3", 32)}),
   x_htm |-> Report({Item("CashAndCashEquivalentsAtCarryingValue", "at1", 41)})]
=============================================================================
