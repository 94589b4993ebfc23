--------------------------- MODULE MCFlowExecutor ---------------------------
(* Flow f: source -> plan, source -> left -> right; flow g runs the two      *)
(* noops the other way round.                                               *)
EXTENDS FlowExecutor

KOrder == [w \in Flow |->
    IF w = "f" THEN <<"source", "left", "right", "plan">> ELSE <<"source", "right", "left">>]
KInputs == [w \in Flow |-> [n \in Node |->
    CASE n = "plan" -> << <<"source", "domain">> >>
      [] n = "left" /\ w = "f" -> << <<"source", "output">> >>
      [] n = "right" /\ w = "f" -> << <<"left", "output">> >>
      [] n = "right" /\ w # "f" -> << <<"source", "output">> >>
      [] n = "left" /\ w # "f" -> << <<"right", "output">> >>
      [] OTHER -> <<>>]]
KNode == {"source", "left", "right", "plan"}
KCell == [n \in Node |-> n]
\* Two dates of one second, a later one, and a text that is no date.
KReadable == {"noon", "noon and a bit", "evening"}
KAsOf == KReadable \cup {"today"}
KInstant == [d \in KReadable |->
    CASE d = "noon" -> 5000 [] d = "noon and a bit" -> 5900 [] d = "evening" -> 7000]
=============================================================================
