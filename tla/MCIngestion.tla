---------------------------- MODULE MCIngestion ----------------------------
(* Two annual reports and a quarterly one of an issuer, beside a batch and    *)
(* the two daemons.  The older annual report is served with its extracted     *)
(* instance only later; the quarterly report also names an exhibit.           *)
EXTENDS Ingestion, TLC

CONSTANTS cut, none

KFeed == <<"k1", "k2", "q1">>
KForm == [k1 |-> "10-K", k2 |-> "10-K", q1 |-> "10-Q"]
KDate == [k1 |-> 420, k2 |-> 420, q1 |-> 480]
KAccepted == [k1 |-> 420, k2 |-> 421, q1 |-> 480]
KGroups == <<[form |-> "10-K", limit |-> 1], [form |-> "10-Q", limit |-> 1]>>

KPackages ==
  [k1 |-> <<[index |-> <<"primary">>, primary |-> "k1_htm"]>>,
   k2 |-> <<[index |-> <<"primary">>, primary |-> "k2_htm"],
            [index |-> <<"primary", "extracted">>, primary |-> "k2_htm", extracted |-> "k2_xml"]>>,
   q1 |-> <<[index |-> <<"exhibit", "primary">>, exhibit |-> "ex", primary |-> "q1_htm"]>>]

Year1 == [c |-> [kind |-> "duration", start |-> 0, end |-> 364, total |-> TRUE]]
Quarter1 == [c |-> [kind |-> "duration", start |-> 365, end |-> 454, total |-> TRUE]]
Holding(contexts_, value) ==
  [xml |-> TRUE, contexts |-> contexts_, focus |-> none,
   items |-> {[concept |-> "Revenues", context |-> "c", unit |-> "USD", value |-> value]}]
Empty == [xml |-> FALSE, contexts |-> <<>>, focus |-> none, items |-> {}]

KDocument ==
  (cut :> Empty) @@ ("ex" :> [Empty EXCEPT !.xml = TRUE])
  @@ [k1_htm |-> Holding(Year1, 1), k2_htm |-> Holding(Year1, 2), k2_xml |-> Holding(Year1, 2),
      q1_htm |-> Holding(Quarter1, 3)]
=============================================================================
