--------------------------- MODULE MCOrderPipeline ---------------------------
(* Small authority chains for TLC: two runs of one buy each, or one run of two *)
(* intents, and one or two processes per command.                             *)
EXTENDS OrderPipeline, TLC

CONSTANTS i1, i2, run1, run2, g, s, b, b2, sec

Buy(n) == [security |-> sec, side |-> "buy", notional |-> n, weight |-> 5]
Sell(n) == [security |-> sec, side |-> "sell", notional |-> n, weight |-> 0]

Table == sec :> [investable |-> TRUE, adv |-> 1000]

GateArgs == [cash |-> 0, minNotional |-> 1, maxNotional |-> 10, maxWeight |-> 5,
             minAdv |-> 100, maxParticipation |-> 1]

Buys == (i1 :> Buy(6)) @@ (i2 :> Buy(6))

TwoRuns == (i1 :> run1) @@ (i2 :> run2)
OneRun == (i1 :> run1) @@ (i2 :> run1)

Single == (g :> "gate") @@ (s :> "stage") @@ (b :> "send")
TwoSenders == (g :> "gate") @@ (s :> "stage") @@ (b :> "send") @@ (b2 :> "send")
=============================================================================
