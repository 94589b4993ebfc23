---------------------------- MODULE MCGateCheck ----------------------------
(* Batches of up to three intents for TLC, with buys that fit in the cash     *)
(* alone and not together, and each kind of input the gate refuses.           *)
EXTENDS GateCheck

CONSTANTS known, unknown

Order(sec, side, notional, weight) ==
    [security |-> sec, side |-> side, notional |-> notional, weight |-> weight]

BatchIntents == {
    Order(known, "buy", 4, 3), Order(known, "buy", 6, 3), Order(known, "sell", 6, 3),
    Order(known, "buy", 4, -9), Order(known, "buy", NonFinite, 3),
    Order(known, "none", 4, 3), Order(unknown, "buy", 4, 3), Order(known, "buy", 0, 3)}

KnownSecurity == {known}

Tables == {[x \in KnownSecurity |-> [investable |-> inv, adv |-> adv]] :
               inv \in BOOLEAN, adv \in {NonFinite, 50, 500, 600}}

CheckedAt == {0, 3, 4, 9}

CallLimits ==
    {[reconciled |-> ok, now |-> 8, checkedAt |-> at, maxAge |-> 4, cash |-> cash,
      minNotional |-> 1, maxNotional |-> cap, maxWeight |-> 5, minAdv |-> 100,
      maxParticipation |-> 1] :
          ok \in BOOLEAN, at \in CheckedAt, cash \in {5, 9, 10}, cap \in {0, 4, 6}}
=============================================================================
