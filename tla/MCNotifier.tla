---------------------------- MODULE MCNotifier ----------------------------
(* One or two notifyd over a ledger of a few events. *)
EXTENDS Notifier

CONSTANTS n1, n2
=============================================================================
