---------------------------- MODULE MCCashOutbox ----------------------------
(***************************************************************************)
(* Small instances of CashOutbox for TLC: one sale of one or two units,    *)
(* half of it paid in cash, so that a cash refund can leave less in the    *)
(* drawer than an original-method refund would take.                       *)
(***************************************************************************)
EXTENDS CashOutbox

CONSTANTS sale

MCHalfCash == [s \in Sales |-> 2]
MCHalfCashOfOne == [s \in Sales |-> 1]

Troubles(fault, expiry, rotation, closure) ==
  [kind \in Trouble |-> CASE kind = "fault" -> fault
                          [] kind = "expiry" -> expiry
                          [] kind = "rotation" -> rotation
                          [] kind = "closure" -> closure]
MCNetworkAndOwner == Troubles(1, 0, 1, 1)
MCNetworkAndExpiry == Troubles(1, 1, 0, 0)

\* Neither tabs nor refunds are told apart.
Symmetry == Permutations(Tabs) \cup Permutations(Refunds)
=============================================================================
