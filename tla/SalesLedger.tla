---------------------------- MODULE SalesLedger ----------------------------
(***************************************************************************)
(* What the outbox and the server together promise about a sale: the       *)
(* cashier records payments; the server books recorded payments, each once *)
(* and never after a void; a void gives back the cash booked so far, once. *)
(***************************************************************************)
EXTENDS Naturals

CONSTANTS Sales, Payments

VARIABLES
  recorded,   \* payments recorded on the device
  booked,     \* payments booked on the server
  drawer,     \* cash booked for the sale and not given back
  void        \* sales voided on the server

ledgerVars == <<recorded, booked, drawer, void>>

Init ==
  /\ recorded = [s \in Sales |-> 0]
  /\ booked = [s \in Sales |-> 0]
  /\ drawer = [s \in Sales |-> 0]
  /\ void = {}

\* The cashier takes one more payment.
Pay(s) ==
  /\ recorded[s] < Payments[s]
  /\ recorded' = [recorded EXCEPT ![s] = @ + 1]
  /\ UNCHANGED <<booked, drawer, void>>

\* A batch books some of the recorded payments of sales that are not void.
BookPayments ==
  /\ booked' \in [Sales -> Nat]
  /\ \A s \in Sales : booked'[s] # booked[s] =>
       s \notin void /\ booked[s] < booked'[s] /\ booked'[s] <= recorded[s]
  /\ drawer' = [s \in Sales |-> drawer[s] + (booked'[s] - booked[s])]
  /\ UNCHANGED <<recorded, void>>

\* A booked sale is voided.
Void(s) ==
  /\ booked[s] > 0
  /\ s \notin void
  /\ void' = void \cup {s}
  /\ drawer' = [drawer EXCEPT ![s] = 0]
  /\ UNCHANGED <<recorded, booked>>

Next ==
  \/ \E s \in Sales : Pay(s) \/ Void(s)
  \/ BookPayments

Spec == Init /\ [][Next]_ledgerVars
=============================================================================
