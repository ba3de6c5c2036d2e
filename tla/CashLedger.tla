----------------------------- MODULE CashLedger -----------------------------
(***************************************************************************)
(* What the cash and refund outbox and the finance routes promise about    *)
(* money, without queues, flushes, approvals that expire and answers that  *)
(* are lost: an order has its effect once; a sale is never refunded past   *)
(* its bill nor after it is void; the drawer follows; the screen shows     *)
(* only what is booked.                                                    *)
(***************************************************************************)
EXTENDS Integers

CONSTANTS Sales, Units, Total, CashPaid, Ids, Orders, Unasked

VARIABLES
  orders,     \* what was ordered under each id, and approved if need be
  booked,     \* effects in the books
  sold,       \* sales the books know
  returned,   \* units taken back of each sale
  repaid,     \* money given back for them
  drawer,     \* cash of the sale that is in the drawer
  shown       \* orders the device shows, or is told, as done

ledgerVars == <<orders, booked, sold, returned, repaid, drawer, shown>>

Init ==
  /\ orders = [c \in Ids |-> Unasked]
  /\ booked = {} /\ sold = {} /\ shown = {}
  /\ returned = [s \in Sales |-> 0]
  /\ repaid = [s \in Sales |-> 0]
  /\ drawer = [s \in Sales |-> 0]

\* A refund is known by its id, every other effect by what it is about: a sale
\* is voided and a movement reversed once, whoever asks.
Effect(c) ==
  <<orders[c].event, IF orders[c].event = "REFUND" THEN c ELSE orders[c].of>>

\* An id stands for one order, for ever.
Accept(c) ==
  /\ orders[c] = Unasked
  /\ orders'[c] \in Orders
  /\ orders' = [orders EXCEPT ![c] = orders'[c]]
  /\ UNCHANGED <<booked, sold, returned, repaid, drawer, shown>>

\* A sale comes with its cash.
Arrive(s) ==
  /\ s \notin sold
  /\ sold' = sold \union {s}
  /\ drawer' = [drawer EXCEPT ![s] = @ + CashPaid[s]]
  /\ UNCHANGED <<orders, booked, returned, repaid, shown>>

Execute(c) ==
  /\ orders[c] # Unasked
  /\ Effect(c) \notin booked
  /\ booked' = booked \union {Effect(c)}
  /\ shown' \in {shown, shown \union {c}}
  /\ UNCHANGED <<orders, sold>>

\* What is given back stays within the bill and reaches it with the last unit.  In
\* cash, all of it leaves the drawer; by original method, no more than is there.
Refund(c) == \E s \in sold :
  /\ orders[c].event = "REFUND" /\ orders[c].of = s
  /\ <<"VOID", s>> \notin booked
  /\ Execute(c)
  /\ returned' = [returned EXCEPT ![s] = @ + orders[c].units]
  /\ returned'[s] <= Units
  /\ \E amount \in 1 .. Total - repaid[s], cash \in 0 .. Total :
       /\ repaid' = [repaid EXCEPT ![s] = @ + amount]
       /\ returned'[s] = Units => repaid'[s] = Total
       /\ drawer' = [drawer EXCEPT ![s] = @ - cash]
       /\ IF orders[c].method = "CASH" THEN cash = amount
          ELSE cash <= amount /\ (cash = 0 \/ cash <= drawer[s])

\* A void takes what its sale has left in the drawer.
Void(c) == \E s \in sold :
  /\ orders[c].event = "VOID" /\ orders[c].of = s
  /\ Execute(c)
  /\ drawer' = [drawer EXCEPT ![s] = 0]
  /\ UNCHANGED <<returned, repaid>>

\* Money put in or taken out for other reasons, or such a movement undone.
Move(c) ==
  /\ orders[c].event \in {"CASH_IN", "CASH_OUT", "REVERSAL"}
  /\ orders[c].event = "REVERSAL" =>
       \E event \in {"CASH_IN", "CASH_OUT"} : <<event, orders[c].of>> \in booked
  /\ Execute(c)
  /\ UNCHANGED <<returned, repaid, drawer>>

\* The device learns that an order is done.
Show(c) ==
  /\ orders[c] # Unasked
  /\ Effect(c) \in booked
  /\ shown' = shown \union {c}
  /\ UNCHANGED <<orders, booked, sold, returned, repaid, drawer>>

Next ==
  \/ \E s \in Sales : Arrive(s)
  \/ \E c \in Ids : Accept(c) \/ Refund(c) \/ Void(c) \/ Move(c) \/ Show(c)

Spec == Init /\ [][Next]_ledgerVars
=============================================================================
