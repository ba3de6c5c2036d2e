----------------------------- MODULE SalesIngest -----------------------------
(***************************************************************************)
(* What POST /api/v1/sync/transactions decides about one sale, and about   *)
(* the batch that carries it (services/pos/sync.ts, services/pos/          *)
(* tenders.ts).  Constant-level operators only: the state machine that     *)
(* uses them is SalesSync.                                                 *)
(*                                                                         *)
(* A sale is identified by its clientTxnId.  Its payload is abstracted to  *)
(* a version: the number of payments the cashier has recorded on it.  A    *)
(* sale paid at once has one version; a split bill has one version per     *)
(* tender, each carrying all the earlier tenders (POSContext keeps the     *)
(* list and re-enqueues the whole order).  Every payment is one unit of    *)
(* cash and every sale takes one unit of stock.                            *)
(***************************************************************************)
EXTENDS Naturals

CONSTANTS
  Sales,       \* clientTxnIds
  Payments,    \* [Sales -> 1..MaxPayments]: payments that settle the sale
  Split,       \* the sales whose payload lists its tenders
  Printed,     \* [Sales -> Numbers]: invoice number printed on the device
  Numbers,
  MaxPayments  \* bound: the most payments a split bill has

ASSUME SalesAssumption ==
  /\ MaxPayments \in Nat \ {0}
  /\ Payments \in [Sales -> 1 .. MaxPayments]
  /\ Split \subseteq Sales
  /\ \A s \in Sales \ Split : Payments[s] = 1
  /\ Printed \in [Sales -> Numbers]

Version == 0 .. MaxPayments    \* 0: no such row

Status == {"ABSENT", "PENDING_PAYMENT", "COMPLETED", "SETTLED", "VOIDED"}

\* One row of pos.transactions with its payments, its cash_ledger balance
\* and the stock it still holds.
Entry == [status : Status, paid : Version, cash : Version,
          stock : 0 .. 1, renumbered : BOOLEAN]

Absent == [status |-> "ABSENT", paid |-> 0, cash |-> 0, stock |-> 0,
           renumbered |-> FALSE]

Present(e) == e.status # "ABSENT"

\* Why the server would refuse the sale when it inserts it: "sale" is an
\* error perSaleRejection maps to rejected[], "batch" any other error
\* (product limit, free plan scope), which fails the request.
Refusal == {"none", "sale", "batch"}

-----------------------------------------------------------------------------
\* The INSERT that wins: the order, its payments, its cash and its stock.
\* Only the sales in keep are booked under the number that is printed.
NewSale(s, v, keep) ==
  [status |-> IF v = Payments[s] THEN "COMPLETED" ELSE "PENDING_PAYMENT",
   paid |-> v, cash |-> v, stock |-> 1, renumbered |-> s \notin keep]

Larger(m, n) == IF m < n THEN n ELSE m

\* Mutant of AddTenders: tenders already paid in are not skipped.
AddTendersAgain(e, s, v) ==
  [e EXCEPT !.paid = e.paid + v, !.cash = e.cash + v]

\* applyTenders on a sale that is already there: the tenders it has are
\* skipped by clientPaymentId, the missing ones are paid in; the database
\* settles the order when its payments reach the total.
AddTenders(e, s, v) ==
  LET paid == Larger(e.paid, v) IN
  [e EXCEPT !.paid   = paid,
            !.cash   = e.cash + (paid - e.paid),
            !.status = IF e.status = "PENDING_PAYMENT" /\ paid = Payments[s]
                       THEN "SETTLED" ELSE e.status]

\* Mutant of RejectsSale: applyTenders does not look at the order's status.
RejectsNoVoid(e, s, refused) == ~Present(e) /\ refused = "sale"

\* A per-sale rejection: the savepoint is rolled back.  A sale already booked
\* is rejected when tenders arrive for a void (TRANSACTION_NOT_PAYABLE).
RejectsSale(e, s, refused) ==
  \/ ~Present(e) /\ refused = "sale"
  \/ s \in Split /\ e.status = "VOIDED"

\* Mutant of SyncOne: no ON CONFLICT, a sale already booked is inserted anew.
SyncOneAnew(e, s, v, keep) == NewSale(s, v, keep)

\* A row's effect when it is not rejected: a sale already booked gets only the
\* tenders it lacks.
SyncOne(e, s, v, keep) ==
  IF ~Present(e)     THEN NewSale(s, v, keep)
  ELSE IF s \in Split THEN AddTenders(e, s, v)
  ELSE e

\* Mutant of Voided: the stock is not given back.
VoidedWithoutRestore(e) ==
  IF Present(e) /\ e.status # "VOIDED"
  THEN [e EXCEPT !.status = "VOIDED", !.cash = 0]
  ELSE e

\* The void of a booked sale: the cash of the sale is reversed, the stock it
\* holds goes back.  A second void finds VOIDED and changes nothing.
Voided(e) ==
  IF Present(e) /\ e.status # "VOIDED"
  THEN [e EXCEPT !.status = "VOIDED", !.cash = 0, !.stock = 0]
  ELSE e

\* The payload version v of a sale is in the ledger.
Books(e, v) == Present(e) /\ v <= e.paid

\* The entry e of sale s adds up, when the device has recorded n payments.
BookedRight(e, s, n) ==
  /\ e.paid <= n
  /\ e.paid = 0 <=> e.status = "ABSENT"
  /\ e.cash = IF e.status = "VOIDED" THEN 0 ELSE e.paid
  /\ e.stock = IF e.status \in {"ABSENT", "VOIDED"} THEN 0 ELSE 1
  /\ e.status = "PENDING_PAYMENT" => e.paid < Payments[s]
  /\ e.status \in {"COMPLETED", "SETTLED"} => e.paid = Payments[s]
=============================================================================
