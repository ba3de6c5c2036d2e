----------------------------- MODULE CashOutbox -----------------------------
(***************************************************************************)
(* Refunds, voids and drawer movements: the durable command queue of a     *)
(* device (src/lib/sync/financialQueue.ts), the 90 second approvals of the *)
(* owner (services/pos/financialAuthorization.ts) and the finance routes   *)
(* that book them (services/pos/finance.ts, the void of services/pos/      *)
(* sync.ts).                                                               *)
(*                                                                         *)
(* Refunds and cash-ins are queued and sent in order, one request at a     *)
(* time; a flush stops at the first error.  Voids, cash-outs and reversals *)
(* are direct calls.  All but cash-ins need an approval, which binds that  *)
(* very command.  Requests and answers may be lost or late.                *)
(***************************************************************************)
EXTENDS Integers, SequencesExt

CONSTANTS
  Sales,      \* sales of the outlet
  Units,      \* units of the one line each sale has
  Price,      \* price of a unit
  Discount, Tax, Service,   \* of the whole sale, in the smallest unit of money
  CashPaid,   \* [Sales -> 0 .. Total]: the part tendered in cash
  Refunds,    \* clientRefundIds
  CashIns,    \* client event ids of queued movements
  Calls,      \* direct calls: voids, cash-outs, reversals
  Tabs,       \* browser tabs open on the business
  Budget      \* bound: how often each kind of trouble may happen

Trouble == {"fault", "expiry", "rotation", "closure"}
Commands == Refunds \cup CashIns       \* what the queue holds
Privileged == Refunds \cup Calls       \* what needs an approval

\* The sale: its line after the discount, and what was paid for it.
Net == Units * Price - Discount
Total == Net + Tax + Service
Bill == [amount |-> Total, discount |-> Discount, tax |-> Tax, service |-> Service]
Nothing == [amount |-> 0, discount |-> 0, tax |-> 0, service |-> 0]

ASSUME CashAssumption ==
  /\ Units \in Nat \ {0} /\ Price \in Nat \ {0}
  /\ Discount \in 0 .. Units * Price /\ Tax \in Nat /\ Service \in Nat
  /\ CashPaid \in [Sales -> 0 .. Total]
  /\ Budget \in [Trouble -> Nat]
  /\ Refunds \cap CashIns = {} /\ Refunds \cap Calls = {}
  /\ CashIns \cap Calls = {} /\ Sales \cap (Commands \cup Calls) = {}

VARIABLES
  request,   \* what the cashier asked for under each id
  asking,    \* requests waiting for the owner's PIN and the approve route
  outbox,    \* newhope_cash_outbox_, shared by the tabs
  meta,      \* newhope_cash_sync_meta_: how the last flush ended
  flight,    \* the flush each tab is in and the rows of its snapshot
  posts,     \* requests under way that no flush waits for
  acks,      \* newhope_refund_ack_
  recorded,  \* refunds and calls applied to the orders on screen
  books,     \* refunds, voids and pos.cash_ledger, in booking order
  returned,  \* units refunded of each sale
  refunded,  \* sums of its rows in pos.transaction_refunds
  drawer,    \* SUM(amount) of the sale's rows of pos.cash_ledger
  grant,     \* pos.financial_approval_grants, one per command
  audit,     \* pos.financial_authorization_audit
  uploaded,  \* sales the sales outbox has brought to the server
  open,      \* the outlet is active
  budget     \* what is left of Budget

device == <<request, asking, outbox, recorded>>
sync   == <<meta, flight, acks>>
booked == <<books, returned, refunded, drawer>>
server == <<booked, grant, audit>>
world  == <<uploaded, open, budget>>
vars   == <<request, asking, outbox, meta, flight, posts, acks, recorded,
            books, returned, refunded, drawer, grant, audit, uploaded, open, budget>>

Event == {"REFUND", "CASH_IN", "CASH_OUT", "REVERSAL", "VOID"}
Method == {"CASH", "ORIGINAL_METHOD"}
Unasked == [event |-> "none"]
Request == [event : Event, of : Sales \cup Commands \cup Calls,
            units : 0 .. Units, method : Method]
Parts == [amount : Int, discount : Int, tax : Int, service : Int]
Entry == [event : Event, by : Commands \cup Calls,
          of : Sales \cup Commands \cup Calls]

Idle == [phase |-> "idle", rows |-> <<>>]
Phase == {"idle", "sent", "ok", "refused", "parked"}

TypeOK ==
  /\ request \in [Commands \cup Calls -> Request \cup {Unasked}]
  /\ asking \in SUBSET Privileged
  /\ outbox \in Seq(Commands)
  /\ meta \in {"ok", "failed", "parked"}
  /\ flight \in [Tabs -> [phase : Phase, rows : Seq(Commands)]]
  /\ \A t \in Tabs : flight[t].phase = "idle" <=> flight[t].rows = <<>>
  /\ posts \in SUBSET (Commands \cup Calls)
  /\ acks \in SUBSET Refunds
  /\ recorded \in SUBSET Privileged
  /\ books \in Seq(Entry)
  /\ returned \in [Sales -> Nat]
  /\ refunded \in [Sales -> Parts]
  /\ drawer \in [Sales -> Int]
  /\ grant \in [Privileged -> {"none", "fresh", "used", "dead"}]
  /\ audit \in SUBSET Privileged
  /\ uploaded \in SUBSET Sales
  /\ open \in BOOLEAN
  /\ budget \in [Trouble -> Nat]

Init ==
  /\ request = [c \in Commands \cup Calls |-> Unasked]
  /\ asking = {} /\ outbox = <<>> /\ meta = "ok"
  /\ flight = [t \in Tabs |-> Idle]
  /\ posts = {} /\ acks = {} /\ recorded = {}
  /\ books = <<>>
  /\ returned = [s \in Sales |-> 0] /\ refunded = [s \in Sales |-> Nothing]
  /\ drawer = [s \in Sales |-> 0]
  /\ grant = [p \in Privileged |-> "none"] /\ audit = {}
  /\ uploaded = {} /\ open = TRUE /\ budget = Budget

Spend(kind) ==
  /\ budget[kind] > 0
  /\ budget' = [budget EXCEPT ![kind] = @ - 1]

-----------------------------------------------------------------------------
(* What the books say *)

Entries(events, of) ==
  {i \in DOMAIN books : books[i].event \in events /\ books[i].of = of}

\* Same command: a refund by its clientRefundId, a void by its sale, a
\* reversal by its original, a movement by its client event id.
Same(event, by, of, e) ==
  e.event = event /\ IF event = "REFUND" THEN e.by = by ELSE e.of = of

Booked(c) ==
  \E i \in DOMAIN books :
    Same(request[c].event, c, request[c].of, books[i])

Voided(s) == Entries({"VOID"}, s) # {}

-----------------------------------------------------------------------------
(* The cashier *)

VoidOnScreen ==
  {request[d].of : d \in {d \in recorded : request[d].event = "VOID"}}

ReturnedOnScreen(s) ==
  MapThenSumSet(LAMBDA r : request[r].units,
                {r \in recorded \cap Refunds : request[r].of = s})

Ask(c, event, of, units, method) ==
  /\ request[c] = Unasked
  /\ request' = [request EXCEPT ![c] =
       [event |-> event, of |-> of, units |-> units, method |-> method]]

\* addCashMovement of a CASH_IN.
AddCashIn(c) ==
  /\ Ask(c, "CASH_IN", c, 0, "CASH")
  /\ outbox' = Append(outbox, c)
  /\ UNCHANGED <<asking, recorded, sync, posts, server, world>>

\* pendingRefund
PendingRefund(s) ==
  \E i \in DOMAIN outbox : /\ request[outbox[i]].event = "REFUND"
                           /\ request[outbox[i]].of = s

\* refundOrderItems up to its first await.
AskRefund(r, s, units, method) ==
  /\ s \notin VoidOnScreen
  /\ ~PendingRefund(s)
  /\ units <= Units - ReturnedOnScreen(s)
  /\ Ask(r, "REFUND", s, units, method)
  /\ asking' = asking \cup {r}
  /\ UNCHANGED <<outbox, recorded, sync, posts, server, world>>

\* Movements the cash screen lists: added here, or confirmed cash-outs.
Movements ==
  {c \in CashIns : request[c] # Unasked}
    \cup {d \in recorded \cap Calls : request[d].event = "CASH_OUT"}

\* voidOrder, addCashMovement of a CASH_OUT, deleteCashMovement, up to the
\* call of requestFinancialApproval.
AskCall(d, event, of) ==
  /\ \/ event = "VOID" /\ of \in Sales \ VoidOnScreen
     \/ event = "CASH_OUT" /\ of = d
     \/ event = "REVERSAL" /\ of \in Movements
  /\ Ask(d, event, of, 0, "CASH")
  /\ asking' = asking \cup {d}
  /\ UNCHANGED <<outbox, recorded, sync, posts, server, world>>

\* The approve route issues the grant; the device goes on with its answer: a
\* refund is queued, a call is posted.
Approve(p) ==
  /\ p \in asking /\ open
  /\ asking' = asking \ {p}
  /\ grant' = [grant EXCEPT ![p] = "fresh"]
  /\ IF p \in Refunds
     THEN outbox' = Append(outbox, p) /\ UNCHANGED posts
     ELSE posts' = posts \cup {p} /\ UNCHANGED outbox
  /\ UNCHANGED <<request, recorded, sync, booked, audit, world>>

\* A wrong PIN, a closed outlet, a lost answer: the request is given up.
Decline(p) ==
  /\ p \in asking
  /\ asking' = asking \ {p}
  /\ UNCHANGED <<request, outbox, recorded, sync, posts, server, world>>

\* refundOrderItems goes on after runSync when it finds the acknowledgment.
RecordRefund(r) ==
  /\ r \in acks \ recorded
  /\ recorded' = recorded \cup {r}
  /\ UNCHANGED <<request, asking, outbox, sync, posts, server, world>>

-----------------------------------------------------------------------------
(* The server: one database transaction per request *)

Lesser(m, n) == IF m < n THEN m ELSE n

\* money(): a / b to the nearest smallest unit.
Rounded(a, b) == (2 * a + b) \div (2 * b)

\* What is left to refund of a part of the bill.
Left(s, part) == Bill[part] - refunded[s][part]

\* The share of a charge that falls on n units.
ChargeOn(n, charge) ==
  IF Net = 0 THEN 0 ELSE Rounded(charge * Rounded(Net * n, Units), Net)

\* Mutant of RefundParts: the last refund squares the amount, not its parts.
RefundPartsRounded(s, n) ==
  LET discount == Lesser(n * Price - Rounded(Net * n, Units), Left(s, "discount"))
      tax == Lesser(ChargeOn(n, Tax), Left(s, "tax"))
      service == Lesser(ChargeOn(n, Service), Left(s, "service"))
  IN  [discount |-> discount, tax |-> tax, service |-> service,
       amount |-> IF returned[s] + n >= Units THEN Left(s, "amount")
                  ELSE n * Price - discount + tax + service]

\* The amounts of a refund of n units: each part is rounded by itself, and
\* the refund that empties the line takes what is left of each.
RefundParts(s, n) ==
  LET last == returned[s] + n >= Units
      discount == IF last THEN Left(s, "discount")
                  ELSE Lesser(n * Price - Rounded(Net * n, Units), Left(s, "discount"))
      tax == IF last THEN Left(s, "tax") ELSE Lesser(ChargeOn(n, Tax), Left(s, "tax"))
      service == IF last THEN Left(s, "service")
                 ELSE Lesser(ChargeOn(n, Service), Left(s, "service"))
  IN  [discount |-> discount, tax |-> tax, service |-> service,
       amount |-> IF last THEN Left(s, "amount")
                  ELSE n * Price - discount + tax + service]

\* Mutant of Approved: a consumed grant is refused, like an expired one.
ApprovedOnce(c) == c \in Privileged => grant[c] = "fresh"

\* consumeFinancialApproval lets it pass: unexpired, or consumed by this
\* very command before.
Approved(c) == c \in Privileged => grant[c] \in {"fresh", "used"}

\* Mutant of Refundable: earlier returns are not subtracted.
RefundableEachTime(r) ==
  ~Voided(request[r].of) /\ request[r].units <= Units

\* Mutant of Refundable: the sale is not looked up in merchant_revenue.
RefundableAfterVoid(r) == request[r].units <= Units - returned[request[r].of]

\* applyRefund of a refund not seen yet: the sale still counts as revenue, the
\* line has that many units left, and there is that much to pay back.
Refundable(r) ==
  LET s == request[r].of
      amount == RefundParts(s, request[r].units).amount
  IN  /\ ~Voided(s)
      /\ request[r].units <= Units - returned[s]
      /\ 0 < amount /\ amount <= Left(s, "amount")

\* Mutant of Admits: a movement is reversed that is not booked yet.
AdmitsAnyReversal(c) ==
  LET q == request[c] IN
  /\ Approved(c)
  /\ q.event \in {"REFUND", "VOID"} => q.of \in uploaded
  /\ q.event = "REFUND" => Booked(c) \/ Refundable(c)

\* The tests of each route, after the scope.
Admits(c) ==
  LET q == request[c] IN
  /\ Approved(c)
  /\ q.event \in {"REFUND", "VOID"} => q.of \in uploaded
  /\ q.event = "REFUND" => Booked(c) \/ Refundable(c)
  /\ q.event = "REVERSAL" => Entries({"CASH_IN", "CASH_OUT"}, q.of) # {}

\* The cash share of an amount by the tenders of its sale.
TenderShare(s, amount) ==
  IF Total = 0 THEN 0 ELSE Rounded(amount * CashPaid[s], Total)

\* Mutant of OriginalCash: the share of the tenders, whatever cash is left.
OriginalShare(s, amount) == TenderShare(s, amount)

\* What an original-method refund takes from the drawer: the cash share, at
\* most the cash of the sale that is still there.
OriginalCash(s, amount) ==
  Lesser(TenderShare(s, amount), IF drawer[s] < 0 THEN 0 ELSE drawer[s])

\* The cash a command takes out of what the drawer holds of sale s: a void
\* takes back whatever balance its rows have.
CashOut(c, s) ==
  LET q == request[c]
      amount == RefundParts(s, q.units).amount
  IN  CASE q.event = "VOID" /\ q.of = s -> drawer[s]
        [] q.event = "REFUND" /\ q.of = s ->
             IF q.method = "CASH" THEN amount ELSE OriginalCash(s, amount)
        [] OTHER -> 0

Plus(p, q) ==
  [amount |-> p.amount + q.amount, discount |-> p.discount + q.discount,
   tax |-> p.tax + q.tax, service |-> p.service + q.service]

Book(c) ==
  LET q == request[c]
      Returns(s) == q.event = "REFUND" /\ q.of = s
  IN
  /\ books' = Append(books, [event |-> q.event, by |-> c, of |-> q.of])
  /\ returned' = [s \in Sales |-> returned[s] + IF Returns(s) THEN q.units ELSE 0]
  /\ refunded' = [s \in Sales |-> IF Returns(s)
                    THEN Plus(refunded[s], RefundParts(s, q.units)) ELSE refunded[s]]
  /\ drawer' = [s \in Sales |-> drawer[s] - CashOut(c, s)]

Consume(c) ==
  /\ grant' = [p \in Privileged |-> IF p = c THEN "used" ELSE grant[p]]
  /\ audit' = audit \cup ({c} \cap Privileged)

\* Mutant of Apply: a retry is booked again.
ApplyAgain(c) == Consume(c) /\ Book(c)

\* The approval is consumed and audited and the command booked, together; a
\* retry of what is booked changes nothing.
Apply(c) ==
  /\ Consume(c)
  /\ IF Booked(c) THEN UNCHANGED booked ELSE Book(c)

\* A queued call that nobody waits for any more, or a direct call; its
\* answer may be lost.
ServePost(c) ==
  /\ c \in posts
  /\ posts' = posts \ {c}
  /\ IF open /\ Admits(c)
     THEN Apply(c) /\ recorded' \in {recorded, recorded \cup ({c} \cap Calls)}
     ELSE UNCHANGED <<server, recorded>>
  /\ UNCHANGED <<request, asking, outbox, sync, world>>

ExpireGrant(p) ==
  /\ grant[p] = "fresh"
  /\ Spend("expiry")
  /\ grant' = [grant EXCEPT ![p] = "dead"]
  /\ UNCHANGED <<device, sync, posts, booked, audit, uploaded, open>>

\* The pin route deletes every grant, also the consumed ones.
RotatePin ==
  /\ Spend("rotation")
  /\ grant' = [p \in Privileged |-> IF grant[p] = "none" THEN "none"
                                    ELSE "dead"]
  /\ UNCHANGED <<device, sync, posts, booked, audit, uploaded, open>>

\* External: the sales outbox brings the sale (SalesSync), the owner closes
\* and opens the outlet.
UploadSale(s) ==
  /\ s \notin uploaded
  /\ uploaded' = uploaded \cup {s}
  /\ drawer' = [drawer EXCEPT ![s] = @ + CashPaid[s]]
  /\ UNCHANGED <<device, sync, posts, books, returned, refunded, grant, audit,
                 open, budget>>

CloseOutlet ==
  /\ open /\ Spend("closure")
  /\ open' = FALSE
  /\ UNCHANGED <<device, sync, posts, server, uploaded>>

OpenOutlet ==
  /\ ~open
  /\ open' = TRUE
  /\ UNCHANGED <<device, sync, posts, server, uploaded, budget>>

-----------------------------------------------------------------------------
(* flushCashQueue *)

\* The queue without the row of c: a command is queued once (enqueueCashCommand).
Without(rows, c) ==
  IF \E i \in DOMAIN rows : rows[i] = c
  THEN RemoveAt(rows, CHOOSE i \in DOMAIN rows : rows[i] = c)
  ELSE rows

Row(t) == Head(flight[t].rows)
Waiting(t) == flight[t].phase = "sent"

StartFlush(t, force) ==
  /\ flight[t] = Idle
  /\ outbox # <<>>
  /\ meta = "parked" => force
  /\ flight' = [flight EXCEPT ![t] = [phase |-> "sent", rows |-> outbox]]
  /\ UNCHANGED <<device, meta, acks, posts, server, world>>

ServeRow(t) ==
  /\ Waiting(t)
  /\ open /\ Admits(Row(t))
  /\ Apply(Row(t))
  /\ flight' = [flight EXCEPT ![t].phase = "ok"]
  /\ UNCHANGED <<device, meta, acks, posts, world>>

\* Mutant of RefuseRow: the approval is consumed outside the transaction
\* that is rolled back.
RefuseRowSpent(t) ==
  /\ Waiting(t)
  /\ ~(open /\ Admits(Row(t)))
  /\ flight' = [flight EXCEPT ![t].phase = IF open THEN "refused"
                                           ELSE "parked"]
  /\ audit' = audit \cup ({Row(t)} \cap Privileged)
  /\ UNCHANGED <<device, meta, acks, posts, booked, grant, world>>

RefuseRow(t) ==
  /\ Waiting(t)
  /\ ~(open /\ Admits(Row(t)))
  /\ flight' = [flight EXCEPT ![t].phase = IF open THEN "refused"
                                           ELSE "parked"]
  /\ UNCHANGED <<device, meta, acks, posts, server, world>>

\* Mutant of Confirm: the rest of the snapshot is written back.
ConfirmSnapshot(t) ==
  /\ flight[t].phase = "ok"
  /\ acks' = acks \cup ({Row(t)} \cap Refunds)
  /\ outbox' = Tail(flight[t].rows)
  /\ meta' = "ok"
  /\ flight' = [flight EXCEPT ![t] =
       IF Len(@.rows) = 1 THEN Idle
       ELSE [phase |-> "sent", rows |-> Tail(@.rows)]]
  /\ UNCHANGED <<request, asking, recorded, posts, server, world>>

\* Mutant of Confirm: the flight is not ended after the last row.
ConfirmRunsOn(t) ==
  /\ flight[t].phase = "ok"
  /\ outbox' = Without(outbox, Row(t))
  /\ flight' = [flight EXCEPT ![t] =
       [phase |-> "sent", rows |-> Tail(@.rows)]]
  /\ UNCHANGED <<request, asking, recorded, meta, acks, posts, server, world>>

\* The answer is acknowledged: that row leaves the queue as it is now, and
\* the next row of the snapshot is sent.
Confirm(t) ==
  /\ flight[t].phase = "ok"
  /\ acks' = acks \cup ({Row(t)} \cap Refunds)
  /\ outbox' = Without(outbox, Row(t))
  /\ meta' = "ok"
  /\ flight' = [flight EXCEPT ![t] =
       IF Len(@.rows) = 1 THEN Idle
       ELSE [phase |-> "sent", rows |-> Tail(@.rows)]]
  /\ UNCHANGED <<request, asking, recorded, posts, server, world>>

\* Mutant of Halt: any answer at all is taken for a confirmation.
HaltConfirms(t) ==
  /\ flight[t].phase \in {"refused", "parked"}
  /\ acks' = acks \cup ({Row(t)} \cap Refunds)
  /\ meta' = "ok"
  /\ flight' = [flight EXCEPT ![t] = Idle]
  /\ UNCHANGED <<device, posts, server, world>>

\* The first error ends the flush; the row stays at the head of the queue.
Halt(t) ==
  /\ flight[t].phase \in {"refused", "parked"}
  /\ meta' = IF flight[t].phase = "parked" THEN "parked" ELSE "failed"
  /\ flight' = [flight EXCEPT ![t] = Idle]
  /\ UNCHANGED <<device, acks, posts, server, world>>

\* 15 s pass, the network fails or the tab is closed.  The request may still
\* arrive, the answer is lost; of an answer that came, the acknowledgment may
\* be written and the queue not.
Lose(t) ==
  /\ flight[t].phase # "idle"
  /\ Spend("fault")
  /\ flight' = [flight EXCEPT ![t] = Idle]
  /\ meta' \in {meta, "failed"}
  /\ posts' \in IF Waiting(t) THEN {posts, posts \cup {Row(t)}} ELSE {posts}
  /\ acks' \in IF flight[t].phase = "ok"
               THEN {acks, acks \cup ({Row(t)} \cap Refunds)} ELSE {acks}
  /\ UNCHANGED <<device, server, uploaded, open>>

-----------------------------------------------------------------------------
Cashier ==
  \/ \E c \in CashIns : AddCashIn(c)
  \/ \E r \in Refunds, s \in Sales, n \in 1 .. Units, m \in Method :
       AskRefund(r, s, n, m)
  \/ \E d \in Calls, e \in {"VOID", "CASH_OUT", "REVERSAL"},
        of \in Sales \cup CashIns \cup Calls : AskCall(d, e, of)
  \/ \E p \in Privileged : Approve(p) \/ Decline(p)
  \/ \E r \in Refunds : RecordRefund(r)

Flush(t) ==
  \/ \E force \in BOOLEAN : StartFlush(t, force)
  \/ ServeRow(t) \/ RefuseRow(t) \/ Confirm(t) \/ Halt(t) \/ Lose(t)

World ==
  \/ \E p \in Privileged : ExpireGrant(p)
  \/ \E s \in Sales : UploadSale(s)
  \/ RotatePin \/ CloseOutlet \/ OpenOutlet

Next ==
  \/ Cashier
  \/ \E t \in Tabs : Flush(t)
  \/ \E c \in Commands \cup Calls : ServePost(c)
  \/ World

Spec == Init /\ [][Next]_vars

\* The tabs flush on their timer, a request is answered or given up, the
\* sales outbox drains (SalesSync) and a closed outlet is opened again.
Fairness ==
  /\ \A t \in Tabs :
       /\ WF_vars(StartFlush(t, FALSE))
       /\ WF_vars(ServeRow(t) \/ RefuseRow(t))
       /\ WF_vars(Confirm(t) \/ Halt(t))
  /\ \A s \in Sales : WF_vars(UploadSale(s))
  /\ WF_vars(OpenOutlet)

FairSpec == Spec /\ Fairness
-----------------------------------------------------------------------------
(* Properties *)

\* A refund, a movement, the void of a sale and the reversal of a movement are
\* booked at most once, however often they are sent: again after a lost
\* answer, by another tab, late, or asked for a second time.
BookedOnce ==
  \A i, j \in DOMAIN books :
    Same(books[i].event, books[i].by, books[i].of, books[j]) => i = j

\* An acknowledgment, and what the screen shows as refunded, void or paid
\* out, is in the books: "local state changes only after server
\* acknowledgement" (docs/security/compliance/financial-release.md).
ScreenTrue == \A c \in acks \cup recorded : Booked(c)

\* A cash-in and an approved refund are in the queue until they are booked,
\* whatever else is queued, confirmed or lost in the meantime.
KeptUntilBooked ==
  \A c \in Commands :
    \/ request[c] = Unasked
    \/ c \in asking
    \/ c \in Refunds /\ grant[c] = "none"
    \/ \E i \in DOMAIN outbox : outbox[i] = c
    \/ Booked(c)

\* Refunds of a sale never add up to more than its line, nor any part of them
\* to more than it was billed, though two of them may be queued on different
\* knowledge (two tabs, an answer not seen).
RefundsWithinSale == \A s \in Sales :
  /\ returned[s] <= Units
  /\ \A part \in DOMAIN Bill : refunded[s][part] <= Bill[part]

\* However a line is returned, unit by unit or at once, the rounded parts of
\* its refunds agree with their amounts, and in the end with the bill to the
\* last unit of money.
RefundsAddUp == \A s \in Sales :
  /\ refunded[s].amount = returned[s] * Price - refunded[s].discount
                            + refunded[s].tax + refunded[s].service
  /\ returned[s] = Units => refunded[s] = Bill

\* Once a sale is void its drawer rows cancel out, whatever refunds in cash
\* or by original method came before, and nothing is booked on it after.
VoidSettlesDrawer == \A s \in Sales : Voided(s) => drawer[s] = 0

\* What needs an approval is booked only with its audit row, and the approval
\* of a refund that was refused is not spent.
AuditMatchesBooks ==
  /\ \A i \in DOMAIN books :
       books[i].event # "CASH_IN" => books[i].by \in audit
  /\ \A r \in audit \cap Refunds : Booked(r)

\* An original-method refund never takes out of the drawer more than is left
\* of the sale's cash there ("mixed electronic refunds never fabricate cash
\* movement", finance.ts).
OriginalNeverOverdraws ==
  [][\A r \in Refunds, s \in uploaded :
       (request[r].event = "REFUND" /\ ~Booked(r) /\ Booked(r)')
         => \/ request[r].method = "CASH" \/ request[r].of # s
            \/ drawer'[s] = drawer[s] \/ drawer'[s] >= 0]_vars

\* A cash-in is ordered when it is added, any other command when it is approved.
Accepted(c) ==
  IF c \in Privileged THEN grant[c] # "none" ELSE request[c] # Unasked

\* The queue, its flushes, the approvals and the finance routes, however calls
\* are lost, repeated and overtaken, implement CashLedger.
Cash == INSTANCE CashLedger WITH
  Ids <- Commands \cup Calls,
  Orders <- Request,
  orders <- [c \in Commands \cup Calls |->
               IF Accepted(c) THEN request[c] ELSE Unasked],
  booked <- {<<books[i].event, IF books[i].event = "REFUND"
                               THEN books[i].by ELSE books[i].of>> : i \in DOMAIN books},
  sold <- uploaded,
  repaid <- [s \in Sales |-> refunded[s].amount],
  shown <- acks \cup recorded

CashPromise == Cash!Spec

Queued(c) == \E i \in DOMAIN outbox : outbox[i] = c

\* A queued command the server will refuse for ever: its approval is gone, or
\* its sale is void or has too few units left.
Doomed(c) ==
  c \in Refunds /\ (grant[c] = "dead" \/ (~Booked(c) /\ ~Refundable(c)))

\* What may hold up a queued command: the parked queue, which waits for a
\* forced flush, or a doomed command that is not behind it.
Held(c) ==
  \/ meta = "parked"
  \/ \E i, j \in DOMAIN outbox : i <= j /\ outbox[j] = c /\ Doomed(outbox[i])

\* Nothing else holds up the queue: retries of what was booked before pass,
\* an answer lost or late is made good.
QueueDrains == \A c \in Commands : Queued(c) ~> ~Queued(c) \/ Held(c)
=============================================================================
