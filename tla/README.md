# Kasir New Hope: verification project

Kasir New Hope is a point of sale that keeps selling when it is offline. A
browser tab (React, `src/src/`) records sales in `localStorage` and sends them
to a service (`src/services/`, Express over PostgreSQL) which books them,
counts the cash drawer, bills subscriptions and sells AI credits. This
directory holds TLA+ models of it, the TLC configurations that check them and
proofs for TLAPS.

    tlc -workers 2 -config MCSalesSync_oneTab.cfg MCSalesSync.tla
    tlc -workers 2 -config MCCashOutbox_commands.cfg MCCashOutbox.tla
    tlc -workers 2 -config MCSharedStateSync_devices.cfg MCSharedStateSync.tla
    tlc -workers 2 -config MCBilling_payments.cfg MCBilling.tla
    tlapm SalesSyncProofs.tla
    tlapm CashOutboxProofs.tla
    tlapm SharedStateSyncProofs.tla
    tlapm BillingProofs.tla
    tlapm CashRefinement.tla
    tlapm RegisterRefinement.tla
    tlapm PlanRefinement.tla

`PROJECT.json` lists the components, the runs, the mutants (a plausible bug per
property, which the property must catch), the source lines each definition
models, the findings, the hazards and the theorems.

## 1. Inventory

| Component | State it keeps | Operations | What makes it correct |
|---|---|---|---|
| Sales outbox (`src/lib/sync/queue.ts`) | queue, quarantine and last-flush meta in `localStorage`, one of each per business, shared by all tabs; a `flushing` set per tab | enqueue, flush, acknowledge, park, quarantine, requeue | nothing recorded is lost; a row leaves only when confirmed; the queue drains |
| Sales ingest (`services/pos/sync.ts`, `tenders.ts`) | transactions, payments, cash ledger, stock, receipts | one batch = one database transaction with a savepoint per sale; replay; voids | a sale is booked once; a rejected sale does not hurt the others; a void is final; a sale whose number is taken is booked under another |
| Cash and refund outbox (`src/lib/sync/financialQueue.ts`) | command queue in `localStorage` | enqueue (same id must have the same fingerprint), flush in order, stop at the first error | every command reaches the ledger once and in order |
| Finance ledger (`services/pos/finance.ts`) | refunds, cash movements, shifts | refund, cash in/out, reverse, open and close a shift | never refund more than was paid; the drawer equals what was paid in less what was paid out |
| Financial approvals (`services/pos/financialAuthorization.ts`) | PIN, 90 s grants, a failure window | set PIN, approve, consume | a grant authorises one command; its exact retry still passes |
| Shared operational state (`services/pos/sharedState.ts`, `src/lib/sync/sharedState.ts`) | on the server one row with a revision per record; on a device a copy of the rows, a durable outbox with one operation per record, conflict marks, the fingerprint of the last snapshot | edit, flush with a base revision, answer, poll, resolve, reload | no blind overwrite; an edit leaves the outbox only when it is taken; a copy is a row the server had; an edit refused by itself is shown |
| Billing (`services/billing/*`, `src/config/subscriptionPolicy.ts`) | the subscription with its revision and period, invoices with their quote, payment events, active outlets, the Free selection | open and close outlets, choose Free, quote, check out, webhook, verify, reconcile, extend a trial, grant a plan | a payment is applied once, to the subscription it was quoted on, or kept under review; what runs at a price keeps its receipt; paid time is not lost; the plan covers the outlets |
| AI wallet (`services/ai/wallet.ts`) | one row per business: balance, monthly grant, period | grant, reserve, refund, top up | the balance never goes below zero and a refund stays in its period |
| Gateway and breaker (`services/gateway`, `services/shared/breaker.ts`) | failure count, open/half-open | call through | an open breaker lets nothing through; it recovers |
| Refresh coordinator (`src/lib/sync/refreshCoordinator.ts`) | in-flight flag, pending flag, backoff | trigger, run, visibility change | one run at a time; a trigger during a run is not lost |
| Legacy migration (`src/lib/sync/legacyMigration.ts`) | holds, checkpoints | hold, acknowledge, release | old rows are sent once |
| POS front end (`src/context/POSContext.tsx`) | orders on screen | `processPayment`, `voidOrder` | its writes to the outbox come before the screen |

The other components (reports, service worker, privacy, assistant, reminders,
content management, user interface ...) are listed in `PROJECT.json` with the
reason they are left out: pure input/output, presentation, or read-only SQL.

How they interact. `POSContext.processPayment` writes the outbox and then the
order. `queue.flush` reads the outbox, posts a batch of one outlet and waits at
most 15 s; the answer is applied to the outbox *as it is then*. The batch is
identified by a key computed from its bytes, so the same rows sent again have
the same key. `sync.ts` first looks the key up in `pos.sync_receipts`, then
checks the outlet, then books row by row, each in a savepoint, and stores the
receipt in the same database transaction. `POSContext.voidOrder` goes around
the outbox: it is one request, sent at once, without an idempotency key.
Refunds and cash-ins go through a second outbox, `financialQueue`, which sends
one command per request, in order, and stops at the first error; `runSync`
flushes it after the sales. Refunds, voids, cash-outs and reversals first get a
90 s approval from the owner, which the finance routes consume in the same
database transaction that books the command.

The products, customers, tables and settings of a business are edited on any
device. `SharedStateSync` keeps one operation per record in a durable outbox and
posts them with the revision they were based on; polls bring whole snapshots,
and a fingerprint tells when there is nothing new. A flush and a poll may be in
flight together. Billing is one row per tenant that invoices, a webhook, a
status query, the owner's outlets and an operator all work on, each under a
lock on the tenant; an invoice carries the revision it was quoted on.

What is hard. A request or its answer is lost or late; a tab is closed between
two writes; another tab flushes the same outbox; a split bill gains a payment
while its older version is on its way; a void overtakes a later tender; two
devices print the same invoice number; two devices edit the same record, or one
edits it while its older edit is in flight; an answer overtakes a snapshot; a
payment arrives when the plan or the outlets have changed; the answer replayed to a batch was
computed in another world; one row of a batch fails. `hazards` in
`PROJECT.json` names each with its line and the properties that would catch it.

## 2. What is modelled

| Module | Models |
|---|---|
| `SalesIngest` | constant-level operators: what the server decides about one row (`SyncOne`, `RejectsSale`, `AddTenders`, `Voided`) and what it means for a ledger entry to add up (`BookedRight`) |
| `SalesSync` | the state machine: cashier, tabs, network, server, owner |
| `SalesLedger` | the abstract specification: payments are recorded, each is booked once and never after a void, a void gives the cash back once |
| `MCSalesSync` | the instances TLC checks |
| `SalesSyncProofs` | theorems and proofs about `SalesSync` |
| `CashOutbox` | refunds, voids and drawer movements: the command queue of a device, the approvals, the finance routes |
| `CashLedger` | the abstract specification of `CashOutbox`: an order has its effect once, a sale is never refunded past its bill nor after it is void, the drawer follows |
| `MCCashOutbox` | the instances TLC checks |
| `CashOutboxProofs` | theorems and proofs about `CashOutbox` |
| `CashRefinement` | the proof that `CashOutbox` implements `CashLedger` |
| `SharedStateSync` | the devices' outboxes and copies, and the server's rows |
| `SharedRegister` | the abstract specification of `SharedStateSync`: an optimistic register |
| `MCSharedStateSync` | the instances TLC checks |
| `SharedStateSyncProofs` | theorems and proofs about `SharedStateSync` |
| `RegisterRefinement` | the proof that `SharedStateSync` implements `SharedRegister` |
| `Billing` | one tenant's subscription: outlets, quotes, checkouts, notices, the operator; the payment gateway is external |
| `PlanLedger` | the abstract specification of `Billing`: a plan changes by a payment, applied once at a fair price, or by the operator |
| `MCBilling` | the instances TLC checks |
| `BillingProofs` | theorems and proofs about `Billing` |
| `PlanRefinement` | the proof that `Billing` implements `PlanLedger` |

The first two state machines meet in two places. `CashOutbox` takes from `SalesSync`
that a sale reaches the server at some time (`UploadSale`; that it does is
`QueueDrains` and `HealthySaleBooked` there), and both model the void: `SalesSync`
against late tenders, with the drawer as one unit per payment, `CashOutbox`
against refunds, with amounts. The other two touch them by a flag only: what
`Billing` and the outlets allow is `closed`, `open` and `access` there.

### SalesSync: state and code

| Variable | Code |
|---|---|
| `order`, `orderVoid` | the order the cashier sees: the number of payments recorded, void or not |
| `queue`, `ahead` | `newhope_sync_queue_<business>`: the version queued per sale, and the array order as a relation |
| `quarantine` | `newhope_sync_quarantine_<business>` |
| `meta` | `newhope_sync_meta_`: how the last flush ended; only "parked" keeps the next one from starting |
| `flight` | the local variables of the `flush` each tab is in |
| `requests`, `voids` | requests under way |
| `ledger` | one row of `pos.transactions`, its payments, cash ledger and stock movement per sale |
| `receipts` | `pos.sync_receipts` |
| `refusal`, `closed` | what the server would say to a sale or an outlet now (product mapping, plan, outlet status) |

A payload is its *version*, the number of payments the bill has. Every payload
of a bill lists all its tenders, so a newer version contains an older one; each
payment is one unit of cash and each sale one unit of stock. This is all that
idempotence, acknowledgement and tender merging tell apart: `ack` compares the
queued bytes with the sent bytes, which is comparing versions.

### SalesSync: actions and code

`RingUp`, `AddPayment` are `processPayment`; `RequestVoid` is `voidOrder`;
`Requeue` is `requeueQuarantined`, with the crash between its two writes.
`FlushStart`, `Ack`, `AckHalf`, `FlushRefused`, `FlushTimeout`, `TabCrash` are
`flush` up to its `await` and each way it goes on. `Replay`, `Book`,
`RefuseOutlet`, `RefuseBatch` are the ways `POST /api/v1/sync/transactions`
ends, in the order the handler tests them: receipt, outlet, rows. A batch fails
as a whole for a new sale that cannot be resolved (`FailsBatch`). `BookVoid` is
the void row of `syncOne` together with the answer. `Lose`, `LoseVoid` are a
lost request or an aborted transaction. `Repair`, `CloseOutlet`, `OpenOutlet`
are what an owner changes around the outbox.

Each action is one step where the code cannot be interrupted: a synchronous
block of one tab, or one database transaction. The database runs each request's
transaction with row locks and unique constraints, so requests are taken as
serial; an aborted transaction is a lost request. A tab's read-modify-write of
`localStorage` is one synchronous block and is one step here, although browsers
do not promise mutual exclusion between tabs (hazard list).

`requests` is a set: two identical batches of one tab under way at once are one
message. Sending it twice is covered by serving it, timing out and sending it
again. The answer reaches the tab only while it still waits for that very
batch: an `AbortController` ends the wait after 15 s, in `FlushTimeout`.

`StoresOutcomes` is a deployment fact: migration 0054 gives receipts a column
for rejected and renumbered rows; without it no receipt is stored when there
are any.

### SalesSync: bounds

`MaxPayments` is the only bound on data (two payments per split bill in the
runs): one payment is booked, then a newer version races it. Two sales, one
plain and one split, printed with the same number, are enough for the head of a
queue to hold up another sale, for a mixed batch and for an invoice collision.
In `oneTab` the bill is refused by itself and the plain sale fails its whole
batch, each until it is repaired, and the outlet may be closed, so every way a
request ends is met. `BatchSize` 2 allows both in a batch, 1 makes one wait.
One tab and two tabs are different promises of the code (see below); with two
tabs one split bill is enough, because what tabs disagree about is its version.
Nothing else is bounded: the rest of the state is finite by itself. Symmetry is
not used, since the sales, and in the liveness runs the tabs, are told apart.

`CHECK_DEADLOCK FALSE`: the cashier may stop selling with an empty outbox, and
then nothing has to happen. The same holds for the other modules: nobody has to
refund, edit or pay.

### CashOutbox: state and code

| Variable | Code |
|---|---|
| `request` | what the cashier asked for under each client id: a command keeps its id and its bytes when it is sent again |
| `asking` | `requestFinancialApproval` open on the screen, up to the answer of `/finance/approve` |
| `outbox`, `meta` | `newhope_cash_outbox_` and `newhope_cash_sync_meta_`, shared by the tabs |
| `flight` | the local variables of the `flushCashQueue` each tab is in: its snapshot of the queue and the state of the row in hand |
| `posts` | requests under way nobody in a flush waits for: direct calls, and rows given up after 15 s |
| `acks`, `recorded` | `newhope_refund_ack_`; refunds and calls applied to the orders and movements on screen |
| `books` | the rows of `pos.transaction_refunds` and `pos.cash_ledger` and the voids, in order, each with the key that makes it unique |
| `returned`, `drawer` | the units refunded of a sale, and the sum of its cash rows, as `applyRefund` and the void of `syncOne` read them |
| `grant`, `audit` | `pos.financial_approval_grants` and `pos.financial_authorization_audit` |
| `uploaded`, `open` | the sales the server has; the outlet's status |

`AddCashIn`, `AskRefund` and `AskCall` are `addCashMovement`,
`refundOrderItems`, `voidOrder` and `deleteCashMovement` up to their first
await, with the tests they make there; `Approve` and `Decline` are how they go
on, `RecordRefund` the end of `refundOrderItems`. `StartFlush`, `Confirm`,
`Halt` and `Lose` are `flushCashQueue` between its awaits. `ServeRow`,
`RefuseRow` and `ServePost` are one request of a finance route or of the void:
`Admits` collects the tests in the order the routes make them, `Apply` consumes
the approval, audits it and books the command in one database transaction.
`ExpireGrant` is the 90 s passing, `RotatePin` the route that deletes all
grants.

A sale is one line of `Units` units at `Price`, with a `Discount`, a `Tax` and a
`Service` charge, of which `CashPaid` was tendered in cash; a refund names a
number of units and a method. `refunded` is the sum of its rows in
`pos.transaction_refunds`, part by part. `RefundParts` computes a refund as
`applyRefund` does: each part rounded by itself and cut to what is left, and
what is left for the last. Money is counted in its smallest unit, so `Rounded`
is the code's `money`. A sale counts as fully paid once it is uploaded.
Fingerprints are the identity of the command, since `request` never changes.

Bounds. `Budget` says how often each kind of trouble may happen: a lost or late
request or answer, an expired grant, a rotated PIN, a closed outlet. The runs
allow one of each kind they study, which is enough for a retry to meet what it
retries. Two tabs, two refunds of one sale and a cash-in make the snapshot of
one tab stale in each way the queue can change; two direct calls make a void or
a reversal be asked for twice. `commands` takes a sale of two units at price 2
with a discount of 1 and a tax of 1, so that half of either cannot be returned
without rounding, and half of the total in cash, so that a cash refund can leave
less in the drawer than an original-method refund would take; neither its tabs
nor its refunds are told apart, and it uses the symmetry of both (it checks no
liveness). `drawer` is about answers, grants and the drawer, not about parts of a
sale, and takes a sale of one unit.

### SharedStateSync: state and code

| Variable | Code |
|---|---|
| `history` | `pos.shared_state_records`: the values a row has had; its length is `revision` |
| `access` | what plan and outlets allow: everything, everything but products (no active outlet), or no write at all (a read-only plan, or a Free plan chosen for another business or outlet) |
| `late` | requests the server may still get although their client gave up or was closed |
| `remote` | the map `remote`: the device's copy of the rows, cached as baselines |
| `pending` | the map `pending` and its `localStorage` key: base revision and value |
| `conflicts` | the map `conflicts`: an operation held back, as a conflict or refused by the outlet or the plan |
| `ready`, `known` | a snapshot was hydrated; its fingerprint (`versions`) |
| `post` | the local variables of the `flush` in flight; `mine` is `pending.get(key)===sent` |
| `poll` | the newest `refresh` in flight; `readGeneration` makes an older one count for nothing |

A value is the whole JSON value of a record or its tombstone. `over` in an
operation is not in the code: it remembers the value the author of the edit saw,
so that `NoBlindOverwrite` can be said. The fingerprint is the vector of the
revisions, because a trigger changes it with every write.

`Edit` is `track` with `queue`, `Flush` the timer of `schedule`, `Ack` the code
after the answer of `flush` and `FlushFails` its `catch`; `Refresh`,
`ReceiveUnchanged`, `ReceiveSnapshot` and `PollFails` are `refresh`, `Resume`
`resumeAfterOutletUpdate`, `Resolve` `resolveConflict`, `Reload` a closed tab
with or without `restoreOffline`. `ServePost` and `ServeLate` are one
transaction of the POST route, with a savepoint for each operation (`Applies`,
`Replays`, `Refused`), `ServePoll` the GET route. An answer that starts another
flush or refresh does so in the same step, as the code does.

The POST route may also refuse a request as a whole (`Servable`): the plan
refuses every write, an unfit product fails `validOperations` before anything is
written, and an unfit customer throws inside the transaction an error the
savepoint's handler passes on, so that the other operations are rolled back with
it. The forms of the device do not test what the server does (a name of blanks,
for example): `Unfit` names such values. `FlushRefused` is what the client makes
of it: only `error` is set, nothing is held back, and the next refresh sends the
same operations again. Two answers that carry no rows, such a refusal and an
"unchanged" poll, are served and received in one step; received late, they do
what a failed request does.

Bounds. `MaxEvents` counts edits, lost requests and reloads of each device: two
on the one, one on the other, so that an edit can meet its own older edit, a
lost answer and the other device's write. One record is enough for everything
but a request with several answers, which the proofs cover for any number. The
runs use a product, which an outlet can block, and a table, which it cannot. The
product has three values, of which one is unfit.

### Billing: state and code

| Variable | Code |
|---|---|
| `now` | the clock, in units of the shortest period |
| `sub` | the row of `billing.subscriptions`: plan with its cycle and extra outlets (`offer`), status, period, `recurring_amount`, `revision` |
| `active`, `selection` | active rows of `internal.outlets`; `free_selection.branchId` |
| `invoices` | `billing.invoices` by checkout key: `payment_status` and `reconciliation_status` together, and the stored quote |
| `requests` | where the handler of a checkout is, between its awaits |
| `gateway` | what became of the order at the gateway: unpaid, paid as asked, paid with another amount, or through a channel that is not approved |
| `events` | the keys in `billing.payment_events`: of a payment's webhooks and of its inquiry |
| `told` | invoices of which `verify` has answered `paid: true` |

`OpenOutlet`, `CloseOutlet`, `ChooseFree` are the outlet and Free routes with
their tests of access and capacity. `AskQuote`, `Persist`, `Checkout`,
`CheckoutFails` are the checkout handler between its awaits: the subscription
may change between the quote and the insert. `Reconcile` is `reconcilePayment`,
one transaction under the tenant's lock; `NotifyPaid`, `NotifyFailed` are the
webhook, `VerifyPaid`, `VerifyInquiry` the two ways of `verify`. The webhook's
amount and channel are compared with the invoice. An inquiry takes amount and
currency from the invoice itself (`routes.ts:176`), so a payment of another
amount is applied there, and its event key is the invoice and the transaction,
so a second one is a duplicate (`Repeated`). `ExtendTrial` and `GrantPlan` are the
operator's routes; `Pay` is the customer at the gateway.

Bounds. `MaxTime` ends the clock and `MaxRevision` the operator's overrides (one
each in `payments`). Two invoices race each other, the operator and two outlets;
`large` covers two outlets and lasts twice as long as `small`, so a change costs
capacity in one direction and credit in the other. `prepaid` takes three
invoices: bought, renewed, changed. Keys and outlets are symmetric.

### What the abstract specifications say

Each component has one that a reader can take in at a glance, and the promise
that it is implemented says more than the single properties do.

`SalesLedger` (`LedgerPromise`): payments, their bookings and voids.

`CashLedger` (`CashPromise`) has no queue, flush or request. `orders` is what
was asked for and, if it is privileged, approved (`Accepted`); `booked` names an
effect by what makes it unique in the database (a refund by its id, a void or a
reversal by what it undoes), so that two orders of one effect book once. Each
effect changes units, money given back and the drawer together: no refund after
the void, the whole bill with the last unit, all of a cash refund out of the
drawer, and what the screen shows is booked. A reversal needs the movement it
undoes to be booked first.

`SharedRegister` (`RegisterPromise`) has no posts, polls, conflicts or reloads. A
device has a copy and a draft per record. A draft remembers the version its
author saw first, and no edit moves it; `Exchange` may move it, to the version the
device then shows and no other. It is written over exactly that version, and goes
only when the server has its value or the owner gives it up. That the move is
not a silent one, over a value its author never saw, is not said here but by
`NoBlindOverwrite`.
`sent` is what may still arrive: the request in flight and the late ones.

`PlanLedger` (`PlanPromise`) has no quotes, checkouts or invoices. A payment the
server is told of, made through an approved channel, is applied at once or not at
all, once, at the price of its plan less a credit that is at least what is left of the running period and at
most what the period cost; a renewal joins the period's end. Under a bought or granted plan
outlets open only while it runs and covers them. The operator changes neither the dates
nor the price of a running plan. `charged` is what each applied payment paid.

### Runs

| Run | Instance | What it shows |
|---|---|---|
| `oneTab` | 1 tab, 2 sales with one number, the bill refused and the plain sale failing its batch until repaired, the outlet closed and reopened | with one tab nothing recorded is lost (`NeverLost`); each sale is booked once (`BookedOnce`); stored answers stay true (`ReceiptsTrue`); rows leave the queue only when confirmed (`DropsOnlyConfirmed`); a void is final (`VoidIsFinal`); the whole implements `SalesLedger` (`LedgerPromise`) |
| `twoTabs` | 2 tabs, the bill refused until repaired, one row per request, no stored outcomes, fairness | some version of each sale is kept somewhere (`SaleKept`), the ledger is as right as with one tab, the queue always empties (`QueueDrains`), and a repaired sale that is sent again is booked (`HealthySaleBooked`) |
| `storedRejection` | one tab, the bill repaired, stored outcomes | **violated**: the receipt of the first rejection is replayed |
| `batchRefused` | a sale that fails its request, before the sale of another outlet | **violated**: the other sale is never booked |
| `twoTabsLost` | 2 tabs, the bill refused | **violated**: `NeverLost` fails with two tabs |
| `commands` | 2 tabs, 2 refunds of a sale and a cash-in, one request or answer lost or late, the PIN rotated, the outlet closed for a time | nothing is booked twice (`BookedOnce`), dropped unbooked (`KeptUntilBooked`) or refunded beyond the sale (`RefundsWithinSale`), rounded refunds add up to the bill (`RefundsAddUp`), the screen is true (`ScreenTrue`), an original-method refund never overdraws the sale's cash (`OriginalNeverOverdraws`) |
| `drawer` | 1 tab, a refund, a cash-in, two direct calls, a sale of one unit, one request or answer lost, a grant expires, fairness | one booking for what is asked for twice, a void settles the drawer (`VoidSettlesDrawer`), audit and books agree (`AuditMatchesBooks`), the whole implements `CashLedger` (`CashPromise`), a queued command waits for ever only behind a parked queue or a refund that is refused for good (`QueueDrains`) |
| `devices` | 2 devices, 1 product with an unfit value, the outlet and the plan come and go, fairness | copies are rows the server had (`CopiesTrue`), nobody writes over what he did not see (`NoBlindOverwrite`), an edit leaves the outbox only when taken or given up (`DropsOnlyTaken`), the whole implements `SharedRegister` (`RegisterPromise`), and an edit is at last taken or shown as held back, unless whole requests are refused (`EditSettles`) |
| `overtaken` | 2 devices, 1 table, one edit each | **violated**: a device stays behind the server for ever (`Converges`) |
| `payments` | 2 invoices, 2 outlets, the operator | two payments are never applied to one state of the subscription (`PaidApart`), none is lost from sight, no plan is given without one and one of another amount only after an inquiry (`PaymentsAccounted`), the period that runs at a price keeps its applied invoice (`PeriodBacked`), the plan covers the outlets (`PaidOutletsCovered`), a running period is not cut short uncredited (`PaidTimeKept`), the whole implements `PlanLedger` (`PlanPromise`) |
| `reviewTold` | 1 invoice | **violated**: an invoice under review is told as paid when it is verified twice (`PaidOnlyApplied`) |
| `prepaid` | 3 invoices, no outlets, no clock | **violated**: a change after an early renewal credits one period of two (`PrepaidKept`) |

### Fairness

`FairSpec` assumes that each tab keeps flushing on its timer (`setInterval` and
each sale call `flush`), that a wait ends (the 15 s abort), that an error answer
is handled, and, strongly, that a batch sent again and again is at last served
while its tab waits and that the answer is at last applied: the network and the
tab are not always down. Nothing is assumed of voids, repairs, crashes or the
owner. `RetrySpec` adds a cashier who keeps using the two buttons of the Sync
Center, send again what is set aside and flush a parked queue; it is used for
what the code promises about a sale that is repaired, and with it for what it
promises about the queue. The violations hold even under it.

`CashOutbox!FairSpec` assumes that each tab keeps flushing (`runSync` on its
timer), that a request is answered or given up, that an answer is handled, that
the sales outbox brings its sales, and that a closed outlet is opened again.
Nothing is assumed of the cashier, of approvals or of late requests.

`SharedStateSync!FairSpec` assumes that a refresh follows the last one (the
coordinator's timer), that a flush is served or refused and handled while the
device waits (weakly: a flush that fails is an event the bound counts, and the
answer is handled by the tab's event loop), and, strongly, that a refresh is at
last served and its answer received although a new refresh supersedes the one in
flight again and again. Nothing is assumed of the user,
of the outlets or of the plan. The
violation `overtaken` holds even so.

`Billing` states safety only: its gateway may be silent for ever, and nothing in
the code makes an owner ask.

### Findings

1. *A stored rejection is replayed* (`storedRejection`). The quarantine's
   comment says rows are sent again after the mapping is repaired. The row's
   bytes are unchanged, so a batch of the same rows has the same key, and the
   receipt answers with the old rejection without looking at the data.
2. *One sale can hold the queue* (`batchRefused`). `sync.ts` says one bad sale
   must never hold every later sale hostage; an error that is not mapped to a
   per-sale rejection (the product limit) fails the request, and the next flush
   begins with the same row, and with its outlet: the sales of another outlet
   wait too.
3. *Two tabs can lose a payment* (`twoTabsLost`). The guard against concurrent
   flushes is per tab, the stores are shared: a late rejected answer overwrites
   the newer version that another tab has set aside.
4. *A second inquiry calls a payment under review paid* (`reviewTold`). The
   comment of `verify` says that an invoice under review stays pending. The first
   inquiry of a payment through a channel that is not approved records its event
   and puts the invoice under review; the second finds the event, gets
   `DUPLICATE`, and answers `paid: true`.
5. *A device can stay behind the cloud* (`overtaken`). The answer to a flush
   that arrives after the snapshot of a later poll sets the copy back to the row
   the flush wrote; the fingerprint of the newer snapshot stays, so every later
   poll is answered "unchanged". The next write to a record of the kind, or a
   reload, ends it. The copy is still a row the server had (`CopiesTrue`), so an
   edit made on it ends in a conflict and not in a lost update.
6. *An early renewal is lost at a change of plan* (`prepaid`). The comment of
   `billingQuote` promises credit for what remains of the amount contracted. A
   renewal before the end stores a period that begins in the future; the
   fraction is cut to 1, so only the renewed period is credited.

Three behaviours are listed with the hazards and have no run, because no line of
the repository promises otherwise. A refund that waited longer than its 90 s
grant is refused for ever, and `flushCashQueue` begins with it again and again,
so the commands behind it wait (`QueueDrains` excludes them). A request for
shared records that is refused as a whole marks none of its edits: while the plan
is read-only, or an unfit record is in the outbox, they wait with only the error
shown (`EditSettles` excludes this, by `Stopped`). An inquiry does not see the
amount paid, so a payment of another amount is applied; `engine.ts:156` says that
a mismatch never grants access, but stands at the mismatches `reconcilePayment`
is shown (`PaymentsAccounted` says that an inquiry is the only way).

## 3. What is proved

### SalesSyncProofs

Proved for every set of sales, tabs, outlets, every batch
size, every number of payments and every way sales are refused, from
`SalesAssumption` and `SyncAssumption` (the types of the constants, and that a
sale without a tender list has one payment):

- `TypeCorrect`, `BookedOnceHolds`, `ReceiptsTrueHold`: invariants;
- `VoidIsFinalHolds`, `DropsOnlyConfirmedHolds`: action properties;
- `SaleKeptHolds`: with any number of tabs some version of a recorded sale is
  queued, in the quarantine or booked;
- `NeverLostHolds`: with one tab the newest version is;
- `LedgerPromiseHolds`: `SalesSync` implements `SalesLedger`.

The argument. `IInv` is `TypeOK /\ Recorded /\ BookedOnce /\ ReceiptsTrue /\
AnswersTrue`. `BookedOnce` is not inductive alone: a batch under way could
carry payments never taken. `Recorded` says that no copy of a sale (queue,
quarantine, flight, request) is ahead of the order, which only grows.
`ReceiptsTrue` stays true because booked payments are never lost
(`SyncOneRight`, `VoidedRight`), and `AnswersTrue` carries it to the answer a
tab holds, which is what makes dropping a row safe. One lemma per actor
(`CashierInv`, `FlushInv`, `ServeInv`, `OtherInv`) proves that a step keeps
`IInv`; `BookOutcomes` says once what a booked batch does to each sale and is
used by the invariant, the void property and the refinement.

`NeverLost` needs one tab (`Tabs = {t}`) and more: that the answer a tab applies
cannot set an older version over a newer one. `OldRowsSpare` says that an older
version of a sale is in the queue or in the tab's batch only while the newest
one is queued or booked; with two tabs it fails, which is finding 3.

### CashOutboxProofs

Proved for every set of sales, refunds, movements, calls and tabs, every price,
number of units, discount, tax, service charge and cash share, and any budget of troubles, from
`CashAssumption` (the types of the constants, and that ids of different kinds
differ): `TypeCorrect`, `BookedOnceHolds`, `ScreenTrueHolds`,
`KeptUntilBookedHolds`, `RefundsWithinSaleHolds`, `RefundsAddUpHolds`,
`VoidSettlesDrawerHolds`, `AuditMatchesBooksHolds` and the action property
`OriginalNeverOverdrawsHolds`.

The argument. `IInv` joins `TypeOK`, the properties of the books and those of
the device, and adds what makes them inductive: whatever is under way was asked
for (`Known`: an admitted command has a kind and an amount), no approval exists
before it is asked for (`GrantsAsked`: a refund given up at the dialog was never
granted, so it need not be in the queue), the ok answer a tab holds is true
(`AnswersTrue`: removing the row is safe), and only a sale the server has can
be void (`VoidsKnown`: its cash cannot arrive after the void). `BooksGrow` and
`RequestsKept` say that books are only appended to and a request never changes,
so what is booked stays booked (`BookedStays`). A step either books nothing
(`Quiet`) or serves one admitted command (`Served`); `BookRight` shows that the
latter keeps the books right, `FlushFrame` and `WorldFrame` that the former keep
the device right, and each action is then shown to be an instance of one.
`WithoutRight` is the lemma about the queue: removing a confirmed command loses
no other.

`RefundsAddUp` is kept because each part of a refund lies between nothing and
what is left of it, and the last refund takes exactly what is left.

### CashRefinement

`CashPromiseHolds`: `CashOutbox` implements `CashLedger`, from the same
assumptions.

The argument. The refinement needs two facts the invariant of `CashOutboxProofs`
leaves open, proved as `UnderWayApproved`: `Agreed`, that a refund in a queue, a
flush or a request and a call on its way have an approval, perhaps spent or
expired, so that what is served was ordered; and `PaidBack`, that the refunds of
a sale sum to no less than nothing. A step that books nothing is a stutter,
`Accept` (an approval given, or a cash-in added) or `Show`. A step that
books one admitted command is `Refund`, `Void` or `Move`, by its kind, and a
command already booked leaves the books alone: `Admits` passes a replay, and
`Apply` books nothing for it. `Effects` grows by one element since `BookedOnce`
and the code's own keys agree on what is the same effect. That a refund keeps to
its bill comes from the arithmetic lemmas of `CashOutboxProofs`.

### SharedStateSyncProofs

Proved for every set of devices, records and values and any bound on events,
from the assumptions on the constants: `TypeCorrect`, `CopiesTrueHolds`, and the
action properties `NoBlindOverwriteHolds` and `DropsOnlyTakenHolds`.

The argument. Histories only grow, so whatever was true of a row at a revision
stays true (`Grows`). `IInv` is `TypeOK` and `Truth`: every copy and every
snapshot under way names a row the server had (`Copies`, `Snapshots`), every
operation in an outbox, a flush or a late request was based on one and remembers
its value (`Outboxes`, `Posts`, `Lates`), an answer under way names the revision
at which the operation's value is (`Answers`), and an operation that is still
`mine` is the one sent, or settled meanwhile (`Mine`). The last is what makes
`Ack` safe: a newer edit is not dropped with the one that was sent, and it is
re-based on the value its author saw. One lemma per group of actions proves that
a step keeps `Truth`; the two action properties follow from it.

### RegisterRefinement

`RegisterPromiseHolds`: `SharedStateSync` implements `SharedRegister`, from the
same assumptions.

The argument. No invariant beyond `IInv` is needed. Every action of a device is
`Edit`, `GiveUp`, `Exchange` or a stutter, every action of the server `Write` or
a stutter; closing an outlet, a fingerprint, a conflict mark and a failed poll
are invisible. An answer and a snapshot move copies to versions there were
(`Copies`, `Snapshots`, `Answers` of `SharedStateSyncProofs`), and `DropsTaken`,
which `DropsOnlyTaken` uses too, says why the draft they drop was taken. What a
flush puts on its way is what the outbox holds after the step, and a flush given
up only moves its operations to the late requests.

### BillingProofs

Proved for every set of offers, outlets and checkout keys, every price, period
and capacity, any clock and any number of overrides, from the assumptions on the
constants: `TypeCorrect`, `PaidApartHolds`, `PaymentsAccountedHolds`,
`PeriodBackedHolds`, `PaidOutletsCoveredHolds` and the action property
`PaidTimeKeptHolds`.

The argument. A quote whose revision is the subscription's was made on this very
state, at some earlier time: its credit is then at least what is left of the
period (`UnusedFalls`), and its start is the period's end or no later than now.
A quote of an older revision is never applied. This is what `RequestsRight` and
`InvoicesRight` say of a quote under way and of a stored one, and `SubRight` of
the subscription's own period and price. An applied invoice has an older
revision than the subscription has now, since applying it raised it; with this
`PaidApart` is inductive. `PeriodBacked` needs besides that a trial costs nothing
(`Backed`): an applied invoice stays applied (`ReceiptsKept`), and every step
keeps a priced period as it is, replaces it by one just bought, or makes it cost
nothing (`SamePeriod`). `HonestKept` keeps the quotes right through every
change of the subscription, `ReconcileKeeps` is the one proof about
`reconcilePayment` the webhook and both ways of `verify` use.

### PlanRefinement

`PlanPromiseHolds`: `Billing` implements `PlanLedger`, from the same assumptions.

The argument. `BillingProofs` shows that an applied quote was made on this very
state of the subscription and credits enough. The ledger also bounds what is
credited from above, and `FairInv` (`QuotesFair`) adds it: every quote and every
invoice asks for more than nothing, one that fits the subscription as it is
joins a renewal to the period at full price or starts a change no later than now
with a credit of at most what the period cost, and an applied invoice was told
of. It is inductive because a quote of an older revision promises nothing and
time only makes `start <= now` truer; `UnusedAtMost` bounds the credit when it
is quoted. A webhook or a status query is then `Receive`, which applies the
payment exactly when `Reconcile` does; a second look at a paid invoice is
`Tell`; checkouts and failures are stutters.

### Only model-checked

The liveness properties (`QueueDrains` of both queues, `HealthySaleBooked`,
`EditSettles`), which need fairness and ENABLED. Every safety property of a
passing run is proved, and so is that each component implements its abstract
specification. That a violation is reached (the six findings) is shown by TLC's
behaviours, which need no proof.

## 4. Not modelled

Within the sales path: rows without a payload and the legacy queue, refunds
carried by a batch (they end in `applyRefund`, which `CashOutbox` models),
onboarding and catalogue routes, the idempotency key's hash (equal keys are
equal batches), the bounds of localStorage other than a failed write
(`AckHalf`). On the Free plan a row of another cashier than the owner fails its
batch even when it is a duplicate (`FREE_OWNER_ONLY`); `FailsBatch` looks at new
sales only, which is the same while a refused sale is not booked before its
refusal is repaired.

Within the cash path: shifts, reconciliation reads, the stock a refund puts
back, the PIN's failure window, cash-ins reversed on other devices, rows of the
legacy migration, and the `runSync` that precedes a refund or a void. It is not
a guard here: the model allows more orders than the screen does. A shift is a
summary of booked rows taken at one moment; that another device's unsent sales
are not in it is in the hazard list.

Within the shared state: records in quarantine and the import of legacy ones,
the owner and sector checks (`WRONG_SCOPE`), byte and count limits, the
projections into the catalogue and the customers, and two tabs of one browser,
which share an outbox key and not the map in memory (hazard list). The pages of
a snapshot are one answer; a split by a write in between is a poll that fails. An
operation refused by itself is held back as `OUTLET_SETUP_REQUIRED` is, whatever
the code; that a violated constraint (`INVALID_OPERATION`) marks an edit which
opening an outlet does not release is left out. `resolveConflict` gives up when
its refresh ends in an error; the model lets `Resolve` happen at any time.

Within billing: invoices without a quote, payment notes, suspension and
reminders. `start-trial` never writes, because every subscription is born as a
used trial. An extended trial counts no outlets (hazard list). A webhook
delivered again under the same request-id changes nothing and is no step; under
another one it is reconciled anew (`NotifyPaid` again), and `events` remembers
only that there was one. The gateway's answer to an inquiry
is a payment made or nothing; an inquiry repeated with other bytes than the
recorded ones is refused, and `VerifyInquiry` allows for it.

Not modelled at all: the AI wallet (single statements on one row; a hazard of
their order is listed), the gateway's breaker (one object of three fields; an
answer that is late resets a probe of a later one, see the hazards), the refresh
coordinator (timers and DOM events that decide when the refreshes and flushes
run that the models let run at any time), the legacy migration (a one-time
import), commissions and reports (arithmetic on one order, read-only SQL), the
assistant and its intents (text), authentication (the models take the verified
principal as given), and the user interface. The bundles under `src/api/` are
generated from the code in `src/services/`; the largest of the remaining files
are screens.
