------------------------------ MODULE SalesSync ------------------------------
(***************************************************************************)
(* The sales outbox of a cashier's browser and the server that books what  *)
(* it sends.  src/lib/sync/queue.ts keeps the unsent sales of a business   *)
(* in localStorage, shared by every tab; each tab flushes on its own       *)
(* timer.  services/pos/sync.ts books a batch in one database transaction  *)
(* and remembers the answer under the batch's idempotency key.             *)
(*                                                                         *)
(* A request or its answer may be lost or late, a tab may be closed at any *)
(* point, and a batch may be sent again by the same tab or by another.     *)
(***************************************************************************)
EXTENDS SalesIngest, FiniteSets

CONSTANTS
  Tabs,            \* browser tabs open on the same business
  Outlets,
  OutletOf,        \* [Sales -> Outlets]: branchId of the sale
  Closable,        \* outlets the owner may deactivate and reactivate
  BatchSize,       \* rows per request
  InitialRefusal,  \* [Sales -> Refusal]
  Repairable,      \* sales whose cause of refusal may be repaired
  StoresOutcomes   \* migration 0054 is applied: receipts carry outcomes

ASSUME SyncAssumption ==
  /\ OutletOf \in [Sales -> Outlets]
  /\ Closable \subseteq Outlets
  /\ BatchSize \in Nat \ {0}
  /\ InitialRefusal \in [Sales -> Refusal]
  /\ Repairable \subseteq Sales
  /\ StoresOutcomes \in BOOLEAN

VARIABLES
  order,       \* the order as the cashier sees it: payments recorded
  orderVoid,   \* sales the cashier's screen shows as void
  queue,       \* newhope_sync_queue_: version queued per sale, 0 for none
  ahead,       \* array order of the queue: <<s, u>> when s precedes u
  quarantine,  \* newhope_sync_quarantine_: version set aside per sale
  meta,        \* newhope_sync_meta_: how the last flush ended
  flight,      \* the flush each tab is in
  requests,    \* batches under way to the server
  voids,       \* void commands under way to the server
  ledger,      \* pos.transactions with payments, cash and stock
  receipts,    \* pos.sync_receipts
  refusal,     \* why the server refuses a sale now
  closed       \* outlets not active now

device  == <<order, orderVoid>>
outbox  == <<queue, ahead, quarantine, meta>>
network == <<flight, requests, voids>>
server  == <<ledger, receipts>>
setting == <<refusal, closed>>
vars    == <<order, orderVoid, queue, ahead, quarantine, meta, flight,
             requests, voids, ledger, receipts, refusal, closed>>

Load == [Sales -> Version]     \* a batch, or the rows of a local store
Empty == [s \in Sales |-> 0]
Rows(load) == {s \in Sales : load[s] # 0}

Idle == [phase |-> "idle", batch |-> Empty, rejected |-> {}]
Flight == [phase : {"idle", "sent", "answered", "refused", "parked"},
           batch : Load, rejected : SUBSET Sales]
Request == [tab : Tabs, batch : Load]
Receipt == [key : Load, rejected : SUBSET Sales]

TypeOK ==
  /\ order \in Load
  /\ orderVoid \in SUBSET Sales
  /\ queue \in Load
  /\ ahead \in SUBSET (Sales \X Sales)
  /\ quarantine \in Load
  /\ meta \in {"ok", "failed", "parked"}
  /\ flight \in [Tabs -> Flight]
  /\ requests \in SUBSET Request
  /\ voids \in SUBSET Sales
  /\ ledger \in [Sales -> Entry]
  /\ receipts \in SUBSET Receipt
  /\ refusal \in [Sales -> Refusal]
  /\ closed \in SUBSET Closable

Init ==
  /\ order = Empty
  /\ orderVoid = {}
  /\ queue = Empty
  /\ ahead = {}
  /\ quarantine = Empty
  /\ meta = "ok"
  /\ flight = [t \in Tabs |-> Idle]
  /\ requests = {}
  /\ voids = {}
  /\ ledger = [s \in Sales |-> Absent]
  /\ receipts = {}
  /\ refusal = InitialRefusal
  /\ closed = {}

-----------------------------------------------------------------------------
(* The outbox array *)

\* enqueue: the row of the same sale is replaced in place, a new one is
\* pushed at the end.
Enqueue(s, v) ==
  /\ queue' = [queue EXCEPT ![s] = v]
  /\ ahead' = IF queue[s] = 0 THEN ahead \cup (Rows(queue) \X {s}) ELSE ahead

\* The queue without the rows not in keep.
Prune(keep) ==
  /\ queue' = [s \in Sales |-> IF s \in keep THEN queue[s] ELSE 0]
  /\ ahead' = ahead \cap (keep \X keep)

\* The outlet of the first row.
FirstOutlet ==
  LET first == CHOOSE s \in Rows(queue) :
                 \A u \in Rows(queue) : <<u, s>> \notin ahead
  IN  OutletOf[first]

\* The first BatchSize rows of that outlet.
NextBatch ==
  LET same == {s \in Rows(queue) : OutletOf[s] = FirstOutlet}
      within(s) == Cardinality({u \in same : <<u, s>> \in ahead}) < BatchSize
  IN  [s \in Sales |-> IF s \in same /\ within(s) THEN queue[s] ELSE 0]

-----------------------------------------------------------------------------
(* The cashier *)

\* processPayment, first payment: the outbox is written before the order.
RingUp(s) ==
  /\ order[s] = 0
  /\ Enqueue(s, 1)
  /\ order' = [order EXCEPT ![s] = 1]
  /\ UNCHANGED <<orderVoid, quarantine, meta, network, server, setting>>

\* processPayment on an order that already has tenders.
AddPayment(s) ==
  /\ order[s] > 0
  /\ order[s] < Payments[s]
  /\ Enqueue(s, order[s] + 1)
  /\ order' = [order EXCEPT ![s] = @ + 1]
  /\ UNCHANGED <<orderVoid, quarantine, meta, network, server, setting>>

\* voidOrder: sent at once, outside the outbox and without idempotency key.
RequestVoid(s) ==
  /\ order[s] > 0
  /\ s \notin orderVoid
  /\ voids' = voids \cup {s}
  /\ UNCHANGED <<device, outbox, flight, requests, server, setting>>

\* Mutant of Requeue: the quarantine is cleared, the queue never written.
RequeueClearsOnly(s, wholly) ==
  /\ quarantine[s] # 0
  /\ quarantine' = IF wholly THEN [quarantine EXCEPT ![s] = 0] ELSE quarantine
  /\ UNCHANGED <<device, queue, ahead, meta, network, server, setting>>

\* requeueQuarantined: the queue is written first; the tab may die before
\* the quarantine is (wholly = FALSE).
Requeue(s, wholly) ==
  /\ quarantine[s] # 0
  /\ IF queue[s] = 0 THEN Enqueue(s, quarantine[s])
                     ELSE UNCHANGED <<queue, ahead>>
  /\ quarantine' = IF wholly THEN [quarantine EXCEPT ![s] = 0] ELSE quarantine
  /\ UNCHANGED <<device, meta, network, server, setting>>

-----------------------------------------------------------------------------
(* flush *)

\* The batch is read and sent.  A queue parked by OUTLET_SETUP_REQUIRED
\* waits for a forced flush (Sync Center, page load); any other failure only
\* delays the next attempt.
FlushStart(t, force) ==
  /\ flight[t].phase = "idle"
  /\ Rows(queue) # {}
  /\ force \/ meta # "parked"
  /\ flight' = [flight EXCEPT ![t] =
                  [phase |-> "sent", batch |-> NextBatch, rejected |-> {}]]
  /\ requests' = requests \cup {[tab |-> t, batch |-> NextBatch]}
  /\ UNCHANGED <<device, outbox, voids, server, setting>>

\* Mutant of Quarantined: rejected rows are not set aside.
QuarantinedNone(t) == quarantine

\* The rejected rows of an answered batch go to the quarantine, over an
\* older row of the same sale.
Quarantined(t) ==
  [s \in Sales |-> IF flight[t].batch[s] # 0 /\ s \in flight[t].rejected
                   THEN flight[t].batch[s] ELSE quarantine[s]]

\* Mutant of Ack: every row whose id was sent is dropped, whatever it has
\* become since.
AckById(t) ==
  /\ flight[t].phase = "answered"
  /\ quarantine' = Quarantined(t)
  /\ Prune({s \in Rows(queue) : flight[t].batch[s] = 0})
  /\ meta' = "ok"
  /\ flight' = [flight EXCEPT ![t] = Idle]
  /\ UNCHANGED <<device, requests, voids, server, setting>>

\* The answer arrived: only rows still as they were sent are dropped.
Ack(t) ==
  /\ flight[t].phase = "answered"
  /\ quarantine' = Quarantined(t)
  /\ Prune({s \in Rows(queue) : flight[t].batch[s] # queue[s]})
  /\ meta' = "ok"
  /\ flight' = [flight EXCEPT ![t] = Idle]
  /\ UNCHANGED <<device, requests, voids, server, setting>>

\* The tab dies, or the disk is full, between the quarantine write and the
\* queue write.
AckHalf(t) ==
  /\ flight[t].phase = "answered"
  /\ quarantine' = Quarantined(t)
  /\ meta' \in {meta, "failed"}
  /\ flight' = [flight EXCEPT ![t] = Idle]
  /\ UNCHANGED <<device, queue, ahead, requests, voids, server, setting>>

\* An error answer.
FlushRefused(t) ==
  /\ flight[t].phase \in {"refused", "parked"}
  /\ meta' = IF flight[t].phase = "parked" THEN "parked" ELSE "failed"
  /\ flight' = [flight EXCEPT ![t] = Idle]
  /\ UNCHANGED <<device, queue, ahead, quarantine, requests, voids, server,
                 setting>>

\* Mutant of FlushTimeout: the flushing flag is not cleared.
FlushTimeoutHangs(t) ==
  /\ flight[t].phase # "idle"
  /\ meta' = "failed"
  /\ UNCHANGED <<device, queue, ahead, quarantine, network, server, setting>>

\* 15 seconds without an answer, or no network: the queue is untouched.  The
\* request may still reach the server, its answer is dropped.
FlushTimeout(t) ==
  /\ flight[t].phase # "idle"
  /\ meta' = "failed"
  /\ flight' = [flight EXCEPT ![t] = Idle]
  /\ UNCHANGED <<device, queue, ahead, quarantine, requests, voids, server,
                 setting>>

\* The tab is closed or reloaded in the middle of a flush.
TabCrash(t) ==
  /\ flight[t].phase # "idle"
  /\ flight' = [flight EXCEPT ![t] = Idle]
  /\ UNCHANGED <<device, outbox, requests, voids, server, setting>>

-----------------------------------------------------------------------------
(* The server: one database transaction per request *)

\* The answer reaches the tab if it still waits for this very batch.
Answer(r, phase, rejected) ==
  flight' = IF flight[r.tab].phase = "sent" /\ flight[r.tab].batch = r.batch
            THEN [flight EXCEPT ![r.tab] = [phase |-> phase, batch |-> r.batch,
                                            rejected |-> rejected]]
            ELSE flight

\* The batch was answered before: the stored answer is sent again.
Replay(r) ==
  /\ r \in requests
  /\ requests' = requests \ {r}
  /\ \E receipt \in receipts :
       /\ receipt.key = r.batch
       /\ Answer(r, "answered", receipt.rejected)
  /\ UNCHANGED <<device, outbox, voids, server, setting>>

Unseen(r) == \A receipt \in receipts : receipt.key # r.batch

Taken(n) == \E s \in Sales : /\ Present(ledger[s])
                             /\ Printed[s] = n
                             /\ ~ledger[s].renumbered

OutletsOf(r) == {OutletOf[s] : s \in Rows(r.batch)}

\* New sales the batch would insert, and those that fail the whole batch: by the
\* product limit.  (On the Free plan another cashier than the owner fails it for a
\* booked sale too; here nothing is booked before its refusal is repaired.)
Inserts(r) == {s \in Rows(r.batch) : ~Present(ledger[s])}
FailsBatch(r) == \E s \in Inserts(r) : refusal[s] = "batch"

Rejected(r) == {s \in Rows(r.batch) : RejectsSale(ledger[s], s, refusal[s])}

\* Among the new sales, those that keep the printed number: the first to
\* claim a number that is free.  The others are renumbered.
KeepsNumber(r, keep) ==
  LET new == Inserts(r) \ Rejected(r) IN
  /\ keep \subseteq {s \in new : ~Taken(Printed[s])}
  /\ \A s, u \in keep : Printed[s] = Printed[u] => s = u
  /\ \A s \in new : Taken(Printed[s]) \/ \E u \in keep : Printed[u] = Printed[s]

\* Mutant of Stored: the receipt does not carry the rejected rows.
StoredWithoutOutcomes(r, keep) == {[key |-> r.batch, rejected |-> {}]}

\* The receipt stored with the batch.  Before migration 0054 a receipt has no
\* room for outcomes, and none is stored when there are any.
Stored(r, keep) ==
  IF StoresOutcomes \/ (Rejected(r) = {} /\ keep = Inserts(r))
  THEN {[key |-> r.batch, rejected |-> Rejected(r)]}
  ELSE {}

\* The batch is booked, sale by sale, and its answer is stored under its key
\* in the same transaction.
Book(r) ==
  /\ r \in requests
  /\ Unseen(r)
  /\ OutletsOf(r) \cap closed = {}
  /\ ~FailsBatch(r)
  /\ requests' = requests \ {r}
  /\ \E keep \in SUBSET Inserts(r) :
       /\ KeepsNumber(r, keep)
       /\ ledger' = [s \in Sales |->
            IF s \in Rows(r.batch) \ Rejected(r)
            THEN SyncOne(ledger[s], s, r.batch[s], keep)
            ELSE ledger[s]]
       /\ receipts' = receipts \cup Stored(r, keep)
  /\ Answer(r, "answered", Rejected(r))
  /\ UNCHANGED <<device, outbox, voids, setting>>

\* OUTLET_SETUP_REQUIRED: the outlet of the batch is not active.
RefuseOutlet(r) ==
  /\ r \in requests
  /\ Unseen(r)
  /\ OutletsOf(r) \cap closed # {}
  /\ requests' = requests \ {r}
  /\ Answer(r, "parked", {})
  /\ UNCHANGED <<device, outbox, voids, server, setting>>

\* An error that is not the fault of one sale aborts the transaction.
RefuseBatch(r) ==
  /\ r \in requests
  /\ Unseen(r)
  /\ OutletsOf(r) \cap closed = {}
  /\ FailsBatch(r)
  /\ requests' = requests \ {r}
  /\ Answer(r, "refused", {})
  /\ UNCHANGED <<device, outbox, voids, server, setting>>

\* The request is lost, or the database aborts it.
Lose(r) ==
  /\ r \in requests
  /\ requests' = requests \ {r}
  /\ UNCHANGED <<device, outbox, flight, voids, server, setting>>

\* A void reaches the server.  A sale not booked yet is answered
\* TRANSACTION_SYNC_REQUIRED; a used or expired approval changes nothing.
BookVoid(s, answered) ==
  /\ s \in voids
  /\ voids' = voids \ {s}
  /\ ledger' = [ledger EXCEPT ![s] = Voided(@)]
  /\ orderVoid' = IF answered /\ Present(ledger[s]) THEN orderVoid \cup {s}
                                                    ELSE orderVoid
  /\ UNCHANGED <<order, outbox, flight, requests, receipts, setting>>

LoseVoid(s) ==
  /\ s \in voids
  /\ voids' = voids \ {s}
  /\ UNCHANGED <<device, outbox, flight, requests, server, setting>>

-----------------------------------------------------------------------------
(* What the owner changes around the outbox *)

\* The mapping, the plan or the data behind a refusal is repaired.
Repair(s) ==
  /\ s \in Repairable
  /\ refusal[s] # "none"
  /\ refusal' = [refusal EXCEPT ![s] = "none"]
  /\ UNCHANGED <<device, outbox, network, server, closed>>

CloseOutlet(o) ==
  /\ o \in Closable \ closed
  /\ closed' = closed \cup {o}
  /\ UNCHANGED <<device, outbox, network, server, refusal>>

OpenOutlet(o) ==
  /\ o \in closed
  /\ closed' = closed \ {o}
  /\ UNCHANGED <<device, outbox, network, server, refusal>>

-----------------------------------------------------------------------------
Cashier == \E s \in Sales :
  \/ RingUp(s)
  \/ AddPayment(s)
  \/ RequestVoid(s)
  \/ \E wholly \in BOOLEAN : Requeue(s, wholly)

Flush(t) ==
  \/ \E force \in BOOLEAN : FlushStart(t, force)
  \/ Ack(t)
  \/ AckHalf(t)
  \/ FlushRefused(t)
  \/ FlushTimeout(t)
  \/ TabCrash(t)

Serve(r) ==
  \/ Replay(r)
  \/ Book(r)
  \/ RefuseOutlet(r)
  \/ RefuseBatch(r)

ServeVoid == \E s \in Sales :
  \/ \E answered \in BOOLEAN : BookVoid(s, answered)
  \/ LoseVoid(s)

Owner ==
  \/ \E s \in Sales : Repair(s)
  \/ \E o \in Outlets : CloseOutlet(o) \/ OpenOutlet(o)

Next ==
  \/ Cashier
  \/ \E t \in Tabs : Flush(t)
  \/ \E r \in requests : Serve(r) \/ Lose(r)
  \/ ServeVoid
  \/ Owner

Spec == Init /\ [][Next]_vars

\* A request is served while its tab still waits for the answer.
ServeInTime(t) == \E r \in requests :
  /\ r.tab = t
  /\ flight[t].phase = "sent"
  /\ flight[t].batch = r.batch
  /\ Serve(r)

\* A tab flushes on its timer and when the cashier sells; a batch tried again
\* and again is at last served, and answered, within the 15 seconds.
Fairness ==
  /\ \A t \in Tabs : /\ WF_vars(FlushStart(t, FALSE))
                     /\ WF_vars(FlushTimeout(t))
                     /\ WF_vars(FlushRefused(t))
                     /\ SF_vars(Ack(t))
                     /\ SF_vars(ServeInTime(t))

FairSpec == Spec /\ Fairness

\* The cashier keeps pressing the Sync Center's buttons: send again what is
\* set aside, and flush a parked queue.
RetrySpec ==
  /\ FairSpec
  /\ \A s \in Sales : WF_vars(Requeue(s, TRUE))
  /\ \A t \in Tabs : WF_vars(FlushStart(t, TRUE))

-----------------------------------------------------------------------------
(* Safety *)

\* Everything the cashier recorded on a sale is in the outbox, in the
\* quarantine or in the ledger: queue.ts's "never lost", whatever request or
\* answer is lost and wherever a tab dies.
NeverLost == \A s \in Sales : order[s] # 0 =>
  \/ queue[s] = order[s]
  \/ quarantine[s] = order[s]
  \/ Books(ledger[s], order[s])

\* Some version of every sale is kept somewhere, even with several tabs.
SaleKept == \A s \in Sales : order[s] # 0 =>
  queue[s] # 0 \/ quarantine[s] # 0 \/ Present(ledger[s])

\* A sale is booked at most once, however often it is sent: the cash drawer
\* holds exactly the payments booked and the stock is taken once, until the
\* void takes both back; and nothing is booked the cashier did not record.
BookedOnce == \A s \in Sales : BookedRight(ledger[s], s, order[s])

\* A stored answer is true for ever: a row it does not reject is booked, so
\* replaying it never makes a client drop a row the ledger lacks.
ReceiptsTrue == \A receipt \in receipts : \A s \in Rows(receipt.key) :
  s \notin receipt.rejected => Books(ledger[s], receipt.key[s])

(* Action properties *)

\* A row leaves the queue only when the server has confirmed that version,
\* or when it is set aside in the quarantine in the same step.
DropsOnlyConfirmed == [][\A s \in Sales : queue[s] # 0 /\ queue'[s] = 0 =>
  Books(ledger[s], queue[s]) \/ quarantine'[s] = queue[s]]_vars

\* A void is final: no late batch, replay or second void brings a voided
\* sale back or pays money into it.
VoidIsFinal == [][\A s \in Sales : ledger[s].status = "VOIDED" =>
  ledger'[s] = ledger[s]]_vars

(* Refinement *)

\* The device and the server implement SalesLedger: the cash a sale leaves in
\* the drawer changes only when a recorded payment is booked for the first
\* time or when the sale is voided for the first time.
Ledger == INSTANCE SalesLedger WITH
  recorded <- order,
  booked   <- [s \in Sales |-> ledger[s].paid],
  drawer   <- [s \in Sales |-> ledger[s].cash],
  void     <- {s \in Sales : ledger[s].status = "VOIDED"}

LedgerPromise == Ledger!Spec

(* Liveness *)

\* The outbox drains: every queued sale at last leaves the queue.
QueueDrains == \A s \in Sales : queue[s] # 0 ~> queue[s] = 0

\* A queued sale the server has nothing against is at last booked, whatever
\* becomes of the other sales and of their outlets.
HealthySaleBooked == \A s \in Sales : OutletOf[s] \notin Closable =>
  (queue[s] # 0 /\ refusal[s] = "none" ~> Present(ledger[s]))
=============================================================================
