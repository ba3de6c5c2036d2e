--------------------------- MODULE SalesSyncProofs ---------------------------
(***************************************************************************)
(* Theorems of SalesSync, for any sales, tabs, outlets and batch size.     *)
(***************************************************************************)
EXTENDS SalesSync, TLAPS

-----------------------------------------------------------------------------
(* The server's decision about one sale *)

\* What a row that is not rejected does to its sale: the entry still adds up,
\* holds the row's version, and loses no payment it had.
LEMMA SyncOneRight ==
  ASSUME NEW s \in Sales, NEW e \in Entry, NEW n \in Version,
         NEW v \in Version, NEW keep,
         n <= Payments[s], v # 0, v <= n,
         BookedRight(e, s, n),
         ~(s \in Split /\ e.status = "VOIDED")
  PROVE  LET f == SyncOne(e, s, v, keep) IN
         /\ f \in Entry
         /\ BookedRight(f, s, n)
         /\ Books(f, v)
         /\ e.paid <= f.paid
         /\ e.status = "VOIDED" => f = e
         /\ f.status = "VOIDED" => e.status = "VOIDED"
<1> USE SalesAssumption DEF Entry, Version, Status, BookedRight, Books, Present
<1>1. CASE ~Present(e)
  BY <1>1 DEF SyncOne, NewSale
<1>2. CASE Present(e) /\ s \in Split
  <2> DEFINE paid == Larger(e.paid, v)
             f == SyncOne(e, s, v, keep)
  <2>1. /\ paid \in Version
        /\ e.paid <= paid /\ v <= paid /\ paid <= n
        /\ paid = e.paid \/ paid = v
    BY DEF Larger
  <2>2. e.status \in {"PENDING_PAYMENT", "COMPLETED", "SETTLED"}
    BY <1>2
  <2>3. e.cash = e.paid /\ e.stock = 1
    BY <2>2
  <2>4. f = [e EXCEPT !.paid = paid, !.cash = e.cash + (paid - e.paid),
                      !.status = IF e.status = "PENDING_PAYMENT" /\ paid = Payments[s]
                                 THEN "SETTLED" ELSE e.status]
    BY <1>2 DEF SyncOne, AddTenders
  <2> HIDE DEF paid, f
  <2>5. e.cash + (paid - e.paid) = paid
    BY <2>1, <2>3
  <2>6. /\ f.paid = paid /\ f.cash = paid /\ f.stock = 1
        /\ f.renumbered = e.renumbered
        /\ f.status = IF e.status = "PENDING_PAYMENT" /\ paid = Payments[s]
                      THEN "SETTLED" ELSE e.status
        /\ f = [status |-> f.status, paid |-> paid, cash |-> paid, stock |-> 1,
                renumbered |-> e.renumbered]
    BY <2>3, <2>4, <2>5
  <2>7. f.status \in {"PENDING_PAYMENT", "COMPLETED", "SETTLED"}
    BY <2>2, <2>6
  <2>8. f \in Entry
    BY <2>1, <2>6, <2>7
  <2>9. BookedRight(f, s, n)
    BY <2>1, <2>2, <2>6, <2>7
  <2> QED BY <2>1, <2>2, <2>6, <2>7, <2>8, <2>9 DEF f
<1>3. CASE Present(e) /\ s \notin Split
  BY <1>3 DEF SyncOne
<1> QED BY <1>1, <1>2, <1>3

\* The void of a sale keeps its entry right and its payments on record.
LEMMA VoidedRight ==
  ASSUME NEW s \in Sales, NEW e \in Entry, NEW n \in Version,
         BookedRight(e, s, n)
  PROVE  /\ Voided(e) \in Entry
         /\ BookedRight(Voided(e), s, n)
         /\ Voided(e).paid = e.paid
         /\ Present(e) <=> Present(Voided(e))
         /\ e.status = "VOIDED" => Voided(e) = e
<1> USE SalesAssumption DEF BookedRight, Entry, Present, Version, Status
<1>1. CASE Present(e) /\ e.status # "VOIDED"
  <2>1. Voided(e) = [status |-> "VOIDED", paid |-> e.paid, cash |-> 0,
                     stock |-> 0, renumbered |-> e.renumbered]
    BY <1>1 DEF Voided
  <2> QED BY <1>1, <2>1
<1>2. CASE ~(Present(e) /\ e.status # "VOIDED")
  BY <1>2 DEF Voided
<1> QED BY <1>1, <1>2

-----------------------------------------------------------------------------
(* What the device and the server have recorded of the payments *)

\* No copy of a sale, wherever it is, is ahead of the order it was made from.
Recorded ==
  /\ \A s \in Sales : order[s] <= Payments[s]
  /\ \A s \in Sales : queue[s] <= order[s] /\ quarantine[s] <= order[s]
  /\ \A t \in Tabs, s \in Sales : flight[t].batch[s] <= order[s]
  /\ \A r \in requests, s \in Sales : r.batch[s] <= order[s]

\* The answer a tab holds is true: what it does not reject is booked.
AnswersTrue == \A t \in Tabs : flight[t].phase = "answered" =>
  \A s \in Rows(flight[t].batch) :
    s \notin flight[t].rejected => Books(ledger[s], flight[t].batch[s])

\* The inductive invariant.
IInv == TypeOK /\ Recorded /\ BookedOnce /\ ReceiptsTrue /\ AnswersTrue

-----------------------------------------------------------------------------
(* The inductive invariant holds initially *)

\* Nothing is recorded, queued or booked at first.
LEMMA InitInv == Init => IInv
<1> SUFFICES ASSUME Init PROVE IInv
  OBVIOUS
<1> USE SalesAssumption, SyncAssumption DEF Init, Empty, Idle, Version
<1>1. TypeOK
  BY DEF TypeOK, Load, Flight, Absent, Entry, Status
<1>2. Recorded
  BY DEF Recorded
<1>3. BookedOnce
  <2> SUFFICES ASSUME NEW s \in Sales PROVE BookedRight(ledger[s], s, order[s])
    BY DEF BookedOnce
  <2>1. ledger[s] = Absent /\ order[s] = 0
    OBVIOUS
  <2> QED BY <2>1 DEF BookedRight, Absent
<1>4. ReceiptsTrue /\ AnswersTrue
  BY DEF ReceiptsTrue, AnswersTrue
<1> QED BY <1>1, <1>2, <1>3, <1>4 DEF IInv

-----------------------------------------------------------------------------
(* Every step keeps it *)

\* Steps that leave the ledger, its receipts and the orders alone keep what
\* they say of each other.
LEMMA BooksUnchanged ==
  ASSUME IInv, UNCHANGED <<order, ledger, receipts>>
  PROVE  BookedOnce' /\ ReceiptsTrue'
  BY DEF IInv, BookedOnce, ReceiptsTrue

\* The two parts of a flight's answer that Answer sets.
LEMMA AnswerTyped ==
  ASSUME TypeOK, NEW r \in requests, NEW rejected \in SUBSET Sales,
         NEW phase \in {"answered", "refused", "parked"},
         Answer(r, phase, rejected)
  PROVE  /\ flight' \in [Tabs -> Flight]
         /\ \A t \in Tabs :
              \/ flight'[t] = flight[t]
              \/ /\ flight'[t].batch = r.batch
                 /\ flight'[t].rejected = rejected
                 /\ flight'[t].phase = phase
  BY DEF Answer, TypeOK, Flight, Request

\* The values a sale and a batch can have.
LEMMA Typed ==
  ASSUME TypeOK
  PROVE  /\ \A s \in Sales : /\ order[s] \in Nat /\ queue[s] \in Nat
                             /\ quarantine[s] \in Nat /\ Payments[s] \in Nat \ {0}
                             /\ ledger[s] \in Entry /\ Payments[s] <= MaxPayments
         /\ \A t \in Tabs : flight[t].batch \in Load /\ flight[t] \in Flight
         /\ \A r \in requests : r.batch \in Load /\ r.tab \in Tabs
         /\ \A b \in Load, s \in Sales : b[s] \in Nat /\ b[s] \in Version
  BY SalesAssumption DEF TypeOK, Load, Version, Flight, Request

\* One more payment on a sale: RingUp and AddPayment.
LEMMA OneMorePayment ==
  ASSUME IInv, NEW s \in Sales, order[s] < Payments[s],
         order' = [order EXCEPT ![s] = order[s] + 1],
         Enqueue(s, order[s] + 1),
         UNCHANGED <<orderVoid, quarantine, meta, network, server, setting>>
  PROVE  IInv'
<1> USE DEF IInv
<1>1. /\ order' \in Load
      /\ \A u \in Sales : order[u] <= order'[u] /\ order'[u] <= Payments[u]
  <2>1. order[s] + 1 \in Version
    BY Typed, SalesAssumption DEF Version
  <2>2. order' \in [Sales -> Version]
    BY <2>1 DEF TypeOK, Load
  <2>3. \A u \in Sales : order'[u] = IF u = s THEN order[s] + 1 ELSE order[u]
    BY DEF TypeOK, Load
  <2>4. \A u \in Sales : order[u] \in Nat /\ order[u] <= Payments[u]
    BY Typed DEF Recorded
  <2> QED BY <2>2, <2>3, <2>4, Typed DEF Load
<1>2. /\ queue' \in Load
      /\ \A u \in Sales : queue'[u] <= order'[u]
  BY <1>1, Typed DEF TypeOK, Recorded, Enqueue, Load, Version
<1>3. ahead' \in SUBSET (Sales \X Sales)
  BY DEF Enqueue, TypeOK, Rows
<1>4. TypeOK'
  BY <1>1, <1>2, <1>3 DEF TypeOK, network, server, setting
<1>5. Recorded'
  <2>1. UNCHANGED <<quarantine, flight, requests>>
    BY DEF network
  <2>2. \A u \in Sales : quarantine'[u] <= order'[u]
    BY <1>1, <2>1, Typed, <1>4 DEF Recorded, TypeOK, Load, Version
  <2>3. \A t \in Tabs, u \in Sales : flight'[t].batch[u] <= order'[u]
    <3> TAKE t \in Tabs, u \in Sales
    <3>1. flight[t].batch[u] <= order[u] /\ order[u] <= order'[u]
      BY <1>1 DEF Recorded
    <3>2. flight[t].batch[u] \in Nat /\ order[u] \in Nat /\ order'[u] \in Nat
      BY <1>1, Typed DEF Load, Version
    <3> QED BY <2>1, <3>1, <3>2
  <2>4. \A r \in requests', u \in Sales : r.batch[u] <= order'[u]
    <3> TAKE r \in requests', u \in Sales
    <3>1. r.batch[u] <= order[u] /\ order[u] <= order'[u]
      BY <1>1, <2>1 DEF Recorded
    <3>2. r.batch[u] \in Nat /\ order[u] \in Nat /\ order'[u] \in Nat
      BY <1>1, <2>1, Typed DEF Load, Version
    <3> QED BY <3>1, <3>2
  <2> QED BY <1>1, <1>2, <2>2, <2>3, <2>4 DEF Recorded
<1>6. BookedOnce'
  <2> SUFFICES ASSUME NEW u \in Sales
               PROVE  BookedRight(ledger'[u], u, order'[u])
    BY DEF BookedOnce
  <2>1. ledger'[u] = ledger[u] /\ BookedRight(ledger[u], u, order[u])
    BY DEF BookedOnce, server
  <2>2. ledger[u].paid \in Nat /\ order[u] \in Nat /\ order'[u] \in Nat
    BY <1>1, Typed DEF Entry, Load, Version
  <2> QED BY <1>1, <2>1, <2>2 DEF BookedRight
<1>7. ReceiptsTrue' /\ AnswersTrue'
  BY DEF ReceiptsTrue, AnswersTrue, Rows, network, server
<1> QED BY <1>4, <1>5, <1>6, <1>7

\* The cashier's steps.
LEMMA CashierInv == ASSUME IInv, Cashier PROVE IInv'
<1> PICK s \in Sales : \/ RingUp(s) \/ AddPayment(s) \/ RequestVoid(s)
                       \/ \E wholly \in BOOLEAN : Requeue(s, wholly)
  BY DEF Cashier
<1>1. CASE RingUp(s)
  <2>1. order[s] + 1 = 1 /\ order[s] < Payments[s]
    BY <1>1, Typed DEF RingUp, IInv
  <2> QED BY <1>1, <2>1, OneMorePayment DEF RingUp
<1>2. CASE AddPayment(s)
  BY <1>2, OneMorePayment DEF AddPayment
<1>3. CASE RequestVoid(s)
  <2> USE <1>3 DEF IInv, RequestVoid, device, outbox, server, setting
  <2>1. TypeOK'
    BY DEF TypeOK
  <2>2. Recorded' /\ AnswersTrue'
    BY DEF Recorded, AnswersTrue, Rows
  <2> QED BY <2>1, <2>2, BooksUnchanged
<1>4. CASE \E wholly \in BOOLEAN : Requeue(s, wholly)
  <2> PICK wholly \in BOOLEAN : Requeue(s, wholly)
    BY <1>4
  <2> USE DEF IInv, Requeue, device, network, server, setting
  <2>1. /\ queue' \in Load /\ quarantine' \in Load
        /\ \A u \in Sales : queue'[u] <= order[u] /\ quarantine'[u] <= order[u]
    <3>1. \A u \in Sales : queue'[u] = queue[u] \/ queue'[u] = quarantine[u]
      BY DEF TypeOK, Enqueue, Load
    <3>2. \A u \in Sales : quarantine'[u] = quarantine[u] \/ quarantine'[u] = 0
      BY DEF TypeOK, Load
    <3>3. queue' \in Load /\ quarantine' \in Load
      BY SalesAssumption DEF TypeOK, Enqueue, Load, Version
    <3> QED BY <3>1, <3>2, <3>3, Typed DEF Recorded
  <2>2. ahead' \in SUBSET (Sales \X Sales)
    BY DEF Enqueue, TypeOK, Rows
  <2>3. TypeOK'
    BY <2>1, <2>2 DEF TypeOK
  <2>4. Recorded' /\ AnswersTrue'
    BY <2>1 DEF Recorded, AnswersTrue, Rows
  <2> QED BY <2>3, <2>4, BooksUnchanged
<1> QED BY <1>1, <1>2, <1>3, <1>4

\* The steps of a tab's flush.
LEMMA FlushInv == ASSUME IInv, NEW t \in Tabs, Flush(t) PROVE IInv'
<1> USE DEF IInv
<1>1. CASE \E force \in BOOLEAN : FlushStart(t, force)
  <2> PICK force \in BOOLEAN : FlushStart(t, force)
    BY <1>1
  <2> USE DEF FlushStart, device, outbox, server, setting
  <2>1. /\ NextBatch \in Load
        /\ \A s \in Sales : NextBatch[s] <= order[s]
    BY Typed, SalesAssumption DEF NextBatch, TypeOK, Load, Version, Recorded
  <2> HIDE DEF NextBatch
  <2>2. TypeOK'
    BY <2>1 DEF TypeOK, Flight, Request
  <2>3. Recorded'
    BY <2>1 DEF Recorded, TypeOK
  <2>4. AnswersTrue'
    BY DEF AnswersTrue, TypeOK
  <2> QED BY <2>2, <2>3, <2>4, BooksUnchanged
<1>2. CASE Ack(t) \/ AckHalf(t) \/ FlushRefused(t) \/ FlushTimeout(t) \/ TabCrash(t)
  <2> USE DEF device, outbox, server, setting
  <2>1. UNCHANGED <<order, orderVoid, requests, voids, ledger, receipts, refusal, closed>>
    BY <1>2 DEF Ack, AckHalf, FlushRefused, FlushTimeout, TabCrash
  <2>2. flight' = [flight EXCEPT ![t] = Idle] /\ meta' \in {"ok", "failed", "parked"}
    BY <1>2 DEF Ack, AckHalf, FlushRefused, FlushTimeout, TabCrash, TypeOK
  <2>3. quarantine' \in {quarantine, Quarantined(t)}
    BY <1>2 DEF Ack, AckHalf, FlushRefused, FlushTimeout, TabCrash
  <2>4. /\ ahead' \in SUBSET (Sales \X Sales)
        /\ queue' \in Load
        /\ \A s \in Sales : queue'[s] \in {0, queue[s]}
    BY <1>2, SalesAssumption
       DEF Ack, AckHalf, FlushRefused, FlushTimeout, TabCrash, Prune, TypeOK,
           Load, Version
  <2>5. /\ Quarantined(t) \in Load
        /\ \A s \in Sales : Quarantined(t)[s] <= order[s]
    BY Typed DEF Quarantined, TypeOK, Load, Recorded, Flight
  <2>6. Idle \in Flight /\ Idle.phase = "idle" /\ \A s \in Sales : Idle.batch[s] = 0
    BY SalesAssumption DEF Idle, Flight, Empty, Load, Version
  <2> HIDE DEF Quarantined, Idle
  <2>7. TypeOK'
    BY <2>1, <2>2, <2>3, <2>4, <2>5, <2>6 DEF TypeOK
  <2>8. Recorded'
    BY <2>1, <2>2, <2>3, <2>4, <2>5, <2>6, Typed DEF Recorded, TypeOK
  <2>9. AnswersTrue'
    BY <2>1, <2>2, <2>6 DEF AnswersTrue, TypeOK
  <2> QED BY <2>1, <2>7, <2>8, <2>9, BooksUnchanged
<1> QED BY <1>1, <1>2 DEF Flush

\* An answer other than "answered" makes no claim; the request is gone.
LEMMA ServedInv ==
  ASSUME IInv, NEW r \in requests, NEW rejected \in SUBSET Sales,
         NEW phase \in {"answered", "refused", "parked"},
         Answer(r, phase, rejected),
         requests' = requests \ {r},
         UNCHANGED <<device, outbox, voids, setting>>,
         ledger' \in [Sales -> Entry], receipts' \in SUBSET Receipt,
         \A s \in Sales : /\ BookedRight(ledger'[s], s, order[s])
                          /\ ledger[s].paid <= ledger'[s].paid
                          /\ Present(ledger[s]) => Present(ledger'[s]),
         \A receipt \in receipts' \ receipts : \A s \in Rows(receipt.key) :
           s \notin receipt.rejected => Books(ledger'[s], receipt.key[s]),
         phase = "answered" => \A s \in Rows(r.batch) :
           s \notin rejected => Books(ledger'[s], r.batch[s])
  PROVE  IInv'
<1> USE DEF IInv, device, outbox, setting
<1>1. /\ flight' \in [Tabs -> Flight]
      /\ \A t \in Tabs :
           \/ flight'[t] = flight[t]
           \/ /\ flight'[t].batch = r.batch
              /\ flight'[t].rejected = rejected
              /\ flight'[t].phase = phase
  BY AnswerTyped
<1>2. TypeOK'
  BY <1>1 DEF TypeOK
<1>3. Recorded'
  BY <1>1 DEF Recorded
<1>4. BookedOnce'
  <2> SUFFICES ASSUME NEW s \in Sales PROVE BookedRight(ledger'[s], s, order'[s])
    BY DEF BookedOnce
  <2>1. order' = order
    OBVIOUS
  <2> QED BY <2>1
<1>5. \A s \in Sales, v \in Nat : Books(ledger[s], v) => Books(ledger'[s], v)
  <2> TAKE s \in Sales, v \in Nat
  <2>1. /\ ledger[s].paid \in Nat /\ ledger'[s].paid \in Nat
        /\ ledger[s].paid <= ledger'[s].paid
        /\ Present(ledger[s]) => Present(ledger'[s])
    BY Typed DEF Entry, Version
  <2> QED BY <2>1 DEF Books
<1>6. ReceiptsTrue'
  <2> SUFFICES ASSUME NEW receipt \in receipts', NEW s \in Rows(receipt.key),
                      s \notin receipt.rejected
               PROVE  Books(ledger'[s], receipt.key[s])
    BY DEF ReceiptsTrue, Rows
  <2>1. receipt.key[s] \in Nat /\ s \in Sales
    BY Typed DEF Receipt, Rows
  <2> QED BY <1>5, <2>1 DEF ReceiptsTrue
<1>7. AnswersTrue'
  <2> SUFFICES ASSUME NEW t \in Tabs, flight'[t].phase = "answered",
                      NEW s \in Rows(flight'[t].batch),
                      s \notin flight'[t].rejected
               PROVE  Books(ledger'[s], flight'[t].batch[s])
    BY DEF AnswersTrue, Rows
  <2>1. s \in Sales /\ flight'[t].batch[s] \in Nat
    BY <1>1, Typed DEF Flight, Rows
  <2>2. CASE flight'[t] = flight[t]
    BY <1>5, <2>1, <2>2 DEF AnswersTrue
  <2>3. CASE flight'[t] # flight[t]
    BY <1>1, <2>3
  <2> QED BY <2>2, <2>3
<1> QED BY <1>2, <1>3, <1>4, <1>6, <1>7

\* What a booked batch does to each sale: the entry adds up, no payment is
\* lost, a row that is not rejected is booked, and a void stays as it is.
BookOutcome(r, s) ==
  /\ BookedRight(ledger'[s], s, order[s])
  /\ ledger[s].paid <= ledger'[s].paid
  /\ Present(ledger[s]) => Present(ledger'[s])
  /\ s \in Rows(r.batch) \ Rejected(r) => Books(ledger'[s], r.batch[s])
  /\ ledger[s].status = "VOIDED" => ledger'[s] = ledger[s]
  /\ ledger'[s].status = "VOIDED" => ledger[s].status = "VOIDED"

\* Book has that outcome for every sale.
LEMMA BookOutcomes ==
  ASSUME IInv, NEW r \in requests, Book(r)
  PROVE  ledger' \in [Sales -> Entry] /\ \A s \in Sales : BookOutcome(r, s)
<1> USE DEF IInv
<1> PICK keep \in SUBSET Inserts(r) :
      ledger' = [s \in Sales |->
        IF s \in Rows(r.batch) \ Rejected(r)
        THEN SyncOne(ledger[s], s, r.batch[s], keep)
        ELSE ledger[s]]
  BY DEF Book
<1>1. \A s \in Sales : /\ ledger[s] \in Entry /\ ledger[s].paid \in Nat
                       /\ BookedRight(ledger[s], s, order[s])
  BY Typed DEF BookedOnce, Entry, Version
<1>2. ASSUME NEW s \in Sales PROVE ledger'[s] \in Entry /\ BookOutcome(r, s)
  <2>1. CASE s \in Rows(r.batch) \ Rejected(r)
    <3>1. /\ r.batch[s] # 0 /\ r.batch[s] \in Version
          /\ ~(s \in Split /\ ledger[s].status = "VOIDED")
      BY <2>1, Typed DEF Rows, Rejected, RejectsSale
    <3>2. /\ order[s] \in Version /\ order[s] <= Payments[s]
          /\ r.batch[s] <= order[s]
      BY DEF Recorded, TypeOK, Load
    <3>3. ledger'[s] = SyncOne(ledger[s], s, r.batch[s], keep)
      BY <2>1
    <3>4. /\ ledger'[s] \in Entry
          /\ BookedRight(ledger'[s], s, order[s])
          /\ Books(ledger'[s], r.batch[s])
          /\ ledger[s].paid <= ledger'[s].paid
          /\ ledger[s].status = "VOIDED" => ledger'[s] = ledger[s]
          /\ ledger'[s].status = "VOIDED" => ledger[s].status = "VOIDED"
      BY <1>1, <1>2, <3>1, <3>2, <3>3, SyncOneRight
    <3> QED BY <3>4 DEF BookOutcome, Books
  <2>2. CASE s \notin Rows(r.batch) \ Rejected(r)
    <3>1. ledger'[s] = ledger[s]
      BY <2>2
    <3> QED BY <1>1, <2>2, <3>1 DEF BookOutcome
  <2> QED BY <2>1, <2>2
<1> QED BY <1>2

\* The server's steps on a request.
LEMMA ServeInv == ASSUME IInv, NEW r \in requests, Serve(r) PROVE IInv'
<1> USE DEF IInv
<1>1. /\ ledger \in [Sales -> Entry] /\ receipts \in SUBSET Receipt
      /\ \A s \in Sales : /\ BookedRight(ledger[s], s, order[s])
                          /\ ledger[s].paid <= ledger[s].paid
  BY Typed DEF TypeOK, BookedOnce, Entry, Version
<1>2. CASE Replay(r)
  <2> PICK receipt \in receipts : /\ receipt.key = r.batch
                                  /\ Answer(r, "answered", receipt.rejected)
    BY <1>2 DEF Replay
  <2>1. receipt.rejected \in SUBSET Sales
    BY DEF TypeOK, Receipt
  <2>2. \A s \in Rows(r.batch) :
          s \notin receipt.rejected => Books(ledger[s], r.batch[s])
    BY DEF ReceiptsTrue
  <2> QED BY <1>1, <1>2, <2>1, <2>2, ServedInv DEF Replay, server
<1>3. CASE RefuseOutlet(r) \/ RefuseBatch(r)
  <2> PICK phase \in {"parked", "refused"} : Answer(r, phase, {})
    BY <1>3 DEF RefuseOutlet, RefuseBatch
  <2> QED BY <1>1, <1>3, ServedInv DEF RefuseOutlet, RefuseBatch, server
<1>4. CASE Book(r)
  <2>1. ledger' \in [Sales -> Entry] /\ \A s \in Sales : BookOutcome(r, s)
    BY <1>4, BookOutcomes
  <2>2. Rejected(r) \in SUBSET Sales
    BY DEF Rejected, Rows
  <2> PICK keep \in SUBSET Inserts(r) : receipts' = receipts \cup Stored(r, keep)
    BY <1>4 DEF Book
  <2>3. receipts' \in SUBSET Receipt
    BY <1>1, <2>2, Typed DEF Stored, Receipt
  <2>4. \A s \in Sales : /\ BookedRight(ledger'[s], s, order[s])
                         /\ ledger[s].paid <= ledger'[s].paid
                         /\ Present(ledger[s]) => Present(ledger'[s])
    BY <2>1 DEF BookOutcome
  <2>5. \A s \in Rows(r.batch) :
          s \notin Rejected(r) => Books(ledger'[s], r.batch[s])
    BY <2>1 DEF Rows, BookOutcome
  <2>6. \A receipt \in receipts' \ receipts :
          receipt.key = r.batch /\ receipt.rejected = Rejected(r)
    BY DEF Stored
  <2> QED BY <1>4, <2>1, <2>2, <2>3, <2>4, <2>5, <2>6, ServedInv DEF Book
<1> QED BY <1>2, <1>3, <1>4 DEF Serve

\* A lost request, a void, and what the owner changes.
LEMMA OtherInv ==
  ASSUME IInv, (\E r \in requests : Lose(r)) \/ ServeVoid \/ Owner
  PROVE  IInv'
<1> USE DEF IInv
<1>1. CASE (\E r \in requests : Lose(r)) \/ Owner \/ (\E s \in Sales : LoseVoid(s))
  <2> USE DEF Lose, Owner, Repair, CloseOutlet, OpenOutlet, LoseVoid,
              device, outbox, network, server, setting
  <2>1. UNCHANGED <<order, orderVoid, queue, ahead, quarantine, meta, flight,
                    ledger, receipts>> /\ requests' \subseteq requests
    BY <1>1
  <2>2. TypeOK'
    BY <1>1, <2>1 DEF TypeOK, Refusal
  <2>3. Recorded' /\ AnswersTrue'
    BY <2>1 DEF Recorded, AnswersTrue, Rows
  <2> QED BY <2>1, <2>2, <2>3, BooksUnchanged
<1>2. CASE \E s \in Sales, answered \in BOOLEAN : BookVoid(s, answered)
  <2> PICK s \in Sales, answered \in BOOLEAN : BookVoid(s, answered)
    BY <1>2
  <2> USE DEF BookVoid, outbox, setting
  <2>1. /\ Voided(ledger[s]) \in Entry
        /\ BookedRight(Voided(ledger[s]), s, order[s])
        /\ Voided(ledger[s]).paid = ledger[s].paid
        /\ Present(ledger[s]) <=> Present(Voided(ledger[s]))
    BY Typed, VoidedRight DEF TypeOK, Load, BookedOnce
  <2>2. \A u \in Sales : ledger'[u] = IF u = s THEN Voided(ledger[s]) ELSE ledger[u]
    BY DEF TypeOK
  <2>3. TypeOK'
    BY <2>1 DEF TypeOK
  <2>4. Recorded' /\ BookedOnce'
    BY <2>1, <2>2 DEF Recorded, BookedOnce
  <2>5. \A u \in Sales, v \in Nat : Books(ledger[u], v) => Books(ledger'[u], v)
    BY <2>1, <2>2 DEF Books
  <2>6. ReceiptsTrue'
    <3> SUFFICES ASSUME NEW receipt \in receipts, NEW u \in Rows(receipt.key),
                        u \notin receipt.rejected
                 PROVE  Books(ledger'[u], receipt.key[u])
      BY DEF ReceiptsTrue, Rows
    <3> QED BY <2>5, Typed DEF ReceiptsTrue, Rows, TypeOK, Receipt
  <2>7. AnswersTrue'
    <3> SUFFICES ASSUME NEW t \in Tabs, flight[t].phase = "answered",
                        NEW u \in Rows(flight[t].batch), u \notin flight[t].rejected
                 PROVE  Books(ledger'[u], flight[t].batch[u])
      BY DEF AnswersTrue, Rows
    <3> QED BY <2>5, Typed DEF AnswersTrue, Rows
  <2> QED BY <2>3, <2>4, <2>6, <2>7
<1> QED BY <1>1, <1>2 DEF ServeVoid

\* Every step of every actor keeps the inductive invariant.
LEMMA StepInv == IInv /\ [Next]_vars => IInv'
<1> SUFFICES ASSUME IInv, [Next]_vars PROVE IInv'
  OBVIOUS
<1>1. CASE UNCHANGED vars
  BY <1>1 DEF vars, IInv, TypeOK, Recorded, BookedOnce, ReceiptsTrue,
              AnswersTrue, Rows
<1>2. CASE Next
  BY <1>2, CashierInv, FlushInv, ServeInv, OtherInv DEF Next
<1> QED BY <1>1, <1>2

-----------------------------------------------------------------------------
(* Safety *)

\* The inductive invariant holds throughout.
THEOREM Invariant == Spec => []IInv
  BY InitInv, StepInv, PTL DEF Spec

\* Every variable keeps its type.
THEOREM TypeCorrect == Spec => []TypeOK
  BY Invariant, PTL DEF IInv

\* However often a sale is sent, by whatever tab and in whatever batch, each
\* payment and its stock are booked once, and nothing else is.
THEOREM BookedOnceHolds == Spec => []BookedOnce
  BY Invariant, PTL DEF IInv

\* A stored answer never confirms a row that the ledger lacks.
THEOREM ReceiptsTrueHold == Spec => []ReceiptsTrue
  BY Invariant, PTL DEF IInv

-----------------------------------------------------------------------------
(* What a step may not do *)

\* Only Book and BookVoid write the ledger.
LEMMA LedgerWriters ==
  ASSUME [Next]_vars
  PROVE  \/ \E r \in requests : Book(r)
         \/ \E s \in Sales, answered \in BOOLEAN : BookVoid(s, answered)
         \/ ledger' = ledger
  BY DEF Next, vars, Cashier, RingUp, AddPayment, RequestVoid, Requeue,
         Flush, FlushStart, Ack, AckHalf, FlushRefused, FlushTimeout, TabCrash,
         Serve, Replay, RefuseOutlet, RefuseBatch, Lose, ServeVoid, LoseVoid,
         Owner, Repair, CloseOutlet, OpenOutlet, server

\* A voided sale is never changed again.
THEOREM VoidIsFinalHolds == Spec => VoidIsFinal
<1>1. ASSUME IInv, [Next]_vars, NEW s \in Sales, ledger[s].status = "VOIDED"
      PROVE  ledger'[s] = ledger[s]
  <2>1. CASE \E r \in requests : Book(r)
    BY <1>1, <2>1, BookOutcomes DEF BookOutcome
  <2>2. CASE \E u \in Sales, answered \in BOOLEAN : BookVoid(u, answered)
    BY <1>1, <2>2 DEF BookVoid, Voided, IInv, TypeOK
  <2> QED BY <1>1, <2>1, <2>2, LedgerWriters
<1>2. IInv /\ [Next]_vars =>
        [\A s \in Sales : ledger[s].status = "VOIDED" => ledger'[s] = ledger[s]]_vars
  BY <1>1
<1> QED BY <1>2, Invariant, PTL DEF Spec, VoidIsFinal

\* Only a flush that was answered drops a row, and what it drops is booked
\* or goes to the quarantine.
THEOREM DropsOnlyConfirmedHolds == Spec => DropsOnlyConfirmed
<1> DEFINE Kept(s) == Books(ledger[s], queue[s]) \/ quarantine'[s] = queue[s]
<1>1. ASSUME IInv, [Next]_vars, NEW s \in Sales, queue[s] # 0, queue'[s] = 0
      PROVE  Kept(s)
  <2>1. CASE \E t \in Tabs : Ack(t)
    <3> PICK t \in Tabs : Ack(t)
      BY <2>1
    <3>1. flight[t].batch[s] = queue[s] /\ flight[t].phase = "answered"
      BY <1>1 DEF Ack, Prune, Rows
    <3>2. quarantine'[s] = Quarantined(t)[s]
      BY DEF Ack
    <3> QED BY <1>1, <3>1, <3>2 DEF Quarantined, IInv, AnswersTrue, Rows
  <2>2. CASE \A t \in Tabs : ~Ack(t)
    <3>1. queue' = queue \/ \E u \in Sales, v \in Nat \ {0} : Enqueue(u, v)
      BY <1>1, <2>2, Typed
         DEF IInv, Next, vars, Cashier, RingUp, AddPayment, RequestVoid, Requeue,
             Flush, FlushStart, AckHalf, FlushRefused, FlushTimeout, TabCrash,
             Serve, Replay, Book, RefuseOutlet, RefuseBatch, Lose, ServeVoid,
             BookVoid, LoseVoid, Owner, Repair, CloseOutlet, OpenOutlet, outbox
    <3> QED BY <1>1, <3>1 DEF Enqueue, IInv, TypeOK, Load
  <2> QED BY <2>1, <2>2
<1>2. IInv /\ [Next]_vars =>
        [\A s \in Sales : queue[s] # 0 /\ queue'[s] = 0 => Kept(s)]_vars
  BY <1>1
<1> QED BY <1>2, Invariant, PTL DEF Spec, DropsOnlyConfirmed


-----------------------------------------------------------------------------
(* The outbox and the server implement SalesLedger *)

\* Only the cashier's payments write the order.
LEMMA OrderWriters ==
  ASSUME [Next]_vars
  PROVE  \/ \E s \in Sales : RingUp(s) \/ AddPayment(s)
         \/ order' = order
  BY DEF Next, vars, Cashier, RequestVoid, Requeue,
         Flush, FlushStart, Ack, AckHalf, FlushRefused, FlushTimeout, TabCrash,
         Serve, Replay, Book, RefuseOutlet, RefuseBatch, Lose, ServeVoid,
         BookVoid, LoseVoid, Owner, Repair, CloseOutlet, OpenOutlet, device

\* Every behaviour of the outbox and the server is a behaviour of SalesLedger:
\* the cash a sale leaves in the drawer moves only when a recorded payment is
\* first booked and when the sale is first voided.
THEOREM LedgerPromiseHolds == Spec => LedgerPromise
<1> DEFINE booked == [s \in Sales |-> ledger[s].paid]
           drawer == [s \in Sales |-> ledger[s].cash]
           void == {s \in Sales : ledger[s].status = "VOIDED"}
<1>1. Init => Ledger!Init
  BY DEF Init, Ledger!Init, Empty, Absent
<1>2. ASSUME IInv, IInv', [Next]_vars PROVE [Ledger!Next]_(Ledger!ledgerVars)
  <2> USE <1>2 DEF IInv
  <2>1. CASE \E s \in Sales : RingUp(s) \/ AddPayment(s)
    <3> PICK s \in Sales : RingUp(s) \/ AddPayment(s)
      BY <2>1
    <3>1. order[s] < Payments[s] /\ order' = [order EXCEPT ![s] = @ + 1]
      BY Typed DEF RingUp, AddPayment
    <3>2. ledger' = ledger
      BY DEF RingUp, AddPayment, server
    <3> QED BY <3>1, <3>2 DEF Ledger!Next, Ledger!Pay
  <2>2. CASE \E r \in requests : Book(r)
    <3> PICK r \in requests : Book(r)
      BY <2>2
    <3>1. order' = order
      BY DEF Book, device
    <3>2. ASSUME NEW s \in Sales
          PROVE  /\ booked'[s] \in Nat
                 /\ booked'[s] # booked[s] =>
                      /\ s \notin void
                      /\ booked[s] < booked'[s] /\ booked'[s] <= order[s]
                 /\ drawer'[s] = drawer[s] + (booked'[s] - booked[s])
                 /\ s \in void' <=> s \in void
      <4>1. BookOutcome(r, s) /\ BookedRight(ledger[s], s, order[s])
        BY <3>2, BookOutcomes DEF BookedOnce
      <4>2. ledger[s] \in Entry /\ ledger'[s] \in Entry
        BY <3>2 DEF TypeOK
      <4>3. ledger[s].paid \in Nat /\ ledger'[s].paid \in Nat
        BY <4>2 DEF Entry, Version
      <4> QED BY <3>2, <4>1, <4>2, <4>3 DEF BookOutcome, BookedRight
    <3>3. void' = void
      BY <3>2
    <3>4. /\ booked' \in [Sales -> Nat]
          /\ drawer' = [s \in Sales |-> drawer[s] + (booked'[s] - booked[s])]
      BY <3>2
    <3> QED BY <3>1, <3>2, <3>3, <3>4 DEF Ledger!Next, Ledger!BookPayments
  <2>3. CASE \E s \in Sales, answered \in BOOLEAN : BookVoid(s, answered)
    <3> PICK s \in Sales, answered \in BOOLEAN : BookVoid(s, answered)
      BY <2>3
    <3>1. order' = order /\ ledger' = [ledger EXCEPT ![s] = Voided(@)]
      BY DEF BookVoid
    <3>2. CASE Voided(ledger[s]) = ledger[s]
      BY <3>1, <3>2 DEF Ledger!ledgerVars, TypeOK
    <3>3. CASE Voided(ledger[s]) # ledger[s]
      <4>1. /\ ledger[s].paid > 0 /\ ledger[s].status # "VOIDED"
            /\ Voided(ledger[s]).status = "VOIDED"
            /\ Voided(ledger[s]).paid = ledger[s].paid
            /\ Voided(ledger[s]).cash = 0
        BY <3>3, Typed
           DEF Voided, Present, Entry, Version, BookedOnce, BookedRight
      <4>2. \A u \in Sales : ledger'[u] = IF u = s THEN Voided(ledger[s]) ELSE ledger[u]
        BY <3>1 DEF TypeOK
      <4>3. void' = void \cup {s} /\ s \notin void
        BY <4>1, <4>2
      <4>4. booked' = booked /\ drawer' = [drawer EXCEPT ![s] = 0]
        BY <4>1, <4>2
      <4> QED BY <3>1, <4>1, <4>3, <4>4 DEF Ledger!Next, Ledger!Void
    <3> QED BY <3>2, <3>3
  <2>4. CASE ledger' = ledger /\ order' = order
    BY <2>4 DEF Ledger!ledgerVars
  <2> QED BY <2>1, <2>2, <2>3, <2>4, LedgerWriters, OrderWriters
<1> QED BY <1>1, <1>2, Invariant, PTL DEF Spec, LedgerPromise, Ledger!Spec
-----------------------------------------------------------------------------
(* No sale is lost, whatever the tabs do to each other's outbox *)

\* What may become of a sale's row in the queue.
LEMMA QueueSource ==
  ASSUME IInv, [Next]_vars, NEW s \in Sales
  PROVE  \/ queue'[s] = queue[s]
         \/ RingUp(s) \/ AddPayment(s)
         \/ queue[s] = 0 /\ queue'[s] = quarantine[s]
         \/ /\ queue'[s] = 0
            /\ \E t \in Tabs : Ack(t) /\ flight[t].batch[s] = queue[s]
<1>1. CASE \E t \in Tabs : Ack(t)
  BY <1>1 DEF Ack, Prune, Rows
<1>2. CASE \E u \in Sales : \/ RingUp(u) \/ AddPayment(u)
                            \/ \E wholly \in BOOLEAN : Requeue(u, wholly)
  BY <1>2 DEF RingUp, AddPayment, Requeue, Enqueue, IInv, TypeOK, Load
<1>3. CASE queue' = queue
  BY <1>3
<1> QED
  BY <1>1, <1>2, <1>3
     DEF Next, vars, Cashier, RequestVoid,
         Flush, FlushStart, AckHalf, FlushRefused, FlushTimeout, TabCrash,
         Serve, Replay, Book, RefuseOutlet, RefuseBatch, Lose, ServeVoid,
         BookVoid, LoseVoid, Owner, Repair, CloseOutlet, OpenOutlet, outbox

\* The quarantine is written by an answer, which only adds to it, and by
\* requeueQuarantined, once the queue holds the row.
LEMMA QuarantineWriters ==
  ASSUME IInv, [Next]_vars, NEW s \in Sales, quarantine[s] # 0
  PROVE  quarantine'[s] # 0 \/ queue'[s] # 0
<1>1. CASE \E t \in Tabs : Ack(t) \/ AckHalf(t)
  BY <1>1 DEF Ack, AckHalf, Quarantined
<1>2. CASE \E u \in Sales, wholly \in BOOLEAN : Requeue(u, wholly)
  <2> PICK u \in Sales, wholly \in BOOLEAN : Requeue(u, wholly)
    BY <1>2
  <2>1. CASE u = s
    BY <2>1 DEF Requeue, Enqueue, IInv, TypeOK, Load
  <2>2. CASE u # s
    BY <2>2 DEF Requeue, IInv, TypeOK, Load
  <2> QED BY <2>1, <2>2
<1>3. CASE quarantine' = quarantine
  BY <1>3
<1> QED
  BY <1>1, <1>2, <1>3
     DEF Next, vars, Cashier, RingUp, AddPayment, RequestVoid,
         Flush, FlushStart, FlushRefused, FlushTimeout, TabCrash,
         Serve, Replay, Book, RefuseOutlet, RefuseBatch, Lose, ServeVoid,
         BookVoid, LoseVoid, Owner, Repair, CloseOutlet, OpenOutlet, outbox

\* A booked sale stays booked.
LEMMA PresentStays ==
  ASSUME IInv, [Next]_vars, NEW s \in Sales, Present(ledger[s])
  PROVE  Present(ledger'[s])
<1>1. CASE \E r \in requests : Book(r)
  BY <1>1, BookOutcomes DEF BookOutcome
<1>2. CASE \E u \in Sales, answered \in BOOLEAN : BookVoid(u, answered)
  BY <1>2 DEF BookVoid, Voided, Present, IInv, TypeOK, Entry
<1> QED BY <1>1, <1>2, LedgerWriters

\* Some version of every sale is in the outbox, set aside or booked, with any
\* number of tabs.
THEOREM SaleKeptHolds == Spec => []SaleKept
<1>1. Init => SaleKept
  BY DEF Init, SaleKept, Empty
<1>2. ASSUME IInv, [Next]_vars, SaleKept PROVE SaleKept'
  <2> SUFFICES ASSUME NEW s \in Sales, order'[s] # 0
               PROVE  \/ queue'[s] # 0 \/ quarantine'[s] # 0
                      \/ Present(ledger'[s])
    BY DEF SaleKept
  <2>1. CASE RingUp(s) \/ AddPayment(s)
    BY <1>2, <2>1, Typed DEF RingUp, AddPayment, Enqueue, IInv, TypeOK, Load
  <2>2. CASE ~(RingUp(s) \/ AddPayment(s))
    <3>1. order[s] # 0
      BY <1>2, <2>2, OrderWriters DEF RingUp, AddPayment, IInv, TypeOK, Load
    <3>2. CASE queue[s] # 0 /\ queue'[s] = 0
      <4>1. PICK t \in Tabs : Ack(t)
        BY <1>2, <2>2, <3>2, QueueSource
      <4>2. flight[t].batch[s] = queue[s] /\ flight[t].phase = "answered"
        BY <3>2, <4>1 DEF Ack, Prune, Rows
      <4>3. CASE s \in flight[t].rejected
        BY <3>2, <4>1, <4>2, <4>3 DEF Ack, Quarantined
      <4>4. CASE s \notin flight[t].rejected
        <5>1. Present(ledger[s])
          BY <1>2, <3>2, <4>2, <4>4 DEF IInv, AnswersTrue, Rows, Books
        <5> QED BY <1>2, <5>1, PresentStays
      <4> QED BY <4>3, <4>4
    <3>3. CASE quarantine[s] # 0
      BY <1>2, <3>3, QuarantineWriters
    <3>4. CASE Present(ledger[s])
      BY <1>2, <3>4, PresentStays
    <3> QED BY <1>2, <3>1, <3>2, <3>3, <3>4 DEF SaleKept
  <2> QED BY <2>1, <2>2
<1> QED BY <1>1, <1>2, Invariant, PTL DEF Spec
-----------------------------------------------------------------------------
(* With one tab, nothing recorded is lost *)

\* What is kept of sale s when a row older than the order may be about: the
\* newest row is still queued, or it is booked.
Newest(s) == queue[s] = order[s] \/ Books(ledger[s], order[s])

\* An older row is queued, or in the batch of a flush, only besides the newest.
OldRowsSpare ==
  /\ \A s \in Sales : queue[s] # 0 => Newest(s)
  /\ \A t \in Tabs, s \in Sales : flight[t].batch[s] # 0 => Newest(s)

\* Payments that are booked stay booked.
LEMMA BooksStay ==
  ASSUME IInv, IInv', [Next]_vars, NEW s \in Sales, NEW v \in Nat,
         Books(ledger[s], v)
  PROVE  Books(ledger'[s], v)
<1>1. /\ ledger[s].paid \in Nat /\ ledger'[s].paid \in Nat
      /\ Present(ledger'[s])
  BY PresentStays DEF IInv, TypeOK, Entry, Version, Books
<1>2. ledger[s].paid <= ledger'[s].paid
  <2>1. CASE \E r \in requests : Book(r)
    BY <2>1, BookOutcomes DEF BookOutcome
  <2>2. CASE \E u \in Sales, answered \in BOOLEAN : BookVoid(u, answered)
    <3>1. ledger'[s].paid = ledger[s].paid
      BY <2>2, VoidedRight, Typed
         DEF BookVoid, IInv, TypeOK, BookedOnce, Load
    <3> QED BY <1>1, <3>1
  <2>3. CASE ledger' = ledger
    BY <1>1, <2>3
  <2> QED BY <2>1, <2>2, <2>3, LedgerWriters
<1> QED BY <1>1, <1>2 DEF Books

\* An answer and a served request change a flight's phase, not its batch; only
\* a flush that starts takes rows, from the queue.
LEMMA BatchWriters ==
  ASSUME IInv, [Next]_vars, NEW t \in Tabs, NEW s \in Sales,
         flight'[t].batch[s] # 0
  PROVE  \/ flight'[t].batch[s] = flight[t].batch[s]
         \/ /\ flight'[t].batch[s] = queue[s]
            /\ UNCHANGED <<order, queue, quarantine, ledger>>
<1>1. CASE \E u \in Tabs, force \in BOOLEAN : FlushStart(u, force)
  <2> PICK u \in Tabs, force \in BOOLEAN : FlushStart(u, force)
    BY <1>1
  <2>1. NextBatch[s] \in {0, queue[s]}
    BY DEF NextBatch
  <2> HIDE DEF NextBatch
  <2> QED BY <2>1 DEF FlushStart, IInv, TypeOK, device, outbox, server
<1>2. CASE \E u \in Tabs : flight' = [flight EXCEPT ![u] = Idle]
  BY <1>2 DEF IInv, TypeOK, Idle, Empty
<1>3. CASE \E r \in requests, phase \in {"answered", "parked", "refused"},
              rejected \in SUBSET Sales : Answer(r, phase, rejected)
  BY <1>3 DEF Answer, IInv, TypeOK, Request
<1>4. CASE flight' = flight
  BY <1>4
<1>5. \A r \in requests : Serve(r) =>
        \E phase \in {"answered", "parked", "refused"},
           rejected \in SUBSET Sales : Answer(r, phase, rejected)
  BY DEF Serve, Replay, Book, RefuseOutlet, RefuseBatch, Rejected, Rows,
         IInv, TypeOK, Receipt
<1>6. \/ \E u \in Tabs, force \in BOOLEAN : FlushStart(u, force)
      \/ \E u \in Tabs : flight' = [flight EXCEPT ![u] = Idle]
      \/ \E r \in requests : Serve(r)
      \/ flight' = flight
  BY DEF Next, vars, Cashier, RingUp, AddPayment, RequestVoid, Requeue,
         Flush, Ack, AckHalf, FlushRefused, FlushTimeout, TabCrash, Lose,
         ServeVoid, BookVoid, LoseVoid, Owner, Repair, CloseOutlet, OpenOutlet,
         network
<1> QED BY <1>1, <1>2, <1>3, <1>4, <1>5, <1>6

\* The quarantine gets a row from an answered batch only.
LEMMA QuarantineSource ==
  ASSUME IInv, [Next]_vars, NEW s \in Sales
  PROVE  \/ quarantine'[s] = quarantine[s]
         \/ /\ quarantine'[s] = 0
            /\ queue'[s] # 0 /\ ledger' = ledger /\ order' = order
            /\ queue[s] = 0 => queue'[s] = quarantine[s]
            /\ queue[s] # 0 => queue'[s] = queue[s]
         \/ \E t \in Tabs : /\ flight[t].batch[s] # 0
                            /\ quarantine'[s] = flight[t].batch[s]
                            /\ ledger' = ledger /\ order' = order
<1>1. CASE \E t \in Tabs : Ack(t) \/ AckHalf(t)
  BY <1>1 DEF Ack, AckHalf, Quarantined, device, server
<1>2. CASE \E u \in Sales, wholly \in BOOLEAN : Requeue(u, wholly)
  <2> PICK u \in Sales, wholly \in BOOLEAN : Requeue(u, wholly)
    BY <1>2
  <2>1. CASE u = s
    BY <2>1 DEF Requeue, Enqueue, IInv, TypeOK, Load, device, server
  <2>2. CASE u # s
    BY <2>2 DEF Requeue, IInv, TypeOK, Load
  <2> QED BY <2>1, <2>2
<1>3. CASE quarantine' = quarantine
  BY <1>3
<1> QED
  BY <1>1, <1>2, <1>3
     DEF Next, vars, Cashier, RingUp, AddPayment, RequestVoid,
         Flush, FlushStart, FlushRefused, FlushTimeout, TabCrash,
         Serve, Replay, Book, RefuseOutlet, RefuseBatch, Lose, ServeVoid,
         BookVoid, LoseVoid, Owner, Repair, CloseOutlet, OpenOutlet, outbox
\* Everything recorded on one sale is kept through a step of the only tab.
LEMMA KeptStep ==
  ASSUME NEW t, Tabs = {t}, IInv, IInv', [Next]_vars, NEW s \in Sales,
         OldRowsSpare,
         order[s] # 0 => quarantine[s] = order[s] \/ Newest(s)
  PROVE  /\ order'[s] # 0 => quarantine'[s] = order'[s] \/ Newest(s)'
         /\ queue'[s] # 0 => Newest(s)'
         /\ flight'[t].batch[s] # 0 => Newest(s)'
<1>1. CASE RingUp(s) \/ AddPayment(s)
  BY <1>1 DEF RingUp, AddPayment, Enqueue, Newest, IInv, TypeOK, Load
<1>2. CASE ~(RingUp(s) \/ AddPayment(s))
  <2>1. order'[s] = order[s] /\ order[s] \in Nat
    BY <1>2, OrderWriters, Typed
       DEF RingUp, AddPayment, IInv, TypeOK, Load
  <2>2. Books(ledger[s], order[s]) => Books(ledger'[s], order[s])
    BY <2>1, BooksStay
  <2>3. CASE Newest(s)
    <3>1. CASE Books(ledger[s], order[s])
      BY <2>1, <2>2, <3>1 DEF Newest
    <3>2. CASE queue[s] = order[s] /\ queue'[s] = queue[s]
      BY <2>1, <3>2 DEF Newest
    <3>3. CASE queue[s] = 0 /\ queue[s] = order[s] /\ queue'[s] = quarantine[s]
      BY <2>1, <3>3, Typed DEF Newest, IInv, Recorded
    <3>4. CASE /\ queue[s] = order[s] /\ queue'[s] = 0
               /\ Ack(t) /\ flight[t].batch[s] = queue[s]
      <4>1. flight'[t].batch[s] = 0
        BY <3>4 DEF Ack, Idle, Empty, IInv, TypeOK
      <4>2. CASE s \in flight[t].rejected
        BY <2>1, <3>4, <4>1, <4>2 DEF Ack, Quarantined, Newest
      <4>3. CASE s \notin flight[t].rejected
        BY <2>1, <2>2, <3>4, <4>1, <4>3
           DEF Ack, Newest, IInv, AnswersTrue, Rows
      <4> QED BY <4>2, <4>3
    <3> QED BY <1>2, <2>3, <3>1, <3>2, <3>3, <3>4, QueueSource DEF Newest
  <2>4. CASE ~Newest(s)
    <3>1. /\ queue[s] = 0 /\ flight[t].batch[s] = 0
          /\ order[s] # 0 => quarantine[s] = order[s]
      BY <2>4 DEF OldRowsSpare
    <3>2. order[s] # 0
      BY <2>4, <3>1 DEF Newest
    <3>3. flight'[t].batch[s] = 0
      BY <3>1, BatchWriters
    <3>4. queue'[s] = 0 \/ queue'[s] = order'[s]
      BY <1>2, <2>1, <3>1, <3>2, QueueSource
    <3>5. quarantine'[s] = quarantine[s] \/ queue'[s] # 0
      BY <3>1, QuarantineSource
    <3> QED BY <2>1, <3>1, <3>2, <3>3, <3>4, <3>5 DEF Newest
  <2> QED BY <2>3, <2>4
<1> QED BY <1>1, <1>2

\* With one tab everything the cashier recorded is in the outbox, set aside or
\* booked, whatever request or answer is lost and wherever the tab dies.
THEOREM NeverLostHolds ==
  ASSUME NEW t, Tabs = {t}
  PROVE  Spec => []NeverLost
<1>1. Init => NeverLost /\ OldRowsSpare
  BY DEF Init, NeverLost, OldRowsSpare, Empty, Idle
<1>2. ASSUME IInv, IInv', [Next]_vars, NeverLost, OldRowsSpare
      PROVE  NeverLost' /\ OldRowsSpare'
  <2>1. \A s \in Sales : order[s] # 0 => quarantine[s] = order[s] \/ Newest(s)
    BY <1>2 DEF NeverLost, Newest
  <2>2. \A s \in Sales :
          /\ order'[s] # 0 => quarantine'[s] = order'[s] \/ Newest(s)'
          /\ queue'[s] # 0 => Newest(s)'
          /\ flight'[t].batch[s] # 0 => Newest(s)'
    BY <1>2, <2>1, KeptStep
  <2>3. OldRowsSpare'
    BY <2>2 DEF OldRowsSpare
  <2>4. NeverLost'
    BY <2>2 DEF NeverLost, Newest
  <2> QED BY <2>3, <2>4
<1> QED BY <1>1, <1>2, Invariant, PTL DEF Spec
=============================================================================
