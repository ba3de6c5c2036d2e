---------------------------- MODULE BillingProofs ----------------------------
(***************************************************************************)
(* Proofs about Billing, for any offers, prices, periods, outlets and      *)
(* checkouts: payments are applied once and to the subscription they were  *)
(* quoted on, none is lost from sight, the plan covers the active outlets, *)
(* and a running period is never cut short uncredited.                     *)
(***************************************************************************)
EXTENDS Billing, FiniteSetTheorems, TLAPS

-----------------------------------------------------------------------------
(* Arithmetic of periods *)

LEMMA DivMonotone ==
  ASSUME NEW a \in Int, NEW b \in Int, NEW n \in Nat \ {0}, a <= b
  PROVE  /\ a \div n \in Int /\ b \div n \in Int
         /\ a \div n <= b \div n
<1>1. /\ a \div n \in Int /\ b \div n \in Int
      /\ a = n * (a \div n) + (a % n) /\ a % n \in 0 .. n - 1
      /\ b = n * (b \div n) + (b % n) /\ b % n \in 0 .. n - 1
  OBVIOUS
<1> DEFINE x == a \div n
           y == b \div n
<1>2. /\ x \in Int /\ y \in Int /\ n * x <= a /\ b < n * y + n
  BY <1>1
<1> HIDE DEF x, y
<1>3. ASSUME y < x PROVE FALSE
  <2>1. y + 1 <= x
    BY <1>2, <1>3
  <2>2. n * (y + 1) <= n * x
    BY <2>1, <1>2
  <2>3. n * (y + 1) = n * y + n
    BY <1>2
  <2> QED  BY <2>2, <2>3, <1>2
<1> QED  BY <1>2, <1>3 DEF x, y

LEMMA ProductMonotone ==
  ASSUME NEW r \in Nat, NEW a \in Int, NEW b \in Int, a <= b
  PROVE  r * a \in Int /\ r * a <= r * b
OBVIOUS

\* What is left of a period falls with the time.
LEMMA UnusedFalls ==
  ASSUME NEW s \in Subscription, s.start < s.end,
         NEW t \in Nat, NEW u \in Nat, t <= u
  PROVE  Unused(s, u) \in Int /\ Unused(s, u) <= Unused(s, t)
<1>1. /\ s.recurring \in Nat /\ s.end - s.start \in Nat \ {0}
      /\ s.end \in Nat /\ s.start \in Nat
  BY DEF Subscription
<1>2. /\ s.end - LaterOf(u, s.start) \in Int /\ s.end - LaterOf(t, s.start) \in Int
      /\ s.end - LaterOf(u, s.start) <= s.end - LaterOf(t, s.start)
  BY <1>1 DEF LaterOf
<1>3. /\ s.recurring * (s.end - LaterOf(u, s.start)) \in Int
      /\ s.recurring * (s.end - LaterOf(t, s.start)) \in Int
      /\ s.recurring * (s.end - LaterOf(u, s.start)) <= s.recurring * (s.end - LaterOf(t, s.start))
  BY <1>1, <1>2, ProductMonotone
<1> QED  BY <1>1, <1>3, DivMonotone DEF Unused

\* What is left of a running period is worth something, or nothing, but no debt.
LEMMA UnusedNatural ==
  ASSUME NEW s \in Subscription, s.start < s.end, NEW t \in Nat, t < s.end
  PROVE  Unused(s, t) \in Nat
<1>1. /\ s.recurring \in Nat /\ s.end - s.start \in Nat \ {0}
      /\ s.end \in Nat /\ s.start \in Nat
  BY DEF Subscription
<1>2. s.end - LaterOf(t, s.start) \in Nat
  BY <1>1 DEF LaterOf
<1> DEFINE n == s.end - s.start
           p == s.recurring * (s.end - LaterOf(t, s.start))
<1>3. p \in Int /\ s.recurring * 0 = 0 /\ s.recurring * 0 <= p
  BY <1>1, <1>2, ProductMonotone
<1>4. p \in Int /\ 0 <= p /\ n \in Nat \ {0}
  BY <1>1, <1>3
<1> HIDE DEF p, n
<1>5. 0 \div n = 0
  BY <1>4
<1>6. /\ 0 \div n \in Int /\ p \div n \in Int
      /\ 0 \div n <= p \div n
  BY <1>4, DivMonotone
<1> QED  BY <1>5, <1>6 DEF Unused, p, n

-----------------------------------------------------------------------------
(* The invariant *)

\* A bought plan is an offer; every period has a length.
SubRight ==
  /\ sub.start < sub.end
  /\ sub.status = "ACTIVE" <=> sub.offer \in Offers

\* A quote that is not stale: it renews the running period, or credits what is
\* left of it.
Fits(q, s, t) == s.status = "ACTIVE" /\ t < s.end =>
  (q.offer = s.offer /\ q.start = s.end) \/ q.credit >= Unused(s, t)

\* A quote made for subscription s or an older state of it.
Honest(q, s, t) ==
  /\ q.offer \in Offers
  /\ q.revision <= s.revision
  /\ q.revision = s.revision => Fits(q, s, t)

RequestsRight == \A k \in Keys :
  /\ requests[k].phase = "quoted" => Honest(requests[k].quote, sub, now)
  /\ requests[k].phase \in {"idle", "quoted"} <=> invoices[k].status = "none"

InvoicesRight == \A k \in Keys :
  /\ invoices[k].status # "none" => Honest(invoices[k].quote, sub, now)
  /\ invoices[k].status = "none" => gateway[k] = "unpaid"
  /\ Applied(k) => invoices[k].quote.revision < sub.revision

IInv ==
  /\ TypeOK
  /\ SubRight
  /\ RequestsRight
  /\ InvoicesRight
  /\ PaidApart
  /\ PaymentsAccounted
  /\ PaidOutletsCovered

-----------------------------------------------------------------------------
(* The parts of the model *)

LEMMA Numbers ==
  /\ \A o \in Plans : Capacity[o] \in Nat /\ Length[o] \in Nat /\ Length[o] > 0
  /\ \A o \in Offers : o \in Plans /\ Price[o] \in Nat /\ Price[o] > 0
  /\ Trial \in Plans /\ Trial \notin Offers
  /\ NoQuote \in Quote
BY TrialAssumption, CapacityAssumption, LengthAssumption, PriceAssumption
   DEF Plans, NoQuote, Quote

\* A quote has its type and is honest when it is made.
LEMMA QuoteRight ==
  ASSUME TypeOK, SubRight, NEW o \in Offers
  PROVE  QuoteFor(o) \in Quote /\ Honest(QuoteFor(o), sub, now)
<1>1. /\ o \in Plans /\ sub \in Subscription /\ now \in Nat
      /\ sub.revision \in Nat /\ sub.end \in Nat /\ sub.start < sub.end
  BY Numbers DEF TypeOK, Subscription, SubRight
<1>2. Running => Unused(sub, now) \in Nat
  BY <1>1, UnusedNatural DEF Running
<1>3. Credit(o) \in Nat
  BY <1>2 DEF Credit
<1>4. QuoteFor(o) \in Quote
  BY <1>1, <1>3 DEF QuoteFor, Quote
<1>5. Fits(QuoteFor(o), sub, now)
  BY <1>2 DEF Fits, QuoteFor, Credit, Running
<1> QED  BY <1>1, <1>4, <1>5 DEF Honest, QuoteFor

\* What an applied quote, an override or an extension makes of the subscription.
LEMMA ApplyRight ==
  ASSUME TypeOK, NEW q \in Quote, q.offer \in Offers, ApplyQuote(q)
  PROVE  /\ sub' \in Subscription /\ SubRight' /\ sub'.revision = sub.revision + 1
         /\ sub'.offer = q.offer
<1>1. /\ sub.revision \in Nat /\ q.start \in Nat /\ q.offer \in Plans
      /\ Length[q.offer] \in Nat /\ Length[q.offer] > 0 /\ Price[q.offer] \in Nat
  BY Numbers DEF TypeOK, Subscription, Quote
<1>2. /\ Period(q.offer, q.start) \in Nat /\ q.start < Period(q.offer, q.start)
  BY <1>1 DEF Period
<1> QED  BY <1>1, <1>2 DEF ApplyQuote, Subscription, SubRight

LEMMA GrantRight ==
  ASSUME TypeOK, SubRight, NEW o \in Offers, GrantPlan(o)
  PROVE  /\ sub' \in Subscription /\ SubRight' /\ sub'.revision = sub.revision + 1
         /\ sub'.offer = o
<1>1. /\ sub \in Subscription /\ sub.revision \in Nat /\ now \in Nat /\ o \in Plans
      /\ sub.start \in Nat /\ sub.end \in Nat /\ sub.recurring \in Nat
      /\ Length[o] \in Nat /\ Length[o] > 0 /\ sub.start < sub.end
  BY Numbers DEF TypeOK, Subscription, SubRight
<1>2. Period(o, now) \in Nat /\ now < Period(o, now)
  BY <1>1 DEF Period
<1>3. sub' = [offer |-> o, status |-> "ACTIVE",
              start |-> IF Running THEN sub.start ELSE now,
              end |-> IF Running THEN sub.end ELSE Period(o, now),
              recurring |-> IF Running THEN sub.recurring ELSE 0,
              revision |-> sub.revision + 1]
  BY DEF GrantPlan
<1>4. CASE Running
  BY <1>1, <1>3, <1>4 DEF Subscription, SubRight
<1>5. CASE ~Running
  BY <1>1, <1>2, <1>3, <1>5 DEF Subscription, SubRight
<1> QED  BY <1>4, <1>5

LEMMA ExtendRight ==
  ASSUME TypeOK, SubRight, ExtendTrial
  PROVE  /\ sub' \in Subscription /\ SubRight' /\ sub'.revision = sub.revision + 1
         /\ sub'.status = "TRIAL" /\ ~Running
<1>1. /\ sub \in Subscription /\ sub.revision \in Nat /\ now \in Nat
      /\ sub.start \in Nat /\ sub.end \in Nat /\ sub.start < sub.end
      /\ sub.offer = Trial /\ Trial \notin Offers /\ sub.status # "ACTIVE"
  BY Numbers DEF TypeOK, Subscription, SubRight, ExtendTrial
<1>2. LaterOf(sub.end, now) + 1 \in Nat /\ sub.start < LaterOf(sub.end, now) + 1
  BY <1>1 DEF LaterOf
<1>3. /\ DOMAIN sub = {"offer", "status", "start", "end", "recurring", "revision"}
      /\ sub.recurring \in Nat
  BY <1>1 DEF Subscription
<1> DEFINE e == LaterOf(sub.end, now) + 1
<1>4. sub' = [[[sub EXCEPT !.end = e] EXCEPT !.status = "TRIAL"]
                EXCEPT !.revision = sub.revision + 1]
  BY DEF ExtendTrial
<1>5. sub = [offer |-> sub.offer, status |-> sub.status, start |-> sub.start,
             end |-> sub.end, recurring |-> sub.recurring, revision |-> sub.revision]
  BY <1>1 DEF Subscription
<1> HIDE DEF e
<1>6. sub' = [offer |-> sub.offer, status |-> "TRIAL", start |-> sub.start,
              end |-> e, recurring |-> sub.recurring, revision |-> sub.revision + 1]
  BY <1>4, <1>5
<1>7. Trial \in Plans /\ e \in Nat /\ sub.start < e
  BY <1>2, Numbers DEF e
<1> QED  BY <1>1, <1>3, <1>6, <1>7 DEF Subscription, SubRight, Running

\* The three ways a notice can end.
LEMMA Reconciled ==
  ASSUME TypeOK, NEW k \in Keys, NEW kind, NEW issue \in BOOLEAN,
         Reconcile(k, kind, issue)
  PROVE  \/ /\ UNCHANGED <<sub, invoices>>
            /\ \/ events' = events
               \/ /\ events' = events \cup Event(k, kind)
                  /\ kind = "failure" \/ Applied(k)
         \/ /\ invoices' = [invoices EXCEPT ![k].status = "APPLIED"]
            /\ events' = events \cup Event(k, kind)
            /\ ApplyQuote(invoices[k].quote)
            /\ ~issue /\ kind # "failure" /\ ~Applied(k)
            /\ invoices[k].quote.revision = sub.revision
            /\ ~(Usage > Capacity[invoices[k].quote.offer])
         \/ /\ invoices' = [invoices EXCEPT ![k].status = "REVIEW"]
            /\ events' = events \cup Event(k, kind)
            /\ sub' = sub
            /\ ~Applied(k)
BY DEF Reconcile, Outcome, MarkInvoice, Applied

\* An honest quote stays honest while time passes, and is stale once the
\* subscription has moved on.
LEMMA HonestKept ==
  ASSUME NEW q \in Quote, NEW s \in Subscription, NEW t \in Nat,
         NEW s2 \in Subscription, NEW t2 \in Nat, s.start < s.end,
         (s2 = s /\ t <= t2) \/ s2.revision = s.revision + 1,
         Honest(q, s, t)
  PROVE  Honest(q, s2, t2)
<1>1. /\ q.revision \in Nat /\ q.credit \in Int /\ s.revision \in Nat /\ s.end \in Nat
  BY DEF Quote, Subscription
<1>2. CASE s2.revision = s.revision + 1
  BY <1>1, <1>2 DEF Honest
<1>3. CASE s2 = s /\ t <= t2
  <2>1. /\ Unused(s, t2) \in Int /\ Unused(s, t) \in Int
        /\ Unused(s, t2) <= Unused(s, t)
    BY <1>3, UnusedFalls
  <2>2. Fits(q, s, t) => Fits(q, s, t2)
    BY <1>1, <1>3, <2>1 DEF Fits
  <2> QED  BY <1>3, <2>2 DEF Honest
<1> QED  BY <1>2, <1>3

\* How any step may change the subscription and the clock.
Moves ==
  /\ sub' \in Subscription /\ SubRight' /\ now' \in Nat
  /\ (sub' = sub /\ now <= now') \/ sub'.revision = sub.revision + 1

LEMMA HonestStep ==
  ASSUME IInv, Moves, NEW q \in Quote, Honest(q, sub, now)
  PROVE  Honest(q, sub', now')
<1>1. sub \in Subscription /\ now \in Nat /\ sub.start < sub.end
  BY DEF IInv, TypeOK, SubRight
<1> QED  BY <1>1, HonestKept DEF Moves

LEMMA Typed ==
  ASSUME TypeOK, NEW k \in Keys
  PROVE  /\ invoices[k] \in Invoice /\ invoices[k].quote \in Quote
         /\ requests[k] \in Request /\ requests[k].quote \in Quote
         /\ invoices[k].quote.revision \in Nat /\ sub.revision \in Nat
BY DEF TypeOK, Invoice, Request, Quote, Subscription

-----------------------------------------------------------------------------
(* Steps *)

Payments == PaidApart /\ PaymentsAccounted

\* Steps that leave requests, invoices and payments alone: the clock, the
\* outlets and the operator's overrides.
LEMMA Bystander ==
  ASSUME IInv, Moves, UNCHANGED <<requests, invoices, paymentVars>>
  PROVE  RequestsRight' /\ InvoicesRight' /\ Payments'
<1>1. Payments'
  BY DEF IInv, Payments, PaidApart, PaymentsAccounted, Heard, Applied, paymentVars
<1>2. sub.revision \in Nat /\ sub'.revision \in Nat /\ sub'.revision >= sub.revision
  BY DEF IInv, TypeOK, Moves, Subscription
<1>3. ASSUME NEW k \in Keys
      PROVE  /\ requests[k].phase = "quoted" => Honest(requests[k].quote, sub', now')
             /\ invoices[k].status # "none" => Honest(invoices[k].quote, sub', now')
             /\ Applied(k) => invoices[k].quote.revision < sub'.revision
  <2>1. requests[k].quote \in Quote /\ invoices[k].quote \in Quote
        /\ invoices[k].quote.revision \in Nat
    BY Typed DEF IInv
  <2>2. /\ requests[k].phase = "quoted" => Honest(requests[k].quote, sub, now)
        /\ invoices[k].status # "none" => Honest(invoices[k].quote, sub, now)
        /\ Applied(k) => invoices[k].quote.revision < sub.revision
    BY DEF IInv, RequestsRight, InvoicesRight
  <2> QED  BY <1>2, <2>1, <2>2, HonestStep
<1>4. RequestsRight'
  BY <1>3 DEF IInv, RequestsRight
<1>5. InvoicesRight'
  BY <1>3 DEF IInv, InvoicesRight, Applied, paymentVars
<1> QED  BY <1>1, <1>4, <1>5

\* Steps that leave the subscription and the clock alone.
LEMMA Still ==
  ASSUME IInv, UNCHANGED <<now, sub>>
  PROVE  Moves
BY DEF IInv, TypeOK, SubRight, Moves

LEMMA AskQuoteKeeps ==
  ASSUME IInv, NEW k \in Keys, NEW o \in Offers, AskQuote(k, o)
  PROVE  TypeOK' /\ RequestsRight' /\ InvoicesRight' /\ Payments'
<1>1. TypeOK /\ SubRight /\ RequestsRight /\ InvoicesRight
  BY DEF IInv
<1>2. QuoteFor(o) \in Quote /\ Honest(QuoteFor(o), sub, now)
  BY <1>1, QuoteRight
<1> DEFINE q == QuoteFor(o)
<1> HIDE DEF q
<1>3. /\ requests' = [requests EXCEPT ![k] = [phase |-> "quoted", quote |-> q]]
      /\ requests[k].phase = "idle" /\ q \in Quote /\ Honest(q, sub, now)
      /\ UNCHANGED <<now, sub, active, selection, invoices, gateway, events, told>>
  BY <1>2 DEF AskQuote, q, outletVars, paymentVars
<1>4. TypeOK'
  BY <1>1, <1>3 DEF TypeOK, Request
<1>5. RequestsRight'
  <2> SUFFICES ASSUME NEW j \in Keys
               PROVE  /\ requests'[j].phase = "quoted" => Honest(requests'[j].quote, sub, now)
                      /\ requests'[j].phase \in {"idle", "quoted"} <=> invoices[j].status = "none"
    BY <1>3 DEF RequestsRight
  <2>1. CASE j = k
    BY <2>1, <1>1, <1>3 DEF RequestsRight, TypeOK
  <2>2. CASE j # k
    BY <2>2, <1>1, <1>3 DEF RequestsRight, TypeOK
  <2> QED  BY <2>1, <2>2
<1>6. InvoicesRight' /\ Payments'
  BY <1>1, <1>3 DEF IInv, InvoicesRight, Payments, PaidApart, PaymentsAccounted,
                    Heard, Applied
<1> QED  BY <1>4, <1>5, <1>6

LEMMA PersistKeeps ==
  ASSUME IInv, NEW k \in Keys, Persist(k)
  PROVE  TypeOK' /\ RequestsRight' /\ InvoicesRight' /\ Payments'
<1>1. TypeOK /\ RequestsRight /\ InvoicesRight
  BY DEF IInv
<1> DEFINE q == requests[k].quote
<1>2. q \in Quote /\ NoQuote \in Quote /\ Honest(q, sub, now) /\ invoices[k].status = "none"
  BY <1>1, Typed, Numbers DEF Persist, RequestsRight
<1>3. /\ invoices' = [invoices EXCEPT ![k] = [status |-> "open", quote |-> q]]
      /\ requests' = [requests EXCEPT ![k] = [phase |-> "calling", quote |-> NoQuote]]
      /\ UNCHANGED <<now, sub, active, selection, gateway, events, told>>
  BY DEF Persist, outletVars, paymentVars
<1> HIDE DEF q
<1>4. TypeOK'
  BY <1>1, <1>2, <1>3 DEF TypeOK, Request, Invoice
<1>5. /\ invoices'[k] = [status |-> "open", quote |-> q]
      /\ requests'[k].phase = "calling"
      /\ \A j \in Keys : j # k => invoices'[j] = invoices[j] /\ requests'[j] = requests[j]
  BY <1>1, <1>3 DEF TypeOK
<1>6. RequestsRight'
  BY <1>1, <1>3, <1>5 DEF RequestsRight
<1>7. InvoicesRight'
  <2> SUFFICES ASSUME NEW j \in Keys
               PROVE  /\ invoices'[j].status # "none" => Honest(invoices'[j].quote, sub, now)
                      /\ invoices'[j].status = "none" => gateway[j] = "unpaid"
                      /\ invoices'[j].status = "APPLIED" =>
                           invoices'[j].quote.revision < sub.revision
    BY <1>3 DEF InvoicesRight, Applied
  <2>1. CASE j = k
    BY <2>1, <1>2, <1>5
  <2>2. CASE j # k
    BY <2>2, <1>1, <1>5 DEF InvoicesRight, Applied
  <2> QED  BY <2>1, <2>2
<1>8. PaidApart' /\ PaymentsAccounted'
  BY <1>2, <1>3, <1>5 DEF IInv, TypeOK, PaidApart, PaymentsAccounted, Heard, Applied
<1> QED  BY <1>4, <1>6, <1>7, <1>8 DEF Payments

LEMMA CheckoutKeeps ==
  ASSUME IInv, NEW k \in Keys, Checkout(k)
  PROVE  TypeOK' /\ RequestsRight' /\ InvoicesRight' /\ Payments'
<1>1. TypeOK /\ RequestsRight /\ InvoicesRight
  BY DEF IInv
<1>2. /\ requests' = [requests EXCEPT ![k].phase = "done"]
      /\ UNCHANGED <<now, sub, active, selection, invoices, gateway, events, told>>
      /\ requests[k].phase = "calling"
  BY DEF Checkout, outletVars, paymentVars
<1>3. TypeOK'
  BY <1>1, <1>2 DEF TypeOK, Request
<1>4. /\ requests'[k].phase = "done"
      /\ \A j \in Keys : j # k => requests'[j] = requests[j]
  BY <1>1, <1>2 DEF TypeOK, Request
<1>5. RequestsRight'
  BY <1>1, <1>2, <1>4 DEF RequestsRight
<1>6. InvoicesRight' /\ Payments'
  BY <1>1, <1>2 DEF IInv, InvoicesRight, Payments, PaidApart, PaymentsAccounted,
                    Heard, Applied
<1> QED  BY <1>3, <1>5, <1>6

LEMMA CheckoutFailsKeeps ==
  ASSUME IInv, NEW k \in Keys, CheckoutFails(k)
  PROVE  TypeOK' /\ RequestsRight' /\ InvoicesRight' /\ Payments'
<1>1. TypeOK /\ RequestsRight /\ InvoicesRight
  BY DEF IInv
<1> DEFINE status == IF invoices[k].status = "APPLIED" THEN "APPLIED" ELSE "REVIEW"
<1>2. /\ requests' = [requests EXCEPT ![k].phase = "done"]
      /\ invoices' = [invoices EXCEPT ![k].status = status]
      /\ UNCHANGED <<now, sub, active, selection, gateway, events, told>>
      /\ requests[k].phase = "calling"
  BY DEF CheckoutFails, outletVars, paymentVars
<1>3. status \in {"APPLIED", "REVIEW"} /\ (status = "APPLIED" <=> invoices[k].status = "APPLIED")
  OBVIOUS
<1> HIDE DEF status
<1>4. TypeOK'
  BY <1>1, <1>2, <1>3 DEF TypeOK, Request, Invoice
<1>5. /\ requests'[k].phase = "done"
      /\ invoices'[k].status = status /\ invoices'[k].quote = invoices[k].quote
      /\ \A j \in Keys : j # k => requests'[j] = requests[j] /\ invoices'[j] = invoices[j]
  BY <1>1, <1>2 DEF TypeOK, Request, Invoice
<1>6. invoices[k].status # "none"
  BY <1>1, <1>2 DEF RequestsRight
<1>7. RequestsRight'
  <2> SUFFICES ASSUME NEW j \in Keys
               PROVE  /\ requests'[j].phase = "quoted" => Honest(requests'[j].quote, sub, now)
                      /\ requests'[j].phase \in {"idle", "quoted"} <=> invoices'[j].status = "none"
    BY <1>2 DEF RequestsRight
  <2>1. CASE j = k
    BY <2>1, <1>3, <1>5
  <2>2. CASE j # k
    BY <2>2, <1>1, <1>5 DEF RequestsRight
  <2> QED  BY <2>1, <2>2
<1>8. InvoicesRight'
  <2> SUFFICES ASSUME NEW j \in Keys
               PROVE  /\ invoices'[j].status # "none" => Honest(invoices'[j].quote, sub, now)
                      /\ invoices'[j].status = "none" => gateway[j] = "unpaid"
                      /\ invoices'[j].status = "APPLIED" =>
                           invoices'[j].quote.revision < sub.revision
    BY <1>2 DEF InvoicesRight, Applied
  <2>1. CASE j = k
    BY <2>1, <1>1, <1>3, <1>5, <1>6 DEF InvoicesRight, Applied
  <2>2. CASE j # k
    BY <2>2, <1>1, <1>5 DEF InvoicesRight, Applied
  <2> QED  BY <2>1, <2>2
<1>9. /\ \A j \in Keys : (invoices'[j].status = "APPLIED" <=> invoices[j].status = "APPLIED")
      /\ \A j \in Keys : invoices'[j].quote = invoices[j].quote
      /\ \A j \in Keys : invoices[j].status = "REVIEW" => invoices'[j].status = "REVIEW"
  BY <1>3, <1>5
<1>10. PaidApart'
  BY <1>9 DEF IInv, PaidApart, Applied
<1>11. PaymentsAccounted'
  BY <1>1, <1>2, <1>9 DEF IInv, TypeOK, PaymentsAccounted, Heard, Applied
<1> QED  BY <1>4, <1>7, <1>8, <1>10, <1>11 DEF Payments

LEMMA PayKeeps ==
  ASSUME IInv, NEW k \in Keys, Pay(k)
  PROVE  TypeOK' /\ RequestsRight' /\ InvoicesRight' /\ Payments'
<1>1. TypeOK /\ RequestsRight /\ InvoicesRight
  BY DEF IInv
<1>2. PICK how \in Order \ {"unpaid"} : gateway' = [gateway EXCEPT ![k] = how]
  BY DEF Pay
<1>3. /\ invoices[k].status # "none" /\ gateway[k] = "unpaid"
      /\ UNCHANGED <<now, sub, active, selection, invoices, requests, events, told>>
  BY DEF Pay, outletVars
<1>4. gateway'[k] = how /\ \A j \in Keys : j # k => gateway'[j] = gateway[j]
  BY <1>1, <1>2 DEF TypeOK
<1>5. TypeOK'
  BY <1>1, <1>2, <1>3 DEF TypeOK, Order
<1>6. RequestsRight' /\ InvoicesRight'
  BY <1>1, <1>3, <1>4 DEF RequestsRight, InvoicesRight, Applied
<1>7. PaidApart' /\ PaymentsAccounted'
  BY <1>1, <1>3, <1>4 DEF IInv, TypeOK, PaidApart, PaymentsAccounted, Heard, Applied
<1> QED  BY <1>5, <1>6, <1>7 DEF Payments

LEMMA VerifyPaidKeeps ==
  ASSUME IInv, NEW k \in Keys, VerifyPaid(k)
  PROVE  TypeOK' /\ RequestsRight' /\ InvoicesRight' /\ Payments'
<1>1. /\ told' = told \union {k} /\ invoices[k].status = "APPLIED"
      /\ UNCHANGED <<now, sub, active, selection, invoices, requests, gateway, events>>
  BY DEF VerifyPaid, outletVars
<1>2. TypeOK' /\ RequestsRight' /\ InvoicesRight' /\ PaidApart' /\ PaymentsAccounted'
  BY <1>1 DEF IInv, TypeOK, RequestsRight, InvoicesRight, PaidApart, PaymentsAccounted, Heard,
              Applied
<1> QED  BY <1>2 DEF Payments

\* A notice, its answer to the owner left aside: the heart of the proof.  What is
\* applied was paid through an approved channel, on the revision it was quoted
\* for, which passes.
LEMMA ReconcileKeeps ==
  ASSUME IInv, NEW k \in Keys, NEW kind \in Notices, NEW issue \in BOOLEAN,
         Reconcile(k, kind, issue),
         invoices[k].status # "none",
         kind # "failure" => gateway[k] # "unpaid",
         kind = "success" => (issue <=> gateway[k] # "paid"),
         kind = "inquiry" => (issue <=> gateway[k] = "otherChannel"),
         UNCHANGED <<now, outletVars, requests, gateway>>
  PROVE  /\ Moves /\ RequestsRight' /\ InvoicesRight' /\ PaidApart' /\ PaymentsAccounted'
         /\ PaidOutletsCovered'
         /\ invoices' \in [Keys -> Invoice] /\ events' \subseteq Keys \X Notices
         /\ \A j \in Keys : invoices[j].status \in {"APPLIED", "REVIEW"} =>
                              invoices'[j].status \in {"APPLIED", "REVIEW"}
         /\ sub' # sub => AppliedNow(k) /\ ApplyQuote(invoices[k].quote)
                          /\ invoices[k].quote.revision = sub.revision
                          /\ invoices[k].status # "none"
<1>1. TypeOK /\ SubRight /\ RequestsRight /\ InvoicesRight /\ PaidApart /\ PaymentsAccounted
  BY DEF IInv
<1> DEFINE q == invoices[k].quote
<1>2. /\ q \in Quote /\ q.offer \in Offers /\ Honest(q, sub, now) /\ q.revision \in Nat
      /\ sub.revision \in Nat /\ invoices \in [Keys -> Invoice]
      /\ Event(k, kind) \subseteq Keys \X Notices /\ events \subseteq Keys \X Notices
      /\ gateway[k] \in Order
  BY <1>1, Typed DEF InvoicesRight, Honest, TypeOK, Event
<1>6. \A j \in Keys : \A what : <<j, what>> \in Event(k, kind) =>
        j = k /\ what = kind /\ kind # "failure"
  BY DEF Event
<1>3. CASE /\ UNCHANGED <<sub, invoices>>
           /\ \/ events' = events
              \/ /\ events' = events \cup Event(k, kind)
                 /\ kind = "failure" \/ Applied(k)
  <2>1. Moves
    BY <1>3, Still
  <2>2. events' \subseteq Keys \X Notices
    BY <1>2, <1>3
  <2>3. PaymentsAccounted'
    <3>1. /\ events \subseteq events'
          /\ \A j \in Keys : Heard(j)' => Heard(j) \/ Applied(j)
      BY <1>3, <1>6 DEF Heard
    <3>2. \A j \in Keys : (Applied(j)' <=> Applied(j)) /\ (Heard(j) => Heard(j)')
      BY <1>3, <3>1 DEF Applied, Heard
    <3> QED  BY <3>1, <3>2, <1>1, <1>3 DEF PaymentsAccounted, Applied
  <2>4. RequestsRight' /\ InvoicesRight' /\ PaidApart'
    BY <1>1, <1>3 DEF RequestsRight, InvoicesRight, PaidApart, Applied
  <2>5. PaidOutletsCovered'
    BY <1>3 DEF IInv, PaidOutletsCovered, Usage, outletVars
  <2> QED  BY <1>2, <1>3, <2>1, <2>2, <2>3, <2>4, <2>5
<1>4. CASE /\ invoices' = [invoices EXCEPT ![k].status = "REVIEW"]
           /\ events' = events \cup Event(k, kind)
           /\ sub' = sub
           /\ ~Applied(k)
  <2>1. Moves
    BY <1>4, Still
  <2>2. invoices' \in [Keys -> Invoice] /\ events' \subseteq Keys \X Notices
    BY <1>2, <1>4 DEF Invoice
  <2>3. /\ invoices'[k].status = "REVIEW" /\ invoices'[k].quote = q
        /\ \A j \in Keys : j # k => invoices'[j] = invoices[j]
    BY <1>2, <1>4 DEF Invoice
  <2>4. RequestsRight'
    BY <1>1, <1>4, <2>3 DEF RequestsRight
  <2>5. InvoicesRight'
    <3> SUFFICES ASSUME NEW j \in Keys
                 PROVE  /\ invoices'[j].status # "none" => Honest(invoices'[j].quote, sub, now)
                        /\ invoices'[j].status = "none" => gateway[j] = "unpaid"
                        /\ invoices'[j].status = "APPLIED" =>
                             invoices'[j].quote.revision < sub.revision
      BY <1>4 DEF InvoicesRight, Applied
    <3>1. CASE j = k
      BY <3>1, <1>2, <2>3
    <3>2. CASE j # k
      BY <3>2, <1>1, <2>3 DEF InvoicesRight, Applied
    <3> QED  BY <3>1, <3>2
  <2>6. PaidApart'
    BY <1>1, <2>3 DEF PaidApart, Applied
  <2>7. PaymentsAccounted'
    <3>1. /\ events \subseteq events'
          /\ \A j \in Keys : j # k /\ Heard(j)' => Heard(j)
      BY <1>4, <1>6 DEF Heard
    <3>2. /\ \A j \in Keys : Applied(j)' => Applied(j) /\ j # k
          /\ \A j \in Keys : Heard(j) => Heard(j)'
      BY <1>4, <2>3, <3>1 DEF Applied, Heard
    <3> QED  BY <3>1, <3>2, <2>3, <1>1 DEF PaymentsAccounted
  <2>8. PaidOutletsCovered'
    BY <1>4 DEF IInv, PaidOutletsCovered, Usage, outletVars
  <2>9. \A j \in Keys : invoices[j].status \in {"APPLIED", "REVIEW"} =>
                          invoices'[j].status \in {"APPLIED", "REVIEW"}
    BY <2>3
  <2> QED  BY <1>4, <2>1, <2>2, <2>4, <2>5, <2>6, <2>7, <2>8, <2>9
<1>5. CASE /\ invoices' = [invoices EXCEPT ![k].status = "APPLIED"]
           /\ events' = events \cup Event(k, kind)
           /\ ApplyQuote(q)
           /\ ~issue /\ kind # "failure" /\ ~Applied(k)
           /\ q.revision = sub.revision
           /\ ~(Usage > Capacity[q.offer])
  <2>1. /\ sub' \in Subscription /\ SubRight' /\ sub'.revision = sub.revision + 1
        /\ sub'.offer = q.offer
    BY <1>1, <1>2, <1>5, ApplyRight
  <2>2. Moves
    BY <1>1, <2>1 DEF Moves, TypeOK
  <2>3. invoices' \in [Keys -> Invoice] /\ events' \subseteq Keys \X Notices
    BY <1>2, <1>5 DEF Invoice
  <2>4. /\ invoices'[k].status = "APPLIED" /\ invoices'[k].quote = q
        /\ \A j \in Keys : j # k => invoices'[j] = invoices[j]
    BY <1>2, <1>5 DEF Invoice
  <2>5. gateway[k] \in {"paid", "otherAmount"} /\ gateway' = gateway /\ requests' = requests /\ now' = now
        /\ (gateway[k] = "otherAmount" => kind = "inquiry")
    BY <1>2, <1>5 DEF Notices, Order
  <2>6. RequestsRight'
    <3> SUFFICES ASSUME NEW j \in Keys
                 PROVE  /\ requests[j].phase = "quoted" => Honest(requests[j].quote, sub', now')
                        /\ requests[j].phase \in {"idle", "quoted"} <=> invoices'[j].status = "none"
      BY <2>5 DEF RequestsRight
    <3>1. requests[j].phase = "quoted" => Honest(requests[j].quote, sub', now')
      BY <1>1, <2>2, Typed, HonestStep DEF RequestsRight
    <3> QED  BY <3>1, <1>1, <2>4 DEF RequestsRight
  <2>7. InvoicesRight'
    <3> SUFFICES ASSUME NEW j \in Keys
                 PROVE  /\ invoices'[j].status # "none" => Honest(invoices'[j].quote, sub', now')
                        /\ invoices'[j].status = "none" => gateway[j] = "unpaid"
                        /\ invoices'[j].status = "APPLIED" =>
                             invoices'[j].quote.revision < sub'.revision
      BY <2>5 DEF InvoicesRight, Applied
    <3>1. invoices[j].status # "none" => Honest(invoices[j].quote, sub', now')
      BY <1>1, <2>2, Typed, HonestStep DEF InvoicesRight
    <3>2. CASE j = k
      BY <3>1, <3>2, <1>2, <1>5, <2>1, <2>4
    <3>3. CASE j # k
      <4>1. invoices[j].quote.revision \in Nat
        BY <1>1, Typed
      <4> QED  BY <3>1, <3>3, <4>1, <1>1, <1>2, <2>1, <2>4 DEF InvoicesRight, Applied
    <3> QED  BY <3>2, <3>3
  <2>8. PaidApart'
    <3>1. \A j \in Keys : Applied(j) => invoices[j].quote.revision \in Nat
                                        /\ invoices[j].quote.revision < sub.revision
      BY <1>1, Typed DEF InvoicesRight
    <3> QED  BY <3>1, <1>1, <1>2, <1>5, <2>4 DEF PaidApart, Applied
  <2>9. PaymentsAccounted'
    <3>1. /\ events \subseteq events' /\ <<k, kind>> \in events'
          /\ \A j \in Keys : j # k /\ Heard(j)' => Heard(j)
      BY <1>5, <1>6 DEF Heard, Event
    <3>2. /\ Heard(k)' /\ (gateway[k] = "otherAmount" => <<k, "inquiry">> \in events')
          /\ \A j \in Keys : Heard(j) => Heard(j)'
      BY <1>5, <2>5, <3>1 DEF Heard, Notices
    <3>3. \A j \in Keys : j # k => (Applied(j)' <=> Applied(j))
      BY <2>4 DEF Applied
    <3> QED  BY <3>1, <3>2, <3>3, <2>4, <2>5, <1>1 DEF PaymentsAccounted, Applied
  <2>10. PaidOutletsCovered'
    <3>1. Usage' = Usage
      BY DEF Usage, outletVars
    <3>2. Usage \in Int /\ Capacity[q.offer] \in Int
      BY <1>1, <1>2, Numbers, FS_Subset, FS_CardinalityType, OutletsAssumption DEF Usage, TypeOK
    <3> QED  BY <3>1, <3>2, <1>5, <2>1 DEF PaidOutletsCovered
  <2>11. \A j \in Keys : invoices[j].status \in {"APPLIED", "REVIEW"} =>
                           invoices'[j].status \in {"APPLIED", "REVIEW"}
    BY <2>4
  <2>12. AppliedNow(k)
    BY <1>5, <2>4 DEF AppliedNow, Applied
  <2> QED  BY <1>5, <2>2, <2>3, <2>6, <2>7, <2>8, <2>9, <2>10, <2>11, <2>12
<1> QED  BY <1>1, <1>3, <1>4, <1>5, Reconciled

LEMMA NotifyPaidKeeps ==
  ASSUME IInv, NEW k \in Keys, NotifyPaid(k)
  PROVE  /\ TypeOK' /\ Moves /\ RequestsRight' /\ InvoicesRight' /\ Payments'
         /\ PaidOutletsCovered'
         /\ sub' # sub => AppliedNow(k) /\ ApplyQuote(invoices[k].quote)
                          /\ invoices[k].quote.revision = sub.revision
                          /\ invoices[k].status # "none"
<1> DEFINE issue == gateway[k] # "paid"
<1>1. TypeOK /\ InvoicesRight
  BY DEF IInv
<1>2. /\ issue \in BOOLEAN /\ Reconcile(k, "success", issue) /\ "success" \in Notices
      /\ invoices[k].status # "none" /\ gateway[k] # "unpaid"
      /\ (issue <=> gateway[k] # "paid")
      /\ UNCHANGED <<now, outletVars, requests, gateway>> /\ told' = told
  BY <1>1 DEF NotifyPaid, InvoicesRight, Notices
<1> HIDE DEF issue
<1>3. /\ Moves /\ RequestsRight' /\ InvoicesRight' /\ PaidApart' /\ PaymentsAccounted'
      /\ PaidOutletsCovered'
      /\ invoices' \in [Keys -> Invoice] /\ events' \subseteq Keys \X Notices
      /\ \A j \in Keys : invoices[j].status \in {"APPLIED", "REVIEW"} =>
                           invoices'[j].status \in {"APPLIED", "REVIEW"}
      /\ sub' # sub => AppliedNow(k) /\ ApplyQuote(invoices[k].quote)
                       /\ invoices[k].quote.revision = sub.revision
                       /\ invoices[k].status # "none"
  BY <1>2, ReconcileKeeps
<1>4. TypeOK'
  BY <1>1, <1>2, <1>3 DEF TypeOK, Moves, outletVars
<1> QED  BY <1>3, <1>4 DEF Payments

LEMMA NotifyFailedKeeps ==
  ASSUME IInv, NEW k \in Keys, NEW issue \in BOOLEAN, NotifyFailed(k, issue)
  PROVE  /\ TypeOK' /\ Moves /\ RequestsRight' /\ InvoicesRight' /\ Payments'
         /\ PaidOutletsCovered'
         /\ sub' = sub
<1>1. TypeOK /\ InvoicesRight
  BY DEF IInv
<1>2. /\ Reconcile(k, "failure", issue) /\ "failure" \in Notices
      /\ invoices[k].status # "none"
      /\ UNCHANGED <<now, outletVars, requests, gateway>> /\ told' = told
  BY DEF NotifyFailed, Notices
<1>3. /\ Moves /\ RequestsRight' /\ InvoicesRight' /\ PaidApart' /\ PaymentsAccounted'
      /\ PaidOutletsCovered'
      /\ invoices' \in [Keys -> Invoice] /\ events' \subseteq Keys \X Notices
      /\ \A j \in Keys : invoices[j].status \in {"APPLIED", "REVIEW"} =>
                           invoices'[j].status \in {"APPLIED", "REVIEW"}
  BY <1>2, ReconcileKeeps
<1>4. sub' = sub
  BY <1>1, <1>2, Reconciled
<1>5. TypeOK'
  BY <1>1, <1>2, <1>3 DEF TypeOK, Moves, outletVars
<1> QED  BY <1>3, <1>4, <1>5 DEF Payments

LEMMA VerifyInquiryKeeps ==
  ASSUME IInv, NEW k \in Keys, VerifyInquiry(k)
  PROVE  /\ TypeOK' /\ Moves /\ RequestsRight' /\ InvoicesRight' /\ Payments'
         /\ PaidOutletsCovered'
         /\ sub' # sub => AppliedNow(k) /\ ApplyQuote(invoices[k].quote)
                          /\ invoices[k].quote.revision = sub.revision
                          /\ invoices[k].status # "none"
<1> DEFINE issue == gateway[k] = "otherChannel"
<1>1. TypeOK /\ InvoicesRight
  BY DEF IInv
<1>2. /\ issue \in BOOLEAN /\ Reconcile(k, "inquiry", issue) /\ "inquiry" \in Notices
      /\ invoices[k].status # "none" /\ gateway[k] # "unpaid"
      /\ (issue <=> gateway[k] = "otherChannel")
      /\ UNCHANGED <<now, outletVars, requests, gateway>>
      /\ told' \in {told, told \union {k}}
  BY <1>1 DEF VerifyInquiry, InvoicesRight, Notices
<1> HIDE DEF issue
<1>4. /\ Moves /\ RequestsRight' /\ InvoicesRight' /\ PaidApart' /\ PaymentsAccounted'
      /\ PaidOutletsCovered'
      /\ invoices' \in [Keys -> Invoice] /\ events' \subseteq Keys \X Notices
      /\ \A j \in Keys : invoices[j].status \in {"APPLIED", "REVIEW"} =>
                           invoices'[j].status \in {"APPLIED", "REVIEW"}
      /\ sub' # sub => AppliedNow(k) /\ ApplyQuote(invoices[k].quote)
                       /\ invoices[k].quote.revision = sub.revision
                       /\ invoices[k].status # "none"
  BY <1>2, ReconcileKeeps
<1>5. TypeOK'
  BY <1>1, <1>2, <1>4 DEF TypeOK, Moves, outletVars
<1> QED  BY <1>4, <1>5 DEF Payments

LEMMA UsageNatural ==
  ASSUME TypeOK
  PROVE  IsFiniteSet(active) /\ Usage \in Nat
BY FS_Subset, FS_CardinalityType, OutletsAssumption DEF TypeOK, Usage

LEMMA OpenOutletKeeps ==
  ASSUME IInv, NEW o \in Outlets, OpenOutlet(o)
  PROVE  TypeOK' /\ PaidOutletsCovered'
<1>1. /\ active' = active \union {o} /\ Writable /\ HasCapacity(o)
      /\ UNCHANGED <<now, sub, selection, invoices, requests, gateway, events, told>>
      /\ TypeOK /\ SubRight
  BY DEF OpenOutlet, paymentVars, IInv
<1>2. TypeOK'
  BY <1>1 DEF TypeOK
<1>3. ASSUME sub.status = "ACTIVE"
      PROVE  Usage' <= Capacity[sub.offer]
  <2> DEFINE others == active \ {o}
  <2>1. IsFiniteSet(others) /\ Cardinality(others) \in Nat
    BY <1>1, UsageNatural, FS_Subset, FS_CardinalityType
  <2>2. Cardinality(others \union {o}) = Cardinality(others) + 1
    BY <2>1, FS_AddElement
  <2>3. active' = others \union {o}
    BY <1>1
  <2>4. Cardinality(others) < Capacity[sub.offer]
    BY <1>1, <1>3 DEF HasCapacity, Free
  <2>5. Capacity[sub.offer] \in Nat
    BY <1>1, Numbers DEF TypeOK, Subscription
  <2> HIDE DEF others
  <2> QED  BY <2>1, <2>2, <2>3, <2>4, <2>5 DEF Usage
<1> QED  BY <1>1, <1>2, <1>3 DEF PaidOutletsCovered

LEMMA CloseOutletKeeps ==
  ASSUME IInv, NEW o \in Outlets, CloseOutlet(o)
  PROVE  TypeOK' /\ PaidOutletsCovered'
<1>1. /\ active' = active \ {o}
      /\ UNCHANGED <<now, sub, selection, invoices, requests, gateway, events, told>>
      /\ TypeOK /\ SubRight /\ PaidOutletsCovered
  BY DEF CloseOutlet, paymentVars, IInv
<1>2. TypeOK'
  BY <1>1 DEF TypeOK
<1>3. IsFiniteSet(active) /\ Usage \in Nat
  BY <1>1, UsageNatural
<1>4. Usage' \in Nat /\ Usage' <= Usage
  BY <1>1, <1>3, FS_Subset, FS_CardinalityType DEF Usage
<1>5. Capacity[sub.offer] \in Nat
  BY <1>1, Numbers DEF TypeOK, Subscription
<1> QED  BY <1>1, <1>2, <1>3, <1>4, <1>5 DEF PaidOutletsCovered

-----------------------------------------------------------------------------
(* Theorems *)

LEMMA Initially == Init => IInv
<1> SUFFICES ASSUME Init PROVE IInv
  OBVIOUS
<1>1. TypeOK
  BY Numbers DEF Init, TypeOK, Subscription, Invoice, Request, NoInvoice, NoRequest, Order
<1>2. SubRight
  BY Numbers DEF Init, SubRight
<1>3. RequestsRight /\ InvoicesRight /\ PaidApart /\ PaymentsAccounted
  BY DEF Init, RequestsRight, InvoicesRight, PaidApart, PaymentsAccounted, Heard,
         Applied, NoInvoice, NoRequest
<1>4. PaidOutletsCovered
  BY DEF Init, PaidOutletsCovered
<1> QED  BY <1>1, <1>2, <1>3, <1>4 DEF IInv

\* A running period ends early only for an invoice that credits what is left.
KeepsTime == Running /\ sub' # sub =>
  \/ Override
  \/ Renewal
  \/ \E k \in Keys : AppliedNow(k) /\ invoices[k].quote.credit >= Unused(sub, now)

\* An honest invoice is applied to the state it was quoted on.
LEMMA AppliedKeepsTime ==
  ASSUME IInv, NEW k \in Keys,
         sub' # sub => AppliedNow(k) /\ ApplyQuote(invoices[k].quote)
                       /\ invoices[k].quote.revision = sub.revision
                       /\ invoices[k].status # "none"
  PROVE  KeepsTime
<1> SUFFICES ASSUME Running, sub' # sub
             PROVE  \/ Renewal
                    \/ invoices[k].quote.credit >= Unused(sub, now)
  BY DEF KeepsTime
<1>1. /\ AppliedNow(k) /\ ApplyQuote(invoices[k].quote)
      /\ invoices[k].quote.revision = sub.revision
      /\ invoices[k].status # "none"
  OBVIOUS
<1>2. Fits(invoices[k].quote, sub, now)
  BY <1>1 DEF IInv, InvoicesRight, Honest
<1> QED  BY <1>1, <1>2 DEF Fits, Renewal, ApplyQuote, Running

\* Every step keeps the invariant and the time that is paid for.
LEMMA Step ==
  ASSUME IInv, Next
  PROVE  IInv' /\ KeepsTime
<1> DEFINE Kept == /\ TypeOK' /\ Moves /\ RequestsRight' /\ InvoicesRight' /\ Payments'
                   /\ PaidOutletsCovered'
<1>a. Kept => IInv'
  BY DEF IInv, Moves, Payments
<1>b. sub' = sub => KeepsTime
  BY DEF KeepsTime
<1>c. TypeOK /\ SubRight /\ PaidOutletsCovered
  BY DEF IInv
<1>d. UNCHANGED <<sub, outletVars>> => PaidOutletsCovered'
  BY <1>c DEF PaidOutletsCovered, Usage, outletVars
<1>1. CASE Tick
  <2>1. now' = now + 1 /\ UNCHANGED <<sub, outletVars, invoices, requests, paymentVars>>
    BY <1>1 DEF Tick
  <2>2. Moves
    BY <2>1, <1>c DEF Moves, TypeOK, SubRight
  <2>3. TypeOK'
    BY <2>1, <1>c DEF TypeOK, outletVars, paymentVars
  <2> QED  BY <2>1, <2>2, <2>3, <1>a, <1>b, <1>d, Bystander
<1>2. ASSUME NEW o \in Outlets, OpenOutlet(o) PROVE Kept /\ sub' = sub
  <2>1. UNCHANGED <<now, sub, invoices, requests, paymentVars>>
    BY <1>2 DEF OpenOutlet
  <2> QED  BY <2>1, <1>2, OpenOutletKeeps, Still, Bystander
<1>3. ASSUME NEW o \in Outlets, CloseOutlet(o) PROVE Kept /\ sub' = sub
  <2>1. UNCHANGED <<now, sub, invoices, requests, paymentVars>>
    BY <1>3 DEF CloseOutlet
  <2> QED  BY <2>1, <1>3, CloseOutletKeeps, Still, Bystander
<1>4. ASSUME NEW o \in Outlets, ChooseFree(o) PROVE Kept /\ sub' = sub
  <2>1. selection' = o /\ UNCHANGED <<now, sub, active, invoices, requests, paymentVars>>
    BY <1>4 DEF ChooseFree
  <2>2. TypeOK'
    BY <2>1, <1>c DEF TypeOK, paymentVars
  <2>3. PaidOutletsCovered'
    BY <2>1, <1>c DEF PaidOutletsCovered, Usage
  <2> QED  BY <2>1, <2>2, <2>3, Still, Bystander
<1>5. ASSUME NEW k \in Keys, NEW o \in Offers, AskQuote(k, o) PROVE Kept /\ sub' = sub
  <2>1. UNCHANGED <<now, sub, outletVars>>
    BY <1>5 DEF AskQuote
  <2> QED  BY <2>1, <1>5, <1>d, AskQuoteKeeps, Still
<1>6. ASSUME NEW k \in Keys, Persist(k) PROVE Kept /\ sub' = sub
  <2>1. UNCHANGED <<now, sub, outletVars>>
    BY <1>6 DEF Persist
  <2> QED  BY <2>1, <1>6, <1>d, PersistKeeps, Still
<1>7. ASSUME NEW k \in Keys, Checkout(k) PROVE Kept /\ sub' = sub
  <2>1. UNCHANGED <<now, sub, outletVars>>
    BY <1>7 DEF Checkout
  <2> QED  BY <2>1, <1>7, <1>d, CheckoutKeeps, Still
<1>8. ASSUME NEW k \in Keys, CheckoutFails(k) PROVE Kept /\ sub' = sub
  <2>1. UNCHANGED <<now, sub, outletVars>>
    BY <1>8 DEF CheckoutFails
  <2> QED  BY <2>1, <1>8, <1>d, CheckoutFailsKeeps, Still
<1>9. ASSUME NEW k \in Keys, VerifyPaid(k) PROVE Kept /\ sub' = sub
  <2>1. UNCHANGED <<now, sub, outletVars>>
    BY <1>9 DEF VerifyPaid
  <2> QED  BY <2>1, <1>9, <1>d, VerifyPaidKeeps, Still
<1>10. ASSUME NEW k \in Keys, VerifyInquiry(k) PROVE Kept /\ KeepsTime
  BY <1>10, VerifyInquiryKeeps, AppliedKeepsTime
<1>11. ASSUME NEW k \in Keys, Pay(k) PROVE Kept /\ sub' = sub
  <2>1. UNCHANGED <<now, sub, outletVars>>
    BY <1>11 DEF Pay
  <2> QED  BY <2>1, <1>11, <1>d, PayKeeps, Still
<1>12. ASSUME NEW k \in Keys, NotifyPaid(k) PROVE Kept /\ KeepsTime
  BY <1>12, NotifyPaidKeeps, AppliedKeepsTime
<1>13. ASSUME NEW k \in Keys, NEW issue \in BOOLEAN, NotifyFailed(k, issue)
       PROVE  Kept /\ sub' = sub
  BY <1>13, NotifyFailedKeeps
<1>14. CASE ExtendTrial
  <2>1. /\ sub' \in Subscription /\ SubRight' /\ sub'.revision = sub.revision + 1
        /\ sub'.status = "TRIAL" /\ ~Running
        /\ UNCHANGED <<now, outletVars, invoices, requests, paymentVars>>
    BY <1>14, <1>c, ExtendRight DEF ExtendTrial
  <2>2. Moves
    BY <2>1, <1>c DEF Moves, TypeOK
  <2>3. TypeOK'
    BY <2>1, <1>c DEF TypeOK, outletVars, paymentVars
  <2>4. PaidOutletsCovered'
    BY <2>1 DEF PaidOutletsCovered
  <2>5. KeepsTime
    BY <2>1 DEF KeepsTime
  <2> QED  BY <2>1, <2>2, <2>3, <2>4, <2>5, <1>a, Bystander
<1>15. ASSUME NEW o \in Offers, GrantPlan(o) PROVE Kept /\ KeepsTime
  <2>1. /\ sub' \in Subscription /\ SubRight' /\ sub'.revision = sub.revision + 1
        /\ sub'.offer = o /\ Usage <= Capacity[o]
        /\ UNCHANGED <<now, outletVars, invoices, requests, paymentVars>>
    BY <1>15, <1>c, GrantRight DEF GrantPlan
  <2>2. Moves
    BY <2>1, <1>c DEF Moves, TypeOK
  <2>3. TypeOK'
    BY <2>1, <1>c DEF TypeOK, outletVars, paymentVars
  <2>4. PaidOutletsCovered'
    BY <2>1 DEF PaidOutletsCovered, Usage, outletVars
  <2>5. Running => Override
    BY <1>15 DEF GrantPlan, Override
  <2>6. KeepsTime
    BY <2>5 DEF KeepsTime
  <2> QED  BY <2>1, <2>2, <2>3, <2>4, <2>6, Bystander
<1> HIDE DEF Kept
<1>16. CASE Owner
  BY <1>16, <1>2, <1>3, <1>4, <1>5, <1>a, <1>b DEF Owner
<1>17. CASE Server
  BY <1>17, <1>6, <1>7, <1>8, <1>9, <1>10, <1>a, <1>b DEF Server
<1>18. CASE Gateway
  BY <1>18, <1>11, <1>12, <1>13, <1>a, <1>b DEF Gateway
<1>19. CASE Operator
  BY <1>19, <1>14, <1>15, <1>a DEF Operator
<1> QED  BY <1>1, <1>16, <1>17, <1>18, <1>19 DEF Next

LEMMA StutterKeeps ==
  ASSUME IInv, UNCHANGED vars
  PROVE  IInv'
BY DEF IInv, TypeOK, SubRight, RequestsRight, InvoicesRight, Honest, Fits, Unused, LaterOf,
       PaidApart, PaymentsAccounted, Heard, PaidOutletsCovered, Usage, Applied,
       vars, outletVars, paymentVars

\* The inductive invariant holds: every quote that is not stale renews the running
\* period or credits what is left of it.
THEOREM Invariant == Spec => []IInv
<1>1. IInv /\ [Next]_vars => IInv'
  BY Step, StutterKeeps
<1> QED  BY Initially, <1>1, PTL DEF Spec

\* Every variable keeps its type: what the rows, requests and notices can hold.
THEOREM TypeCorrect == Spec => []TypeOK
<1>1. IInv => TypeOK
  BY DEF IInv
<1> QED  BY Invariant, <1>1, PTL

\* reconcilePayment applies at most one invoice to a revision of the subscription,
\* for any interleaving of notices, quotes and overrides.
THEOREM PaidApartHolds == Spec => []PaidApart
<1>1. IInv => PaidApart
  BY DEF IInv
<1> QED  BY Invariant, <1>1, PTL

\* Every payment the server was told of is applied or under review; only a payment
\* it was told of is applied, made through an approved channel, and with another
\* amount only after an inquiry.
THEOREM PaymentsAccountedHolds == Spec => []PaymentsAccounted
<1>1. IInv => PaymentsAccounted
  BY DEF IInv
<1> QED  BY Invariant, <1>1, PTL

-----------------------------------------------------------------------------
(* The receipt of what runs *)

\* A trial costs nothing, and what costs something was bought.
Backed ==
  /\ PeriodBacked
  /\ sub.status = "TRIAL" => sub.recurring = 0

\* An applied invoice stays so, with its quote.
ReceiptsKept == \A k \in Keys : Applied(k) =>
  Applied(k)' /\ invoices'[k].quote = invoices[k].quote

\* What a notice leaves of the receipts, and the one it adds.
LEMMA ReconcileBacks ==
  ASSUME IInv, Backed, NEW k \in Keys, NEW kind, NEW issue \in BOOLEAN,
         Reconcile(k, kind, issue)
  PROVE  ReceiptsKept /\ (sub' = sub \/ (Bought(k, sub)' /\ sub'.status = "ACTIVE"))
<1>1. TypeOK /\ invoices \in [Keys -> Invoice]
  BY DEF IInv, TypeOK
<1>2. CASE UNCHANGED <<sub, invoices>>
  BY <1>2 DEF ReceiptsKept, Applied
<1>3. CASE /\ invoices' = [invoices EXCEPT ![k].status = "REVIEW"]
           /\ sub' = sub
           /\ ~Applied(k)
  BY <1>1, <1>3 DEF ReceiptsKept, Applied
<1>4. CASE /\ invoices' = [invoices EXCEPT ![k].status = "APPLIED"]
           /\ ApplyQuote(invoices[k].quote)
           /\ ~Applied(k)
  <2>1. /\ invoices'[k].status = "APPLIED" /\ invoices'[k].quote = invoices[k].quote
        /\ \A j \in Keys : j # k => invoices'[j] = invoices[j]
    BY <1>1, <1>4 DEF Invoice
  <2>2. ReceiptsKept
    BY <1>4, <2>1 DEF ReceiptsKept, Applied
  <2>3. Bought(k, sub)' /\ sub'.status = "ACTIVE"
    BY <1>4, <2>1 DEF ApplyQuote, Bought, Applied
  <2> QED  BY <2>2, <2>3
<1> QED  BY <1>1, <1>2, <1>3, <1>4, Reconciled

\* Whoever bought the period still has the receipt.
LEMMA SamePeriod ==
  ASSUME IInv, Backed, ReceiptsKept,
         sub'.recurring = 0 \/ (/\ sub'.recurring = sub.recurring /\ sub'.start = sub.start
                                /\ sub'.end = sub.end /\ sub.recurring > 0),
         sub'.status = "TRIAL" => sub'.recurring = 0
  PROVE  Backed'
<1>1. CASE sub'.recurring = 0
  BY <1>1 DEF Backed, PeriodBacked
<1>2. CASE sub'.recurring = sub.recurring /\ sub'.start = sub.start
           /\ sub'.end = sub.end /\ sub.recurring > 0
  <2>1. PICK k \in Keys : Bought(k, sub)
    BY <1>2 DEF Backed, PeriodBacked
  <2>2. Bought(k, sub)'
    BY <1>2, <2>1 DEF ReceiptsKept, Bought, Applied, Period
  <2> QED  BY <2>2 DEF Backed, PeriodBacked
<1> QED  BY <1>1, <1>2

LEMMA BackedStep ==
  ASSUME IInv, Backed, Next
  PROVE  Backed'
<1>1. TypeOK /\ RequestsRight /\ SubRight /\ invoices \in [Keys -> Invoice]
      /\ sub.recurring \in Nat /\ sub.status \in {"TRIAL", "ACTIVE"}
  BY DEF IInv, TypeOK, Subscription
\* The invoice that a step writes.
<1>2. ASSUME NEW k \in Keys, Persist(k) \/ Checkout(k) \/ CheckoutFails(k)
      PROVE  ReceiptsKept /\ sub' = sub
  <2>1. requests[k].phase = "quoted" => ~Applied(k)
    BY <1>1 DEF RequestsRight, Applied
  <2> QED  BY <1>1, <1>2, <2>1 DEF Persist, Checkout, CheckoutFails, ReceiptsKept, Applied, Invoice
<1>3. ASSUME UNCHANGED <<sub, invoices>>
      PROVE  Backed'
  BY <1>3 DEF Backed, PeriodBacked, Bought, Applied
<1>4. ASSUME ReceiptsKept, sub' = sub
      PROVE  Backed'
  BY <1>1, <1>4, SamePeriod DEF Backed
<1>5. ASSUME NEW k \in Keys, ReceiptsKept, Bought(k, sub)', sub'.status = "ACTIVE"
      PROVE  Backed'
  BY <1>5 DEF Backed, PeriodBacked
<1>6. CASE Tick \/ Owner
  BY <1>3, <1>6 DEF Tick, Owner, OpenOutlet, CloseOutlet, ChooseFree, AskQuote
<1>7. CASE Server
  <2>1. PICK k \in Keys : \/ Persist(k) \/ Checkout(k) \/ CheckoutFails(k)
                          \/ VerifyPaid(k) \/ VerifyInquiry(k)
    BY <1>7 DEF Server
  <2>2. CASE VerifyPaid(k)
    BY <2>2, <1>3 DEF VerifyPaid
  <2>3. CASE VerifyInquiry(k)
    <3>1. PICK issue \in BOOLEAN : Reconcile(k, "inquiry", issue)
      BY <2>3 DEF VerifyInquiry
    <3> QED  BY <3>1, <1>4, <1>5, ReconcileBacks
  <2> QED  BY <2>1, <2>2, <2>3, <1>2, <1>4
<1>8. CASE Gateway
  <2>1. PICK k \in Keys : \/ Pay(k) \/ NotifyPaid(k)
                          \/ \E issue \in BOOLEAN : NotifyFailed(k, issue)
    BY <1>8 DEF Gateway
  <2>2. CASE Pay(k)
    BY <2>2, <1>3 DEF Pay
  <2>3. CASE ~Pay(k)
    <3>1. PICK kind \in Notices, issue \in BOOLEAN : Reconcile(k, kind, issue)
      BY <2>1, <2>3 DEF NotifyPaid, NotifyFailed, Notices
    <3> QED  BY <3>1, <1>4, <1>5, ReconcileBacks
  <2> QED  BY <2>2, <2>3
<1>9. CASE Operator
  <2>1. invoices' = invoices /\ ReceiptsKept
    BY <1>9 DEF Operator, ExtendTrial, GrantPlan, ReceiptsKept, Applied
  <2>2. CASE ExtendTrial
    <3>1. sub.recurring = 0
      BY <2>2, <1>1, Numbers DEF ExtendTrial, SubRight, Backed
    <3>2. sub'.recurring = sub.recurring
      BY <2>2, <1>1 DEF ExtendTrial, TypeOK, Subscription
    <3> QED  BY <3>1, <3>2, <2>1, SamePeriod
  <2>3. CASE \E o \in Offers : GrantPlan(o)
    <3>1. PICK o \in Offers : GrantPlan(o)
      BY <2>3
    <3>2. CASE Running /\ sub.recurring > 0
      BY <3>1, <3>2, <2>1, SamePeriod DEF GrantPlan
    <3>3. CASE ~(Running /\ sub.recurring > 0)
      <4>1. sub'.recurring = 0
        BY <3>1, <3>3, <1>1 DEF GrantPlan
      <4> QED  BY <4>1, <2>1, SamePeriod
    <3> QED  BY <3>2, <3>3
  <2> QED  BY <1>9, <2>2, <2>3 DEF Operator
<1> QED  BY <1>6, <1>7, <1>8, <1>9 DEF Next

\* What runs at a price has its receipt: an applied invoice for just this period,
\* which no failed checkout, late notice or override takes away.
THEOREM PeriodBackedHolds == Spec => []PeriodBacked
<1>1. Init => Backed
  BY DEF Init, Backed, PeriodBacked
<1>2. Backed /\ UNCHANGED vars => Backed'
  BY DEF Backed, PeriodBacked, Bought, Applied, vars
<1>3. IInv /\ Backed /\ [Next]_vars => Backed'
  BY <1>2, BackedStep
<1>4. Backed => PeriodBacked
  BY DEF Backed
<1> QED  BY Invariant, <1>1, <1>3, <1>4, PTL DEF Spec

-----------------------------------------------------------------------------
(* Outlets and paid time *)

\* However many outlets are opened between quote and payment, a plan in force
\* covers the active ones.
THEOREM PaidOutletsCoveredHolds == Spec => []PaidOutletsCovered
<1>1. IInv => PaidOutletsCovered
  BY DEF IInv
<1> QED  BY Invariant, <1>1, PTL

\* A running period is renewed at its end, overridden with its dates, or replaced
\* by an invoice that credits what is left of it when it is applied.
THEOREM PaidTimeKeptHolds == Spec => PaidTimeKept
<1>1. IInv /\ [Next]_vars =>
        [Running /\ sub' # sub =>
           \/ Override
           \/ Renewal
           \/ \E k \in Keys : AppliedNow(k)
                              /\ invoices[k].quote.credit >= Unused(sub, now)]_vars
  BY Step DEF KeepsTime
<1> QED  BY Invariant, <1>1, PTL DEF Spec, PaidTimeKept
=============================================================================
