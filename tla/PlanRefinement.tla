---------------------------- MODULE PlanRefinement ----------------------------
(***************************************************************************)
(* Proofs that Billing implements PlanLedger: what the owner of a tenant   *)
(* is promised about paid time, prices and outlets holds of every          *)
(* interleaving of quotes, checkouts, notices, verifications and           *)
(* overrides.                                                              *)
(***************************************************************************)
EXTENDS BillingProofs

-----------------------------------------------------------------------------
(* What a quote asks for *)

\* A quote asks for something.
Asks(q) == q.credit < Price[q.offer]

\* The dates of a quote for the state s at time t: a renewal is joined to the
\* period at its full price, a change begins at once and is credited no more
\* than the period cost.
Dated(q, s, t) ==
  /\ q.start <= t \/ (q.offer = s.offer /\ q.start = s.end /\ q.credit = 0)
  /\ q.credit <= s.recurring

Fair(q, s, t) == Asks(q) /\ (q.revision = s.revision => Dated(q, s, t))

\* What BillingProofs' invariant leaves open: the price of a quote and of an
\* invoice, and that an applied payment was told of.
FairInv == \A k \in Keys :
  /\ requests[k].phase = "quoted" => Fair(requests[k].quote, sub, now)
  /\ invoices[k].status # "none" => Fair(invoices[k].quote, sub, now)
  /\ Applied(k) => Heard(k)

\* The credit of a period never exceeds its price.
LEMMA UnusedAtMost ==
  ASSUME NEW s \in Subscription, s.start < s.end, NEW t \in Nat
  PROVE  Unused(s, t) \in Int /\ Unused(s, t) <= s.recurring
<1>1. /\ s.recurring \in Nat /\ s.end - s.start \in Nat \ {0}
      /\ s.end \in Nat /\ s.start \in Nat
  BY DEF Subscription
<1>2. /\ s.end - LaterOf(t, s.start) \in Int
      /\ s.end - LaterOf(t, s.start) <= s.end - s.start
  BY <1>1 DEF LaterOf
<1> DEFINE n == s.end - s.start
           p == s.recurring * (s.end - LaterOf(t, s.start))
           whole == s.recurring * n
<1>3. p \in Int /\ p <= whole /\ whole \in Int
  BY <1>1, <1>2, ProductMonotone
<1>4. n \in Nat \ {0} /\ s.recurring \in Nat
  BY <1>1
<1>5. p \div n \in Int /\ p \div n <= whole \div n
  <2> HIDE DEF n, p, whole
  <2> QED  BY <1>3, <1>4, DivMonotone
<1>6. whole \div n = s.recurring
  <2> HIDE DEF n
  <2> QED  BY <1>4
<1> QED  BY <1>5, <1>6 DEF Unused

\* A quote that is accepted asks for something, on the dates of the code.
LEMMA QuoteFair ==
  ASSUME TypeOK, SubRight, NEW o \in Offers, Credit(o) < Price[o]
  PROVE  Fair(QuoteFor(o), sub, now)
<1>1. /\ sub \in Subscription /\ now \in Nat /\ sub.start < sub.end
      /\ sub.recurring \in Nat /\ sub.end \in Nat
  BY DEF TypeOK, Subscription, SubRight
<1>2. Unused(sub, now) \in Int /\ Unused(sub, now) <= sub.recurring
  BY <1>1, UnusedAtMost
<1>3. Credit(o) <= sub.recurring
  BY <1>1, <1>2 DEF Credit
<1>4. Dated(QuoteFor(o), sub, now)
  BY <1>1, <1>3 DEF Dated, QuoteFor, Credit
<1> QED  BY <1>4 DEF Fair, Asks, QuoteFor

\* A fair quote stays fair while time passes, and whatever the subscription has
\* become: its dates then count no more.
LEMMA FairStep ==
  ASSUME IInv, Moves, NEW q \in Quote, Honest(q, sub, now), Fair(q, sub, now)
  PROVE  Fair(q, sub', now')
<1>1. /\ q.revision \in Nat /\ q.start \in Nat /\ now \in Nat /\ now' \in Nat
      /\ sub.revision \in Nat /\ q.revision <= sub.revision
  BY DEF IInv, TypeOK, Quote, Subscription, Honest, Moves
<1>2. CASE sub'.revision = sub.revision + 1
  BY <1>1, <1>2 DEF Fair, Asks
<1>3. CASE sub' = sub /\ now <= now'
  BY <1>1, <1>3 DEF Fair, Asks, Dated
<1> QED  BY <1>2, <1>3 DEF Moves

\* A step keeps quotes fair when a request keeps its quote or gets a fair one, an
\* invoice keeps its quote or gets that of its request, and what becomes applied
\* was told of.
LEMMA FairKept ==
  ASSUME IInv, FairInv, Moves,
         \A k \in Keys :
           /\ requests'[k].phase = "quoted" =>
                \/ requests'[k] = requests[k]
                \/ Fair(requests'[k].quote, sub', now')
           /\ invoices'[k].status # "none" =>
                \/ invoices[k].status # "none" /\ invoices'[k].quote = invoices[k].quote
                \/ requests[k].phase = "quoted" /\ invoices'[k].quote = requests[k].quote
           /\ Applied(k)' => Applied(k) \/ Heard(k)',
         events \subseteq events'
  PROVE  FairInv'
<1> SUFFICES ASSUME NEW k \in Keys
             PROVE  /\ requests'[k].phase = "quoted" => Fair(requests'[k].quote, sub', now')
                    /\ invoices'[k].status # "none" => Fair(invoices'[k].quote, sub', now')
                    /\ Applied(k)' => Heard(k)'
  BY DEF FairInv
<1>1. requests[k].phase = "quoted" => Fair(requests[k].quote, sub', now')
  BY Typed, FairStep DEF IInv, FairInv, RequestsRight
<1>2. invoices[k].status # "none" => Fair(invoices[k].quote, sub', now')
  BY Typed, FairStep DEF IInv, FairInv, InvoicesRight
<1>3. Heard(k) => Heard(k)'
  BY DEF Heard
<1> QED  BY <1>1, <1>2, <1>3 DEF FairInv

-----------------------------------------------------------------------------
(* The mapping *)

\* What PlanLedger sees of the events and of the invoices.
Received == {k \in Keys : Heard(k)}
Charged == [k \in Keys |-> IF Applied(k)
              THEN Price[invoices[k].quote.offer] - invoices[k].quote.credit ELSE 0]

\* What a step of PlanLedger may be mapped to.
PlanStep == [Plan!Next]_(Plan!ledgerVars)

\* The ledger's instance counts as Billing does.
LEMMA SameCount ==
  ASSUME NEW S
  PROVE  Plan!Cardinality(S) = Cardinality(S)
BY DEF Plan!Cardinality, Cardinality

\* Invoices that are not applied show nothing; applied ones stay as they are.
LEMMA ChargedKept ==
  ASSUME \A k \in Keys : /\ Applied(k)' <=> Applied(k)
                         /\ Applied(k) => invoices'[k].quote = invoices[k].quote
  PROVE  Charged' = Charged
BY DEF Charged

LEMMA ReceivedKept ==
  ASSUME events' = events
  PROVE  Received' = Received
BY DEF Received, Heard

\* A notice is recorded, and the payment it tells of is received.
LEMMA NoticeReceived ==
  ASSUME NEW k \in Keys, NEW kind \in Notices, NEW issue, Reconcile(k, kind, issue)
  PROVE  /\ events \subseteq events'
         /\ kind # "failure" => Received' = Received \union {k} /\ Heard(k)'
         /\ kind = "failure" => Received' = Received
<1>1. events' = events \union Event(k, kind)
  BY DEF Reconcile, Repeated, Event
<1>2. \A j \in Keys : Heard(j)' <=> Heard(j) \/ (j = k /\ kind \in {"success", "inquiry"})
  BY <1>1 DEF Heard, Event, Notices
<1>3. kind \in {"success", "inquiry"} <=> kind # "failure"
  BY DEF Notices
<1> QED  BY <1>1, <1>2, <1>3 DEF Received

\* The quote of an invoice that is applied states the terms of PlanLedger.
LEMMA TermsMet ==
  ASSUME IInv, FairInv, NEW k \in Keys, invoices[k].status # "none",
         invoices[k].quote.revision = sub.revision
  PROVE  LET q == invoices[k].quote IN
         /\ q.offer \in Offers /\ q.start \in 0 .. Plan!Greater(now, sub.end)
         /\ q.credit \in 0 .. Price[q.offer] - 1
         /\ Plan!Terms(q.offer, q.start, q.credit)
<1> DEFINE q == invoices[k].quote
<1>1. Honest(q, sub, now) /\ Fair(q, sub, now) /\ q \in Quote /\ q.revision = sub.revision
  BY Typed DEF IInv, InvoicesRight, FairInv
<1> HIDE DEF q
<1>2. /\ q.offer \in Offers /\ q.start \in Nat /\ q.credit \in Nat /\ Price[q.offer] \in Nat
      /\ sub.end \in Nat /\ now \in Nat /\ sub.start \in Nat /\ sub.recurring \in Nat
      /\ sub \in Subscription /\ sub.start < sub.end
  BY <1>1, Numbers DEF Honest, Quote, IInv, TypeOK, SubRight, Subscription
<1>3. Dated(q, sub, now) /\ Fits(q, sub, now) /\ q.credit < Price[q.offer]
  BY <1>1 DEF Fair, Asks, Honest
<1>4. q.start \in 0 .. Plan!Greater(now, sub.end)
  BY <1>2, <1>3 DEF Dated, Plan!Greater
<1>5. Plan!Running => Plan!Rest = Unused(sub, now)
  <2>1. Plan!Greater(now, sub.start) = LaterOf(now, sub.start)
    BY <1>2 DEF Plan!Greater, LaterOf
  <2> QED  BY <2>1 DEF Plan!Rest, Unused
<1>6. Plan!Terms(q.offer, q.start, q.credit)
  <2>1. CASE q.offer = sub.offer /\ q.start = sub.end /\ q.credit = 0
    BY <2>1 DEF Plan!Terms
  <2>2. CASE q.start <= now
    BY <2>2, <1>2, <1>3, <1>5 DEF Plan!Terms, Plan!Running, Fits, Dated
  <2> QED  BY <2>1, <2>2, <1>3 DEF Dated
<1> QED  BY <1>2, <1>3, <1>4, <1>6 DEF q

-----------------------------------------------------------------------------
(* Steps *)

\* A notice or an inquiry: the payment is received, and bought with once at most.
LEMMA ReconcileReceives ==
  ASSUME IInv, FairInv, NEW k \in Keys, NEW kind \in Notices, kind # "failure",
         NEW issue \in BOOLEAN, Reconcile(k, kind, issue),
         gateway[k] = "otherChannel" => issue,
         gateway[k] # "unpaid", Moves,
         told' \in {told, told \union {k}},
         UNCHANGED <<now, outletVars, requests, gateway>>
  PROVE  FairInv' /\ PlanStep
<1> DEFINE q == invoices[k].quote
<1>1. /\ TypeOK /\ invoices[k].status # "none" /\ invoices[k] \in Invoice
      /\ invoices \in [Keys -> Invoice] /\ gateway[k] \in Order
  BY Typed DEF IInv, InvoicesRight, TypeOK
<1>2. /\ events \subseteq events'
      /\ Received' = Received \union {k} /\ Heard(k)'
  BY NoticeReceived
<1>3. CASE UNCHANGED <<sub, invoices>>
  <2>1. FairInv'
    BY <1>2, <1>3, FairKept DEF Applied
  <2>2. Charged' = Charged
    BY <1>3, ChargedKept DEF Applied
  <2>3. Plan!Receive(k)
    BY <1>2, <1>3, <2>2 DEF Plan!Receive, Received, Charged, outletVars
  <2> QED  BY <2>1, <2>3 DEF PlanStep, Plan!Next
<1>4. CASE /\ invoices' = [invoices EXCEPT ![k].status = "REVIEW"]
           /\ sub' = sub /\ ~Applied(k)
  <2>1. /\ invoices'[k].status = "REVIEW" /\ invoices'[k].quote = q
        /\ \A j \in Keys : j # k => invoices'[j] = invoices[j]
    BY <1>1, <1>4 DEF Invoice
  <2>2. FairInv'
    BY <1>1, <1>2, <1>4, <2>1, FairKept DEF Applied
  <2>3. Charged' = Charged
    BY <1>4, <2>1, ChargedKept DEF Applied
  <2>4. Plan!Receive(k)
    BY <1>2, <1>4, <2>3 DEF Plan!Receive, Received, Charged, outletVars
  <2> QED  BY <2>2, <2>4 DEF PlanStep, Plan!Next
<1>5. CASE /\ invoices' = [invoices EXCEPT ![k].status = "APPLIED"]
           /\ ApplyQuote(q) /\ ~issue /\ ~Applied(k)
           /\ q.revision = sub.revision
           /\ ~(Usage > Capacity[q.offer])
  <2>1. /\ invoices'[k].status = "APPLIED" /\ invoices'[k].quote = q
        /\ \A j \in Keys : j # k => invoices'[j] = invoices[j]
    BY <1>1, <1>5 DEF Invoice
  <2>2. FairInv'
    BY <1>1, <1>2, <2>1, FairKept DEF Applied
  <2>3. /\ q.offer \in Offers /\ q.start \in 0 .. Plan!Greater(now, sub.end)
        /\ q.credit \in 0 .. Price[q.offer] - 1
        /\ Plan!Terms(q.offer, q.start, q.credit)
    BY <1>1, <1>5, TermsMet
  <2>4. Charged[k] = 0 /\ Charged' = [Charged EXCEPT ![k] = Price[q.offer] - q.credit]
    <3>1. ~Applied(k) /\ Applied(k)' /\ \A j \in Keys : j # k => (Applied(j)' <=> Applied(j))
      BY <1>5, <2>1 DEF Applied
    <3> HIDE DEF q
    <3>2. Charged'[k] = Price[q.offer] - q.credit
      BY <2>1, <3>1 DEF Charged
    <3>3. \A j \in Keys : j # k => Charged'[j] = Charged[j]
      BY <2>1, <3>1 DEF Charged
    <3> QED  BY <3>1, <3>2, <3>3 DEF Charged
  <2>5. Plan!Covers(q.offer, active)
    <3>1. Usage \in Nat /\ q.offer \in Plans
      BY <1>1, <2>3, UsageNatural, Numbers
    <3>2. Capacity[q.offer] \in Nat
      BY <3>1, Numbers
    <3>3. Usage <= Capacity[q.offer]
      BY <1>5, <3>1, <3>2
    <3> QED  BY <3>3, SameCount DEF Plan!Covers, Usage
  <2>6. Plan!Buy(k)
    <3> HIDE DEF q
    <3>1. sub' = [offer |-> q.offer, status |-> "ACTIVE", start |-> q.start,
                  end |-> q.start + Length[q.offer], recurring |-> Price[q.offer],
                  revision |-> sub.revision + 1]
      BY <1>5 DEF ApplyQuote, Period
    <3>2. gateway[k] \in {"paid", "otherAmount"}
      BY <1>1, <1>5 DEF Order
    <3> QED  BY <2>3, <2>4, <2>5, <3>1, <3>2 DEF Plan!Buy, Charged
  <2>7. Plan!Receive(k)
    BY <1>2, <2>6 DEF Plan!Receive, Received, Charged, outletVars
  <2> QED  BY <2>2, <2>7 DEF PlanStep, Plan!Next
<1> QED  BY <1>1, <1>3, <1>4, <1>5, Reconciled

\* A failed attempt changes nothing the ledger sees.
LEMMA FailureUnseen ==
  ASSUME IInv, FairInv, NEW k \in Keys, NEW issue \in BOOLEAN, NotifyFailed(k, issue), Moves
  PROVE  FairInv' /\ PlanStep
<1>1. /\ Reconcile(k, "failure", issue) /\ "failure" \in Notices
      /\ UNCHANGED <<now, outletVars, requests, gateway, told>>
      /\ TypeOK /\ invoices \in [Keys -> Invoice] /\ invoices[k].status # "none"
  BY DEF NotifyFailed, Notices, IInv, TypeOK
<1>2. events \subseteq events' /\ Received' = Received
  BY <1>1, NoticeReceived
<1>3. /\ sub' = sub
      /\ \/ invoices' = invoices
         \/ invoices' = [invoices EXCEPT ![k].status = "REVIEW"] /\ ~Applied(k)
  BY <1>1, Reconciled
<1>4. /\ \A j \in Keys : invoices'[j].quote = invoices[j].quote
      /\ \A j \in Keys : Applied(j)' <=> Applied(j)
      /\ \A j \in Keys : invoices'[j].status # "none" => invoices[j].status # "none"
  BY <1>1, <1>3 DEF Invoice, Applied
<1>5. FairInv'
  BY <1>1, <1>2, <1>4, FairKept
<1>6. Charged' = Charged
  BY <1>4, ChargedKept
<1> QED  BY <1>1, <1>2, <1>3, <1>5, <1>6
         DEF PlanStep, Plan!ledgerVars, Received, Charged, outletVars

\* Steps of the checkout: requests and open invoices are not seen.
LEMMA CheckoutUnseen ==
  ASSUME IInv, FairInv, NEW k \in Keys,
         \/ \E o \in Offers : AskQuote(k, o)
         \/ Persist(k) \/ Checkout(k) \/ CheckoutFails(k)
  PROVE  FairInv' /\ PlanStep
<1>1. /\ UNCHANGED <<now, sub, active, gateway, told, events>>
      /\ TypeOK /\ SubRight /\ invoices \in [Keys -> Invoice] /\ requests \in [Keys -> Request]
  BY DEF AskQuote, Persist, Checkout, CheckoutFails, outletVars, paymentVars, IInv, TypeOK
<1>2. Moves
  BY <1>1, Still
<1>3. ASSUME /\ \A j \in Keys :
               /\ requests'[j].phase = "quoted" =>
                    \/ requests'[j] = requests[j]
                    \/ Fair(requests'[j].quote, sub, now)
               /\ invoices'[j].status # "none" =>
                    \/ invoices[j].status # "none" /\ invoices'[j].quote = invoices[j].quote
                    \/ requests[j].phase = "quoted" /\ invoices'[j].quote = requests[j].quote
               /\ Applied(j)' <=> Applied(j)
               /\ Applied(j) => invoices'[j].quote = invoices[j].quote
      PROVE  FairInv' /\ PlanStep
  <2>1. FairInv'
    BY <1>1, <1>2, <1>3, FairKept
  <2>2. Received' = Received /\ Charged' = Charged
    BY <1>1, <1>3, ReceivedKept, ChargedKept
  <2> QED  BY <1>1, <2>1, <2>2 DEF PlanStep, Plan!ledgerVars, Received, Charged
<1>4. ASSUME NEW o \in Offers, AskQuote(k, o) PROVE FairInv' /\ PlanStep
  <2>1. Fair(QuoteFor(o), sub, now)
    BY <1>1, <1>4, QuoteFair DEF AskQuote
  <2> DEFINE q == QuoteFor(o)
  <2> HIDE DEF q
  <2>2. /\ requests' = [requests EXCEPT ![k] = [phase |-> "quoted", quote |-> q]]
        /\ invoices' = invoices
    BY <1>4 DEF AskQuote, q
  <2>3. \A j \in Keys : requests'[j] = requests[j] \/ requests'[j].quote = q
    BY <1>1, <2>2
  <2> QED  BY <2>1, <2>2, <2>3, <1>3 DEF q, Applied
<1>5. CASE Persist(k)
  <2>1. /\ requests[k].phase = "quoted" /\ invoices[k].status = "none"
        /\ invoices' = [invoices EXCEPT ![k] = [status |-> "open", quote |-> requests[k].quote]]
        /\ requests' = [requests EXCEPT ![k] = [phase |-> "calling", quote |-> NoQuote]]
    BY <1>5 DEF Persist, IInv, RequestsRight
  <2>2. /\ requests'[k].phase = "calling"
        /\ invoices'[k].status = "open" /\ invoices'[k].quote = requests[k].quote
        /\ \A j \in Keys : j # k => requests'[j] = requests[j] /\ invoices'[j] = invoices[j]
    BY <1>1, <2>1
  <2> QED  BY <2>1, <2>2, <1>3 DEF Applied
<1>6. CASE Checkout(k)
  <2>1. /\ requests'[k].phase = "done" /\ invoices' = invoices
        /\ \A j \in Keys : j # k => requests'[j] = requests[j]
    BY <1>1, <1>6 DEF Checkout, Request
  <2> QED  BY <2>1, <1>3 DEF Applied
<1>7. CASE CheckoutFails(k)
  <2> DEFINE status == IF invoices[k].status = "APPLIED" THEN "APPLIED" ELSE "REVIEW"
  <2>1. /\ invoices' = [invoices EXCEPT ![k].status = status]
        /\ requests' = [requests EXCEPT ![k].phase = "done"]
        /\ requests[k].phase = "calling"
    BY <1>7 DEF CheckoutFails
  <2>2. status = "APPLIED" <=> invoices[k].status = "APPLIED"
    OBVIOUS
  <2> HIDE DEF status
  <2>3. /\ requests'[k].phase = "done" /\ invoices'[k].quote = invoices[k].quote
        /\ invoices'[k].status = status /\ invoices[k].status # "none"
        /\ \A j \in Keys : j # k => requests'[j] = requests[j] /\ invoices'[j] = invoices[j]
    BY <1>1, <2>1 DEF Request, Invoice, IInv, RequestsRight
  <2> QED  BY <2>2, <2>3, <1>3 DEF Applied
<1> QED  BY <1>4, <1>5, <1>6, <1>7

\* Steps that leave requests, invoices and events alone keep quotes fair.
LEMMA BystanderFair ==
  ASSUME IInv, FairInv, Moves, UNCHANGED <<requests, invoices, events>>
  PROVE  FairInv' /\ Received' = Received /\ Charged' = Charged
BY FairKept, ReceivedKept, ChargedKept DEF Applied

LEMMA TickPasses ==
  ASSUME IInv, FairInv, Tick
  PROVE  Moves /\ FairInv' /\ PlanStep
<1>1. /\ now' = now + 1 /\ UNCHANGED <<sub, active, invoices, requests, gateway, events, told>>
      /\ now \in Nat /\ sub \in Subscription /\ SubRight
  BY DEF Tick, IInv, TypeOK, outletVars, paymentVars
<1>2. Moves
  BY <1>1 DEF Moves, SubRight
<1>3. FairInv' /\ Received' = Received /\ Charged' = Charged
  BY <1>1, <1>2, BystanderFair
<1>4. Plan!Pass
  BY <1>1, <1>3 DEF Plan!Pass, Received, Charged
<1> QED  BY <1>2, <1>3, <1>4 DEF PlanStep, Plan!Next

LEMMA OutletsServed ==
  ASSUME IInv, FairInv,
         \E o \in Outlets : OpenOutlet(o) \/ CloseOutlet(o) \/ ChooseFree(o)
  PROVE  Moves /\ FairInv' /\ PlanStep
<1>1. UNCHANGED <<now, sub, invoices, requests, gateway, events, told>>
  BY DEF OpenOutlet, CloseOutlet, ChooseFree, paymentVars
<1>2. Moves
  BY <1>1, Still
<1>3. FairInv' /\ Received' = Received /\ Charged' = Charged
  BY <1>1, <1>2, BystanderFair
<1>4. active \subseteq Outlets
  BY DEF IInv, TypeOK
<1>5. ASSUME NEW o \in Outlets, OpenOutlet(o) PROVE PlanStep
  <2>1. active' = active \union {o} /\ Writable
    BY <1>5 DEF OpenOutlet
  <2>2. sub.status = "ACTIVE" => Plan!Running
    BY <2>1 DEF Writable, Free, Plan!Running
  <2>3. PaidOutletsCovered'
    BY <1>5, OpenOutletKeeps
  <2>4. sub.status = "ACTIVE" => Plan!Covers(sub.offer, active')
    BY <1>1, <2>3, SameCount DEF PaidOutletsCovered, Usage, Plan!Covers
  <2>5. Plan!Serve
    BY <1>1, <1>3, <1>4, <2>1, <2>2, <2>4 DEF Plan!Serve, Received, Charged
  <2> QED  BY <2>5 DEF PlanStep, Plan!Next
<1>6. ASSUME NEW o \in Outlets, CloseOutlet(o) PROVE PlanStep
  <2>1. active' = active \ {o}
    BY <1>6 DEF CloseOutlet
  <2>2. Plan!Serve
    BY <1>1, <1>3, <1>4, <2>1 DEF Plan!Serve, Received, Charged
  <2> QED  BY <2>2 DEF PlanStep, Plan!Next
<1>7. ASSUME NEW o \in Outlets, ChooseFree(o) PROVE PlanStep
  BY <1>1, <1>3, <1>7 DEF ChooseFree, PlanStep, Plan!ledgerVars, Received, Charged
<1> QED  BY <1>2, <1>3, <1>5, <1>6, <1>7

\* The customer pays, and the owner is told what was received.
LEMMA PayTold ==
  ASSUME IInv, FairInv, NEW k \in Keys, Pay(k) \/ VerifyPaid(k)
  PROVE  Moves /\ FairInv' /\ PlanStep
<1>1. UNCHANGED <<now, sub, active, invoices, requests, events>>
  BY DEF Pay, VerifyPaid, outletVars
<1>2. Moves
  BY <1>1, Still
<1>3. FairInv' /\ Received' = Received /\ Charged' = Charged
  BY <1>1, <1>2, BystanderFair
<1>4. CASE Pay(k)
  <2>1. Order \ {"unpaid"} = {"paid", "otherAmount", "otherChannel"}
    BY DEF Order
  <2>2. Plan!Pay(k)
    BY <1>1, <1>3, <1>4, <2>1 DEF Pay, Plan!Pay, Received, Charged
  <2> QED  BY <1>2, <1>3, <2>2 DEF PlanStep, Plan!Next
<1>5. CASE VerifyPaid(k)
  <2>1. k \in Received
    BY <1>5 DEF VerifyPaid, FairInv, Applied, Received
  <2>2. Plan!Tell(k)
    BY <1>1, <1>3, <1>5, <2>1 DEF VerifyPaid, Plan!Tell, Received, Charged
  <2> QED  BY <1>2, <1>3, <2>2 DEF PlanStep, Plan!Next
<1> QED  BY <1>2, <1>3, <1>4, <1>5

\* A grant and a longer trial cost nothing and cut nothing short.
LEMMA OperatorOverrides ==
  ASSUME IInv, FairInv, Operator
  PROVE  Moves /\ FairInv' /\ PlanStep
<1>1. /\ UNCHANGED <<now, active, invoices, requests, gateway, events, told>>
      /\ TypeOK /\ SubRight /\ now \in Nat
  BY DEF Operator, ExtendTrial, GrantPlan, IInv, TypeOK, outletVars, paymentVars
<1>2. ASSUME /\ sub' \in Subscription /\ SubRight' /\ sub'.revision = sub.revision + 1
             /\ sub'.offer \in Offers \union {Trial}
             /\ sub'.recurring \in {0, sub.recurring}
             /\ sub'.status = "ACTIVE" => Plan!Covers(sub'.offer, active)
             /\ Running => /\ sub'.status = "ACTIVE" /\ sub'.recurring = sub.recurring
                           /\ sub'.start = sub.start /\ sub'.end = sub.end
      PROVE  Moves /\ FairInv' /\ PlanStep
  <2>1. Moves
    BY <1>1, <1>2 DEF Moves
  <2>2. FairInv' /\ Received' = Received /\ Charged' = Charged
    BY <1>1, <2>1, BystanderFair
  <2>3. Plan!Override
    BY <1>1, <1>2, <2>2 DEF Plan!Override, Plan!Running, Running, Received, Charged
  <2> QED  BY <2>1, <2>2, <2>3 DEF PlanStep, Plan!Next
<1>3. CASE ExtendTrial
  <2>1. /\ sub' \in Subscription /\ SubRight' /\ sub'.revision = sub.revision + 1
        /\ sub'.status = "TRIAL" /\ ~Running
    BY <1>1, <1>3, ExtendRight
  <2>2. sub'.offer = Trial /\ sub'.recurring = sub.recurring
    BY <1>1, <1>3 DEF ExtendTrial, TypeOK, Subscription
  <2> QED  BY <1>2, <2>1, <2>2
<1>4. ASSUME NEW o \in Offers, GrantPlan(o) PROVE Moves /\ FairInv' /\ PlanStep
  <2>1. /\ sub' \in Subscription /\ SubRight' /\ sub'.revision = sub.revision + 1
        /\ sub'.offer = o
    BY <1>1, <1>4, GrantRight
  <2>2. Plan!Covers(sub'.offer, active)
    BY <1>4, <2>1, SameCount DEF GrantPlan, Plan!Covers, Usage
  <2>3. /\ sub'.recurring \in {0, sub.recurring}
        /\ Running => /\ sub'.status = "ACTIVE" /\ sub'.recurring = sub.recurring
                      /\ sub'.start = sub.start /\ sub'.end = sub.end
    BY <1>4 DEF GrantPlan
  <2> QED  BY <1>2, <2>1, <2>2, <2>3
<1> QED  BY <1>3, <1>4 DEF Operator

-----------------------------------------------------------------------------
(* Theorems *)

LEMMA FairInitially == Init => FairInv
BY DEF Init, FairInv, NoRequest, NoInvoice, Applied

\* Every step keeps quotes fair and is a step of PlanLedger, or a stutter of it.
LEMMA PlanSteps ==
  ASSUME IInv, FairInv, Next
  PROVE  FairInv' /\ PlanStep
<1>1. CASE Tick
  BY <1>1, TickPasses
<1>2. CASE Owner
  BY <1>2, OutletsServed, CheckoutUnseen DEF Owner
<1>3. ASSUME NEW k \in Keys, VerifyInquiry(k) PROVE FairInv' /\ PlanStep
  <2>1. Moves
    BY <1>3, VerifyInquiryKeeps
  <2> DEFINE issue == gateway[k] = "otherChannel"
  <2>2. /\ Reconcile(k, "inquiry", issue) /\ "inquiry" \in Notices /\ issue \in BOOLEAN
        /\ gateway[k] # "unpaid" /\ told' \in {told, told \union {k}}
        /\ UNCHANGED <<now, outletVars, requests, gateway>>
    BY <1>3 DEF VerifyInquiry, Notices
  <2> QED  BY <2>1, <2>2, ReconcileReceives
<1>4. CASE Server
  BY <1>4, <1>3, CheckoutUnseen, PayTold DEF Server
<1>5. ASSUME NEW k \in Keys, NotifyPaid(k) PROVE FairInv' /\ PlanStep
  <2>1. Moves
    BY <1>5, NotifyPaidKeeps
  <2> DEFINE issue == gateway[k] # "paid"
  <2>2. /\ Reconcile(k, "success", issue) /\ "success" \in Notices /\ issue \in BOOLEAN
        /\ gateway[k] # "unpaid" /\ told' \in {told, told \union {k}}
        /\ UNCHANGED <<now, outletVars, requests, gateway>>
    BY <1>5 DEF NotifyPaid, Notices
  <2> QED  BY <2>1, <2>2, ReconcileReceives
<1>6. ASSUME NEW k \in Keys, NEW issue \in BOOLEAN, NotifyFailed(k, issue)
      PROVE  FairInv' /\ PlanStep
  BY <1>6, NotifyFailedKeeps, FailureUnseen
<1>7. CASE Gateway
  BY <1>7, <1>5, <1>6, PayTold DEF Gateway
<1>8. CASE Operator
  BY <1>8, OperatorOverrides
<1> QED  BY <1>1, <1>2, <1>4, <1>7, <1>8 DEF Next

LEMMA FairStutter ==
  ASSUME FairInv, UNCHANGED vars
  PROVE  FairInv' /\ PlanStep
<1>1. UNCHANGED <<now, sub, active, invoices, requests, gateway, events, told>>
  BY DEF vars, outletVars, paymentVars
<1>2. FairInv'
  BY <1>1 DEF FairInv, Fair, Asks, Dated, Applied, Heard
<1>3. UNCHANGED Plan!ledgerVars
  BY <1>1 DEF Plan!ledgerVars, Heard, Applied
<1> QED  BY <1>2, <1>3 DEF PlanStep

\* Every quote and invoice asks for something; as long as the subscription has not
\* changed since, its dates join or begin now and its credit is at most what the
\* period cost; what is applied was told of.
THEOREM QuotesFair == Spec => []FairInv
<1>1. IInv /\ FairInv /\ [Next]_vars => FairInv'
  BY PlanSteps, FairStutter
<1> QED  BY FairInitially, Invariant, <1>1, PTL DEF Spec

\* Every behaviour of quotes, checkouts, notices, verifications, outlets and
\* overrides is a behaviour of PlanLedger: a payment buys a plan once, at a price
\* with no more credit than was paid and no less than is left, and the operator
\* takes nothing away.
THEOREM PlanPromiseHolds == Spec => PlanPromise
<1>1. Init => Plan!Init
  BY DEF Init, Plan!Init, Heard, Applied, NoInvoice
<1>2. IInv /\ FairInv /\ [Next]_vars => [Plan!Next]_(Plan!ledgerVars)
  BY PlanSteps, FairStutter DEF PlanStep
<1> QED  BY <1>1, <1>2, Invariant, QuotesFair, PTL DEF Spec, PlanPromise, Plan!Spec
=============================================================================
