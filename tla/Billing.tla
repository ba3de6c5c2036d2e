------------------------------ MODULE Billing ------------------------------
(***************************************************************************)
(* The subscription of one tenant: quotes, checkouts and payment notices   *)
(* (services/billing/engine.ts, routes.ts), the prices and periods behind  *)
(* them (src/config/subscriptionPolicy.ts), the outlets a plan covers, the *)
(* Free plan a lapsed trial falls back to, and the overrides of an         *)
(* operator (src/server/subscriptionAdminRoutes.ts).                       *)
(*                                                                         *)
(* An offer is a plan with its billing cycle and extra outlets.  The       *)
(* payment gateway is external: it may tell of a payment at any time, any  *)
(* number of times, or never.  POST start-trial is left out: every         *)
(* subscription is born as a used trial, so it never writes.               *)
(***************************************************************************)
EXTENDS Integers, FiniteSets

CONSTANTS
  Offers,       \* what can be bought
  Trial,        \* the offer a tenant begins with
  Capacity,     \* outlets an offer covers
  Length,       \* length of its period
  Price,        \* price of a period
  Outlets,      \* the tenant's outlets, those still to be opened included
  NoOutlet,     \* no branch is chosen for the Free plan
  Keys,         \* checkout keys of the client: one invoice each
  MaxTime,      \* bound: how long the clock runs
  MaxRevision   \* bound: revision up to which the operator overrides

Plans == Offers \union {Trial}

ASSUME TrialAssumption == Trial \notin Offers
ASSUME CapacityAssumption == Capacity \in [Plans -> Nat]
ASSUME LengthAssumption == Length \in [Plans -> Nat \ {0}]
ASSUME PriceAssumption == Price \in [Offers -> Nat \ {0}]
ASSUME OutletsAssumption == IsFiniteSet(Outlets) /\ NoOutlet \notin Outlets
ASSUME BoundsAssumption == MaxTime \in Nat /\ MaxRevision \in Nat

VARIABLES
  now,          \* the clock
  sub,          \* the row of billing.subscriptions
  active,       \* the active outlets
  selection,    \* free_selection: the branch the Free plan keeps
  invoices,     \* billing.invoices by checkout key
  requests,     \* the checkout under way with a key
  gateway,      \* what has become of an order at the payment gateway
  events,       \* what billing.payment_events tells of payments made
  told          \* invoices the owner was told are paid

outletVars == <<active, selection>>
paymentVars == <<gateway, events, told>>
vars == <<now, sub, outletVars, invoices, requests, paymentVars>>

Quote == [offer : Plans, revision : Nat, start : Nat, credit : Nat]
NoQuote == [offer |-> Trial, revision |-> 0, start |-> 0, credit |-> 0]

Subscription == [offer : Plans, status : {"TRIAL", "ACTIVE"}, start : Nat,
                 end : Nat, recurring : Nat, revision : Nat]

\* "APPLIED" stands for PAID and APPLIED, which are written together.
Invoice == [status : {"none", "open", "REVIEW", "APPLIED"}, quote : Quote]
NoInvoice == [status |-> "none", quote |-> NoQuote]

Request == [phase : {"idle", "quoted", "calling", "done"}, quote : Quote]
NoRequest == [phase |-> "idle", quote |-> NoQuote]

\* An order is paid as the invoice asks, with another amount, or through a
\* channel that is not approved.
Order == {"unpaid", "paid", "otherAmount", "otherChannel"}

\* A notice of the webhook, or the answer to an inquiry.
Notices == {"success", "failure", "inquiry"}

TypeOK ==
  /\ now \in Nat
  /\ sub \in Subscription
  /\ active \subseteq Outlets
  /\ selection \in Outlets \union {NoOutlet}
  /\ invoices \in [Keys -> Invoice]
  /\ requests \in [Keys -> Request]
  /\ gateway \in [Keys -> Order]
  /\ events \subseteq Keys \X Notices
  /\ told \subseteq Keys

Init ==
  /\ now = 0
  /\ sub = [offer |-> Trial, status |-> "TRIAL", start |-> 0,
            end |-> Length[Trial], recurring |-> 0, revision |-> 0]
  /\ active = {}
  /\ selection = NoOutlet
  /\ invoices = [k \in Keys |-> NoInvoice]
  /\ requests = [k \in Keys |-> NoRequest]
  /\ gateway = [k \in Keys |-> "unpaid"]
  /\ events = {}
  /\ told = {}

Tick ==
  /\ now < MaxTime
  /\ now' = now + 1
  /\ UNCHANGED <<sub, outletVars, invoices, requests, paymentVars>>

-----------------------------------------------------------------------------
(* Access and outlets *)

Usage == Cardinality(active)

\* isFreePlan: the trial is over and nothing was bought.
Free == sub.status = "TRIAL" /\ now >= sub.end

\* assertTenantWritable.
Writable == IF Free THEN selection # NoOutlet ELSE now < sub.end

\* assertOutletCapacity: the outlet itself does not count; on the Free plan
\* only the chosen branch passes, whatever else is open.
HasCapacity(o) ==
  IF Free THEN o = selection
  ELSE Cardinality(active \ {o}) < Capacity[sub.offer]

\* POST /subscription/outlets: created, or active again.
OpenOutlet(o) ==
  /\ Writable
  /\ HasCapacity(o)
  /\ active' = active \union {o}
  /\ UNCHANGED <<now, sub, selection, invoices, requests, paymentVars>>

CloseOutlet(o) ==
  /\ Writable
  /\ active' = active \ {o}
  /\ UNCHANGED <<now, sub, selection, invoices, requests, paymentVars>>

\* POST /subscription/free-plan.
ChooseFree(o) ==
  /\ Free
  /\ o \in active
  /\ selection' = o
  /\ UNCHANGED <<now, sub, active, invoices, requests, paymentVars>>

-----------------------------------------------------------------------------
(* Quotes and checkout *)

LaterOf(m, n) == IF m >= n THEN m ELSE n

\* A paid (or granted) period that still runs.
Running == sub.status = "ACTIVE" /\ now < sub.end

\* The unused part of what period s cost at time t, never more than all of it.
Unused(s, t) == (s.recurring * (s.end - LaterOf(t, s.start))) \div (s.end - s.start)

\* Mutant of Credit: the list price of the plan is credited, whatever was paid.
CreditListPrice(o) ==
  IF Running /\ o # sub.offer
  THEN (Price[sub.offer] * (sub.end - LaterOf(now, sub.start))) \div (sub.end - sub.start)
  ELSE 0

Credit(o) == IF Running /\ o # sub.offer THEN Unused(sub, now) ELSE 0

\* Mutant of QuoteFor: a renewal begins at once, like a change.
QuoteForNow(o) ==
  [offer |-> o, revision |-> sub.revision, start |-> now, credit |-> Credit(o)]

\* billingQuote: a renewal begins where the period ends, a change at once.
QuoteFor(o) ==
  [offer |-> o, revision |-> sub.revision,
   start |-> IF Running /\ o = sub.offer THEN sub.end ELSE now,
   credit |-> Credit(o)]

\* POST /subscription/checkout up to its insert.  Its two reads are one step:
\* the usage is looked at again when the payment is applied.
AskQuote(k, o) ==
  /\ requests[k].phase = "idle"
  /\ Usage <= Capacity[o]
  /\ Credit(o) < Price[o]
  /\ requests' = [requests EXCEPT ![k] = [phase |-> "quoted", quote |-> QuoteFor(o)]]
  /\ UNCHANGED <<now, sub, outletVars, invoices, paymentVars>>

\* INSERT ... ON CONFLICT(tenant_id, checkout_key) DO NOTHING.  Another request
\* with the key is answered from this invoice or refused, and changes nothing.
Persist(k) ==
  /\ requests[k].phase = "quoted"
  /\ invoices' = [invoices EXCEPT ![k] = [status |-> "open", quote |-> requests[k].quote]]
  /\ requests' = [requests EXCEPT ![k] = [phase |-> "calling", quote |-> NoQuote]]
  /\ UNCHANGED <<now, sub, outletVars, paymentVars>>

\* The gateway's answer arrives: the owner gets a link to pay.
Checkout(k) ==
  /\ requests[k].phase = "calling"
  /\ requests' = [requests EXCEPT ![k].phase = "done"]
  /\ UNCHANGED <<now, sub, outletVars, invoices, paymentVars>>

\* Mutant of CheckoutFails: an invoice that is paid by now is put back.
CheckoutFailsReviews(k) ==
  /\ requests[k].phase = "calling"
  /\ requests' = [requests EXCEPT ![k].phase = "done"]
  /\ invoices' = [invoices EXCEPT ![k].status = "REVIEW"]
  /\ UNCHANGED <<now, sub, outletVars, paymentVars>>

\* The call fails, or its answer is lost.  A handler that dies instead stays
\* "calling" for ever.
CheckoutFails(k) ==
  /\ requests[k].phase = "calling"
  /\ requests' = [requests EXCEPT ![k].phase = "done"]
  /\ invoices' = [invoices EXCEPT ![k].status =
                    IF @ = "APPLIED" THEN @ ELSE "REVIEW"]
  /\ UNCHANGED <<now, sub, outletVars, paymentVars>>

-----------------------------------------------------------------------------
(* The payment gateway *)

\* The customer pays by the link, which the gateway may have issued although the
\* answer to the checkout was lost.
Pay(k) ==
  /\ invoices[k].status # "none"
  /\ gateway[k] = "unpaid"
  /\ gateway' \in {[gateway EXCEPT ![k] = how] : how \in Order \ {"unpaid"}}
  /\ UNCHANGED <<now, sub, outletVars, invoices, requests, events, told>>

-----------------------------------------------------------------------------
(* Reconciliation *)

Period(o, start) == start + Length[o]

\* Mutant of Outcome: the revision of the subscription is not looked at.
OutcomeAnyRevision(k, kind, issue) ==
  IF invoices[k].status = "APPLIED" THEN "DUPLICATE"
  ELSE IF issue THEN "REVIEW"
  ELSE IF kind = "failure" THEN "FAILED"
  ELSE IF Usage > Capacity[invoices[k].quote.offer] THEN "REVIEW"
  ELSE "APPLIED"

\* Mutant of Outcome: the outlets are not counted again.
OutcomeAnyUsage(k, kind, issue) ==
  IF invoices[k].status = "APPLIED" THEN "DUPLICATE"
  ELSE IF issue THEN "REVIEW"
  ELSE IF kind = "failure" THEN "FAILED"
  ELSE IF invoices[k].quote.revision # sub.revision THEN "REVIEW"
  ELSE "APPLIED"

\* Mutant of Outcome: the payment of a stale quote counts as failed.
OutcomeStaleFails(k, kind, issue) ==
  IF invoices[k].status = "APPLIED" THEN "DUPLICATE"
  ELSE IF issue THEN "REVIEW"
  ELSE IF kind = "failure" \/ invoices[k].quote.revision # sub.revision THEN "FAILED"
  ELSE IF Usage > Capacity[invoices[k].quote.offer] THEN "REVIEW"
  ELSE "APPLIED"

\* What reconcilePayment makes of a notice; issue: amount, currency, channel or
\* status is not what the invoice asks for.
Outcome(k, kind, issue) ==
  LET inv == invoices[k] IN
  IF inv.status = "APPLIED" THEN "DUPLICATE"
  ELSE IF issue THEN "REVIEW"
  ELSE IF kind = "failure" THEN "FAILED"
  ELSE IF inv.quote.revision # sub.revision THEN "REVIEW"
  ELSE IF Usage > Capacity[inv.quote.offer] THEN "REVIEW"
  ELSE "APPLIED"

\* The period of the quote begins; its offer, price and dates are as quoted.
ApplyQuote(q) ==
  sub' = [offer |-> q.offer, status |-> "ACTIVE", start |-> q.start,
          end |-> Period(q.offer, q.start), recurring |-> Price[q.offer],
          revision |-> sub.revision + 1]

MarkInvoice(k, status) == invoices' = [invoices EXCEPT ![k].status = status]

\* The event key of an inquiry is the invoice and its transaction; every
\* delivery of a webhook has a request-id of its own, and one that is delivered
\* twice changes nothing.
Repeated(k, kind) == kind = "inquiry" /\ <<k, kind>> \in events

\* No later step asks for the event of a failed attempt.
Event(k, kind) == IF kind = "failure" THEN {} ELSE {<<k, kind>>}

\* Mutant of Reconcile: every outcome is written on the invoice.
ReconcileMarksAll(k, kind, issue) ==
  LET outcome == Outcome(k, kind, issue) IN
  IF Repeated(k, kind) THEN UNCHANGED <<sub, invoices, events>>
  ELSE /\ events' = events \union Event(k, kind)
       /\ MarkInvoice(k, outcome)
       /\ \/ outcome = "APPLIED" /\ ApplyQuote(invoices[k].quote)
          \/ outcome # "APPLIED" /\ UNCHANGED sub

\* One transaction under the tenant's lock; an event key counts once.
Reconcile(k, kind, issue) ==
  LET outcome == Outcome(k, kind, issue) IN
  IF Repeated(k, kind) THEN UNCHANGED <<sub, invoices, events>>
  ELSE /\ events' = events \union Event(k, kind)
       /\ \/ /\ outcome = "APPLIED"
             /\ ApplyQuote(invoices[k].quote)
             /\ MarkInvoice(k, "APPLIED")
          \/ /\ outcome = "REVIEW"
             /\ MarkInvoice(k, "REVIEW")
             /\ UNCHANGED sub
          \/ /\ outcome \in {"DUPLICATE", "FAILED"}
             /\ UNCHANGED <<sub, invoices>>

\* The signed webhook tells of the payment, as often as the gateway likes; its
\* amount and channel are compared with the invoice.
NotifyPaid(k) ==
  /\ gateway[k] # "unpaid"
  /\ Reconcile(k, "success", gateway[k] # "paid")
  /\ UNCHANGED <<now, outletVars, requests, gateway, told>>

\* It tells of an attempt that failed, perhaps after one that succeeded.
NotifyFailed(k, issue) ==
  /\ invoices[k].status # "none"
  /\ Reconcile(k, "failure", issue)
  /\ UNCHANGED <<now, outletVars, requests, gateway, told>>

\* GET /subscription/verify: a paid invoice is answered at once.
VerifyPaid(k) ==
  /\ invoices[k].status = "APPLIED"
  /\ told' = told \union {k}
  /\ UNCHANGED <<now, sub, outletVars, invoices, requests, gateway, events>>

\* For another the gateway is asked; its answer, "success", is reconciled at any
\* time after, when webhooks or another inquiry may have been faster.  Amount
\* and currency are taken from the invoice, so only the channel can be wrong.
\* APPLIED and DUPLICATE are told as paid, and a repeated inquiry is a
\* DUPLICATE; one with other bytes than the one recorded is refused, and a
\* failed one says nothing.
VerifyInquiry(k) ==
  LET issue == gateway[k] = "otherChannel"
      outcome == Outcome(k, "inquiry", issue)
      known == Repeated(k, "inquiry")
  IN
  /\ gateway[k] # "unpaid"
  /\ Reconcile(k, "inquiry", issue)
  /\ \/ /\ known \/ outcome \in {"APPLIED", "DUPLICATE"}
        /\ told' = told \union {k}
     \/ /\ known \/ outcome = "REVIEW"
        /\ UNCHANGED told
  /\ UNCHANGED <<now, outletVars, requests, gateway>>

-----------------------------------------------------------------------------
(* The operator *)

\* EXTEND_TRIAL.
ExtendTrial ==
  /\ sub.revision < MaxRevision
  /\ sub.offer = Trial
  /\ sub' = [sub EXCEPT !.end = LaterOf(@, now) + 1, !.status = "TRIAL",
                        !.revision = @ + 1]
  /\ UNCHANGED <<now, outletVars, invoices, requests, paymentVars>>

\* GRANT_PLAN, manualTierChange: a running period keeps its dates and price; a
\* paid one also keeps its cycle.
GrantPlan(o) ==
  /\ sub.revision < MaxRevision
  /\ Usage <= Capacity[o]
  /\ Running /\ sub.recurring > 0 => Length[o] = Length[sub.offer]
  /\ sub' = [offer |-> o, status |-> "ACTIVE",
             start |-> IF Running THEN sub.start ELSE now,
             end |-> IF Running THEN sub.end ELSE Period(o, now),
             recurring |-> IF Running THEN sub.recurring ELSE 0,
             revision |-> sub.revision + 1]
  /\ UNCHANGED <<now, outletVars, invoices, requests, paymentVars>>

-----------------------------------------------------------------------------

Owner ==
  \/ \E o \in Outlets : OpenOutlet(o) \/ CloseOutlet(o) \/ ChooseFree(o)
  \/ \E k \in Keys, o \in Offers : AskQuote(k, o)

Server == \E k \in Keys :
  \/ Persist(k) \/ Checkout(k) \/ CheckoutFails(k)
  \/ VerifyPaid(k) \/ VerifyInquiry(k)

Gateway == \E k \in Keys :
  \/ Pay(k)
  \/ NotifyPaid(k)
  \/ \E issue \in BOOLEAN : NotifyFailed(k, issue)

Operator == ExtendTrial \/ \E o \in Offers : GrantPlan(o)

Next == Tick \/ Owner \/ Server \/ Gateway \/ Operator

Spec == Init /\ [][Next]_vars

-----------------------------------------------------------------------------

Applied(k) == invoices[k].status = "APPLIED"

\* Two invoices are never both applied to the same state of the subscription,
\* however their notices and the operator's overrides interleave.
PaidApart == \A k1, k2 \in Keys :
  k1 # k2 /\ Applied(k1) /\ Applied(k2) =>
    invoices[k1].quote.revision # invoices[k2].quote.revision

\* The server was told of the payment of invoice k.
Heard(k) == <<k, "success">> \in events \/ <<k, "inquiry">> \in events

\* A payment the server was told of is never lost from sight: its invoice is
\* applied or under review, whatever failed attempts and late checkouts follow.
\* An invoice is applied only to a payment it was told of, made through an
\* approved channel, and with another amount only after an inquiry, which does
\* not see the amount.
PaymentsAccounted == \A k \in Keys :
  /\ Heard(k) => invoices[k].status \in {"APPLIED", "REVIEW"}
  /\ Applied(k) => Heard(k) /\ gateway[k] \in {"paid", "otherAmount"}
  /\ Applied(k) /\ gateway[k] = "otherAmount" => <<k, "inquiry">> \in events

\* Invoice k bought the period that subscription s is in.
Bought(k, s) ==
  LET q == invoices[k].quote IN
  /\ Applied(k)
  /\ s.recurring = Price[q.offer]
  /\ s.start = q.start
  /\ s.end = Period(q.offer, q.start)

\* The period that runs at a price was bought by an invoice that still says so:
\* a checkout whose answer fails after its payment was applied, a late notice or
\* an operator's override does not take the receipt of what runs away.
PeriodBacked == sub.recurring > 0 => \E k \in Keys : Bought(k, sub)

\* The owner is told "paid" of an invoice "only when the ledger actually applied
\* it; REVIEW stays pending for support" (routes.ts:184).
PaidOnlyApplied == \A k \in told : Applied(k)

\* A bought or granted plan covers the active outlets, although usage is
\* measured when the invoice is quoted and outlets are opened before it is paid.
PaidOutletsCovered == sub.status = "ACTIVE" => Usage <= Capacity[sub.offer]

\* The invoice a step applies.
AppliedNow(k) == ~Applied(k) /\ Applied(k)'

Override == sub'.start = sub.start /\ sub'.end = sub.end
            /\ sub'.recurring = sub.recurring
Renewal == sub'.offer = sub.offer /\ sub'.start = sub.end

\* Paid time is kept: a running period is only renewed at its end, overridden
\* with its dates and price, or replaced by an invoice that credits what is
\* left of it when the payment comes in.
PaidTimeKept == [][Running /\ sub' # sub =>
  \/ Override
  \/ Renewal
  \/ \E k \in Keys : AppliedNow(k) /\ invoices[k].quote.credit >= Unused(sub, now)]_vars

\* Quotes, checkouts, webhooks, verifications and overrides, however they
\* interleave, implement PlanLedger.
Plan == INSTANCE PlanLedger WITH
  received <- {k \in Keys : Heard(k)},
  charged <- [k \in Keys |-> IF Applied(k)
                THEN Price[invoices[k].quote.offer] - invoices[k].quote.credit ELSE 0]

PlanPromise == Plan!Spec

\* "Renewal preserves paid time.  Changes start a new period, crediting the
\* remaining fraction of the amount actually contracted"
\* (subscriptionPolicy.ts:40): the same for all that is prepaid, the periods
\* that renewals have added included.
Prepaid(s, t) == (s.recurring * (s.end - t)) \div Length[s.offer]
PrepaidKept == [][Running /\ sub' # sub =>
  \/ Override
  \/ Renewal
  \/ \E k \in Keys : AppliedNow(k) /\ invoices[k].quote.credit >= Prepaid(sub, now)]_vars
=============================================================================
