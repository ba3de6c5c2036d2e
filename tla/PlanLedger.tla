----------------------------- MODULE PlanLedger -----------------------------
(***************************************************************************)
(* What billing promises the owner of a tenant, without quotes, checkouts, *)
(* notices and their order: a plan changes only by a payment, which is     *)
(* applied once, at a price that credits what is left of the running plan, *)
(* or by the operator, who never takes paid time away; a plan in force     *)
(* covers the outlets; "paid" is told only of payments received.           *)
(***************************************************************************)
EXTENDS Integers, FiniteSets

CONSTANTS Offers, Trial, Capacity, Length, Price, Outlets, Keys

VARIABLES
  now,        \* the clock
  sub,        \* the plan in force: its offer, period, price and revision
  active,     \* the active outlets
  gateway,    \* what the customer has done about each invoice
  received,   \* payments the server was told of
  charged,    \* what each applied payment paid for a plan; 0: not applied
  told        \* payments the owner was told are received

ledgerVars == <<now, sub, active, gateway, received, charged, told>>

Init ==
  /\ now = 0
  /\ sub = [offer |-> Trial, status |-> "TRIAL", start |-> 0,
            end |-> Length[Trial], recurring |-> 0, revision |-> 0]
  /\ active = {}
  /\ gateway = [k \in Keys |-> "unpaid"]
  /\ received = {}
  /\ charged = [k \in Keys |-> 0]
  /\ told = {}

Greater(m, n) == IF m < n THEN n ELSE m

Running == sub.status = "ACTIVE" /\ now < sub.end

\* What the rest of the period is worth, of the price contracted for it.
Rest == (sub.recurring * (sub.end - Greater(now, sub.start))) \div (sub.end - sub.start)

Covers(o, outlets) == Cardinality(outlets) <= Capacity[o]

Pass ==
  /\ now' = now + 1
  /\ UNCHANGED <<sub, active, gateway, received, charged, told>>

\* Under a bought or granted plan outlets open only while it runs and covers them.
Serve ==
  /\ active' \subseteq Outlets
  /\ sub.status = "ACTIVE" =>
       active' \subseteq active \/ (Running /\ Covers(sub.offer, active'))
  /\ UNCHANGED <<now, sub, gateway, received, charged, told>>

Pay(k) ==
  /\ gateway[k] = "unpaid"
  /\ gateway' \in {[gateway EXCEPT ![k] = how] : how \in {"paid", "otherAmount", "otherChannel"}}
  /\ UNCHANGED <<now, sub, active, received, charged, told>>

\* A renewal begins where the period ends and costs its price.  A change begins
\* no later than now and costs its price less a credit: never more than the
\* running period cost, never less than what is left of it.
Terms(o, start, credit) ==
  \/ o = sub.offer /\ start = sub.end /\ credit = 0
  \/ start <= now /\ credit <= sub.recurring /\ (Running => credit >= Rest)

\* A payment through an approved channel is applied, once, to a plan that covers
\* the outlets.  Its amount is not promised to be the one asked for: an inquiry
\* takes the invoice's for it.
Buy(k) == \E o \in Offers, start \in 0 .. Greater(now, sub.end) :
  \E credit \in 0 .. Price[o] - 1 :
    /\ gateway[k] \in {"paid", "otherAmount"}
    /\ charged[k] = 0
    /\ Covers(o, active)
    /\ Terms(o, start, credit)
    /\ sub' = [offer |-> o, status |-> "ACTIVE", start |-> start,
               end |-> start + Length[o], recurring |-> Price[o],
               revision |-> sub.revision + 1]
    /\ charged' = [charged EXCEPT ![k] = Price[o] - credit]

\* The server is told of a payment.  It may apply it, and tell the owner.
Receive(k) ==
  /\ gateway[k] # "unpaid"
  /\ received' = received \union {k}
  /\ told' \in {told, told \union {k}}
  /\ Buy(k) \/ UNCHANGED <<sub, charged>>
  /\ UNCHANGED <<now, active, gateway>>

Tell(k) ==
  /\ k \in received
  /\ told' = told \union {k}
  /\ UNCHANGED <<now, sub, active, gateway, received, charged>>

\* The operator gives a plan or a longer trial: nobody pays for it, a running
\* plan keeps its dates and its price.
Override ==
  /\ sub'.revision = sub.revision + 1
  /\ sub'.offer \in Offers \union {Trial}
  /\ sub'.recurring \in {0, sub.recurring}
  /\ sub'.status = "ACTIVE" => Covers(sub'.offer, active)
  /\ Running => /\ sub'.status = "ACTIVE" /\ sub'.recurring = sub.recurring
                /\ sub'.start = sub.start /\ sub'.end = sub.end
  /\ UNCHANGED <<now, active, gateway, received, charged, told>>

Next ==
  \/ Pass \/ Serve \/ Override
  \/ \E k \in Keys : Pay(k) \/ Receive(k) \/ Tell(k)

Spec == Init /\ [][Next]_ledgerVars
=============================================================================
