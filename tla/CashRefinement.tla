---------------------------- MODULE CashRefinement ----------------------------
(***************************************************************************)
(* Proofs that CashOutbox implements CashLedger: whatever happens to       *)
(* queues, flushes, calls and approvals, the books and the drawer change   *)
(* only by an order that was given and approved, once, within the bill.    *)
(***************************************************************************)
EXTENDS CashOutboxProofs

-----------------------------------------------------------------------------
(* What is under way is approved *)

UnderWay(c) ==
  \/ c \in posts
  \/ InRows(c, outbox)
  \/ \E t \in Tabs : InRows(c, flight[t].rows)

\* A refund is queued, and a call is posted, only with its approval.
Agreed == \A p \in Privileged : UnderWay(p) => grant[p] # "none"

LEMMA RowUnderWay ==
  ASSUME TypeOK, NEW t \in Tabs, flight[t].phase # "idle"
  PROVE  Row(t) \in Commands /\ UnderWay(Row(t))
<1>1. flight[t].rows \in Seq(Commands) /\ flight[t].rows # <<>>
  BY DEF TypeOK
<1>2. Row(t) \in Commands /\ InRows(Row(t), flight[t].rows)
  BY <1>1, TailRight DEF Row
<1> QED  BY <1>2 DEF UnderWay

\* A served command spends the approval it has.
LEMMA ServedGrants ==
  ASSUME TypeOK, NEW c \in Commands \cup Calls, Served(c)
  PROVE  \A p \in Privileged : (grant'[p] = "none") <=> (grant[p] = "none")
BY DEF Served, Admits, Approved, Apply, Consume, TypeOK

\* Only an approval gives a grant; no step takes one back to "none".
LEMMA GrantsLast ==
  ASSUME IInv, [Next]_vars
  PROVE  \A p \in Privileged :
           \/ (grant'[p] = "none") <=> (grant[p] = "none")
           \/ Approve(p)
<1>1. grant \in [Privileged -> {"none", "fresh", "used", "dead"}] /\ TypeOK
  BY DEF IInv, TypeOK
<1>2. CASE grant' = grant
  BY <1>2
<1>3. CASE \E c \in Commands \cup Calls : Served(c)
  BY <1>1, <1>3, ServedGrants
<1>4. CASE Cashier
  BY <1>1, <1>4 DEF Cashier, AddCashIn, AskRefund, AskCall, Approve, Decline, RecordRefund,
                    server
<1>5. ASSUME NEW t \in Tabs, Flush(t), ~ServeRow(t) PROVE grant' = grant
  BY <1>5 DEF Flush, StartFlush, RefuseRow, Confirm, Halt, Lose, server
<1>6. ASSUME NEW c \in Commands \cup Calls, ServePost(c), ~(open /\ Admits(c))
      PROVE  grant' = grant
  BY <1>6 DEF ServePost, server
<1>7. CASE World
  BY <1>1, <1>7 DEF World, ExpireGrant, RotatePin, UploadSale, CloseOutlet, OpenOutlet, server
<1>8. CASE UNCHANGED vars
  BY <1>8 DEF vars
<1> QED  BY <1>2, <1>3, <1>4, <1>5, <1>6, <1>7, <1>8, ServeRowServes, ServePostServes DEF Next

\* What comes under way was queued before, or has just been approved; a cash-in
\* that is added needs no approval.
LEMMA UnderWayGrows ==
  ASSUME IInv, [Next]_vars, NEW p \in Privileged, UnderWay(p)'
  PROVE  UnderWay(p) \/ Approve(p)
<1>1. /\ TypeOK /\ outbox \in Seq(Commands) /\ p \notin CashIns
      /\ flight \in [Tabs -> [phase : Phase, rows : Seq(Commands)]]
  BY CashAssumption DEF IInv, TypeOK, Privileged, Commands
<1>2. CASE UNCHANGED <<outbox, flight>> /\ posts' \subseteq posts
  BY <1>2 DEF UnderWay
<1>3. ASSUME NEW c \in CashIns, AddCashIn(c) PROVE UnderWay(p)
  <2>1. outbox' = Append(outbox, c) /\ UNCHANGED <<flight, posts>> /\ c \in Commands
    BY <1>3 DEF AddCashIn, sync, Commands
  <2>2. InRows(p, outbox') => InRows(p, outbox)
    BY <1>1, <2>1, AppendRight
  <2> QED  BY <2>1, <2>2 DEF UnderWay
<1>4. ASSUME NEW q \in Privileged, Approve(q), q # p PROVE UnderWay(p)
  <2>1. UNCHANGED flight
    BY <1>4 DEF Approve, sync
  <2>2. CASE q \in Refunds
    <3>1. outbox' = Append(outbox, q) /\ posts' = posts /\ q \in Commands
      BY <1>4, <2>2 DEF Approve, Commands
    <3>2. InRows(p, outbox') => InRows(p, outbox)
      BY <1>1, <1>4, <3>1, AppendRight
    <3> QED  BY <2>1, <3>1, <3>2 DEF UnderWay
  <2>3. CASE q \notin Refunds
    BY <1>4, <2>1, <2>3 DEF Approve, UnderWay
  <2> QED  BY <2>2, <2>3
<1>5. CASE Cashier
  BY <1>2, <1>3, <1>4, <1>5 DEF Cashier, AskRefund, AskCall, Decline, RecordRefund, sync
<1>6. ASSUME NEW t \in Tabs, Flush(t) PROVE UnderWay(p)
  <2>1. ASSUME NEW f \in [phase : Phase, rows : Seq(Commands)],
               flight' = [flight EXCEPT ![t] = f],
               \A c : InRows(c, f.rows) => InRows(c, outbox) \/ InRows(c, flight[t].rows),
               InRows(p, outbox') => InRows(p, outbox),
               p \in posts' => p \in posts \/ UnderWay(p)
        PROVE  UnderWay(p)
    <3>1. flight'[t] = f /\ \A u \in Tabs : u # t => flight'[u] = flight[u]
      BY <1>1, <2>1
    <3> QED  BY <2>1, <3>1 DEF UnderWay
  <2>2. flight[t] \in [phase : Phase, rows : Seq(Commands)]
    BY <1>1
  <2>3. ASSUME NEW force, StartFlush(t, force) PROVE UnderWay(p)
    <3> DEFINE f == [phase |-> "sent", rows |-> outbox]
    <3>1. flight' = [flight EXCEPT ![t] = f] /\ UNCHANGED <<outbox, posts>>
      BY <2>3 DEF StartFlush, device
    <3>2. f \in [phase : Phase, rows : Seq(Commands)] /\ f.rows = outbox
      BY <1>1 DEF Phase
    <3> HIDE DEF f
    <3> QED  BY <2>1, <3>1, <3>2
  <2>4. ASSUME NEW phase \in Phase, flight' = [flight EXCEPT ![t].phase = phase],
               UNCHANGED <<outbox, posts>>
        PROVE  UnderWay(p)
    <3>1. \A u \in Tabs : flight'[u].rows = flight[u].rows
      BY <1>1, <2>4
    <3> QED  BY <2>4, <3>1 DEF UnderWay
  <2>5. CASE ServeRow(t)
    BY <2>4, <2>5 DEF ServeRow, device, Phase
  <2>6. CASE RefuseRow(t)
    <3>1. (IF open THEN "refused" ELSE "parked") \in Phase
      BY DEF Phase
    <3> QED  BY <2>4, <2>6, <3>1 DEF RefuseRow, device
  <2>7. /\ Idle \in [phase : Phase, rows : Seq(Commands)]
        /\ \A c : ~InRows(c, Idle.rows)
    BY DEF Idle, Phase, InRows
  <2>8. CASE Confirm(t)
    <3> DEFINE rows == flight[t].rows
               f == IF Len(rows) = 1 THEN Idle ELSE [phase |-> "sent", rows |-> Tail(rows)]
    <3>1. /\ flight' = [flight EXCEPT ![t] = f]
          /\ outbox' = Without(outbox, Row(t)) /\ posts' = posts
      BY <1>1, <2>8 DEF Confirm
    <3>2. rows \in Seq(Commands) /\ rows # <<>>
      BY <1>1, <2>8 DEF Confirm, TypeOK
    <3>3. Tail(rows) \in Seq(Commands) /\ \A c : InRows(c, Tail(rows)) => InRows(c, rows)
      BY <3>2, TailRight
    <3>4. /\ f \in [phase : Phase, rows : Seq(Commands)]
          /\ \A c : InRows(c, f.rows) => InRows(c, flight[t].rows)
      <4>1. CASE Len(rows) = 1
        BY <2>7, <4>1
      <4>2. CASE Len(rows) # 1
        BY <3>3, <4>2 DEF Phase
      <4> QED  BY <4>1, <4>2
    <3>5. InRows(p, outbox') => InRows(p, outbox)
      BY <1>1, <3>1, WithoutRight
    <3> HIDE DEF f, rows
    <3> QED  BY <2>1, <3>1, <3>4, <3>5
  <2>9. CASE Halt(t) \/ Lose(t)
    <3>1. /\ flight' = [flight EXCEPT ![t] = Idle] /\ UNCHANGED outbox
          /\ flight[t].phase # "idle"
          /\ p \in posts' => p \in posts \/ p = Row(t)
      BY <2>9 DEF Halt, Lose, device
    <3> HIDE DEF Idle
    <3> QED  BY <1>1, <2>1, <2>7, <3>1, RowUnderWay
  <2> QED  BY <1>6, <2>3, <2>5, <2>6, <2>8, <2>9 DEF Flush
<1>7. ASSUME NEW c \in Commands \cup Calls, ServePost(c) PROVE UnderWay(p)
  <2>1. posts' = posts \ {c} /\ outbox' = outbox /\ flight' = flight
    BY <1>7 DEF ServePost, sync
  <2>2. /\ InRows(p, outbox)' <=> InRows(p, outbox)
        /\ \A t \in Tabs : InRows(p, flight[t].rows)' <=> InRows(p, flight[t].rows)
    BY <2>1
  <2> QED  BY <2>1, <2>2 DEF UnderWay
<1>8. CASE World
  BY <1>2, <1>8 DEF World, ExpireGrant, RotatePin, UploadSale, CloseOutlet, OpenOutlet,
                    device, sync
<1>9. CASE UNCHANGED vars
  BY <1>2, <1>9 DEF vars
<1> QED  BY <1>5, <1>6, <1>7, <1>8, <1>9 DEF Next

LEMMA AgreedKept ==
  ASSUME IInv, Agreed, [Next]_vars
  PROVE  Agreed'
<1> SUFFICES ASSUME NEW p \in Privileged, UnderWay(p)' PROVE grant'[p] # "none"
  BY DEF Agreed
<1>1. CASE Approve(p)
  BY <1>1 DEF Approve, IInv, TypeOK
<1>2. CASE ~Approve(p)
  BY <1>2, UnderWayGrows, GrantsLast DEF Agreed
<1> QED  BY <1>1, <1>2

LEMMA AgreedInitially == Init => Agreed
BY DEF Init, Agreed, UnderWay, InRows, Idle

-----------------------------------------------------------------------------
(* What was paid back *)

\* No refund was worth less than nothing.
PaidBack == \A s \in Sales : refunded[s].amount >= 0

LEMMA ServedPays ==
  ASSUME TypeOK, PaidBack, NEW c \in Commands \cup Calls, Served(c)
  PROVE  PaidBack'
<1>1. CASE Booked(c)
  BY <1>1 DEF Served, Apply, booked, PaidBack
<1>2. CASE ~Booked(c)
  <2> DEFINE q == request[c]
  <2>1. Book(c) /\ Admits(c) /\ q \in Request
    BY <1>2 DEF Served, Apply, TypeOK
  <2>2. ASSUME NEW s \in Sales PROVE refunded'[s].amount >= 0
    <3>1. refunded'[s] = IF q.event = "REFUND" /\ q.of = s
                         THEN Plus(refunded[s], RefundParts(s, q.units)) ELSE refunded[s]
      BY <2>1 DEF Book
    <3>2. refunded[s].amount >= 0 /\ refunded[s].amount \in Int /\ q.units \in Nat
      BY <2>1, CashAssumption DEF PaidBack, TypeOK, Parts, Request
    <3>3. RefundParts(s, q.units).amount \in Int
      BY <3>2, PartsRight DEF Parts
    <3>4. q.event = "REFUND" /\ q.of = s => RefundParts(s, q.units).amount > 0
      BY <1>2, <2>1 DEF Admits, Refundable
    <3>5. CASE q.event = "REFUND" /\ q.of = s
      <4>1. refunded'[s].amount = refunded[s].amount + RefundParts(s, q.units).amount
        BY <3>1, <3>5 DEF Plus
      <4> QED  BY <3>2, <3>3, <3>4, <3>5, <4>1
    <3> QED  BY <3>1, <3>2, <3>5
  <2> QED  BY <2>2 DEF PaidBack
<1> QED  BY <1>1, <1>2

LEMMA PaidBackKept ==
  ASSUME IInv, PaidBack, [Next]_vars
  PROVE  PaidBack'
<1>1. CASE refunded' = refunded
  BY <1>1 DEF PaidBack
<1>2. CASE \E c \in Commands \cup Calls : Served(c)
  BY <1>2, ServedPays DEF IInv
<1>3. CASE Cashier
  BY <1>1, <1>3, CashierInv DEF Quiet, booked
<1>4. ASSUME NEW t \in Tabs, Flush(t), ~ServeRow(t) PROVE refunded' = refunded
  BY <1>4 DEF Flush, StartFlush, RefuseRow, Confirm, Halt, Lose, server, booked
<1>5. ASSUME NEW c \in Commands \cup Calls, ServePost(c), ~(open /\ Admits(c))
      PROVE  refunded' = refunded
  BY <1>5 DEF ServePost, server, booked
<1>6. CASE World
  BY <1>1, <1>6 DEF World, ExpireGrant, RotatePin, UploadSale, CloseOutlet, OpenOutlet,
                    server, booked
<1>7. CASE UNCHANGED vars
  BY <1>1, <1>7 DEF vars
<1> QED  BY <1>1, <1>2, <1>3, <1>4, <1>5, <1>6, <1>7, ServeRowServes, ServePostServes
         DEF Next

\* What the refinement needs besides the inductive invariant of CashOutboxProofs.
CashInv == Agreed /\ PaidBack

LEMMA CashInvInitially == Init => CashInv
BY AgreedInitially DEF Init, CashInv, PaidBack, Nothing

-----------------------------------------------------------------------------
(* What CashLedger sees *)

Ordered == [c \in Commands \cup Calls |-> IF Accepted(c) THEN request[c] ELSE Unasked]
Effects == {<<books[i].event, IF books[i].event = "REFUND"
                              THEN books[i].by ELSE books[i].of>> : i \in DOMAIN books}
Repaid == [s \in Sales |-> refunded[s].amount]
Shown == acks \cup recorded

EffectOf(c) ==
  <<request[c].event, IF request[c].event = "REFUND" THEN c ELSE request[c].of>>

CashStep == [Cash!Next]_(Cash!ledgerVars)

\* A command is booked when its effect is in the books.
LEMMA EffectBooked ==
  ASSUME NEW c
  PROVE  Booked(c) <=> EffectOf(c) \in Effects
<1>1. ASSUME NEW i \in DOMAIN books
      PROVE  Same(request[c].event, c, request[c].of, books[i])
               <=> EffectOf(c) = <<books[i].event, IF books[i].event = "REFUND"
                                                   THEN books[i].by ELSE books[i].of>>
  BY DEF Same, EffectOf
<1> QED  BY <1>1 DEF Booked, Effects

\* So is a void of a sale, or a movement, by what it is about.
LEMMA EntryBooked ==
  ASSUME NEW event, event # "REFUND", NEW of
  PROVE  <<event, of>> \in Effects <=> Entries({event}, of) # {}
BY DEF Effects, Entries

\* What was accepted was asked for, and is the order of its id.
LEMMA OrderedRight ==
  ASSUME IInv, NEW c \in Commands \cup Calls, Accepted(c)
  PROVE  /\ request[c] # Unasked /\ request[c] \in Request
         /\ Ordered[c] = request[c]
BY DEF IInv, DeviceInv, GrantsAsked, TypeOK, Accepted, Ordered

\* No order changes while nothing is approved and no cash-in added.
LEMMA OrderedKept ==
  ASSUME IInv, [Next]_vars,
         \A p \in Privileged : (grant'[p] = "none") <=> (grant[p] = "none"),
         \A c \in CashIns : request'[c] = Unasked <=> request[c] = Unasked
  PROVE  Ordered' = Ordered
<1>1. ASSUME NEW c \in Commands \cup Calls
      PROVE  (IF Accepted(c)' THEN request'[c] ELSE Unasked)
               = IF Accepted(c) THEN request[c] ELSE Unasked
  <2>1. Accepted(c)' <=> Accepted(c)
    BY DEF Accepted, Privileged, Commands
  <2>2. Accepted(c) => request'[c] = request[c]
    BY OrderedRight, RequestsRight DEF RequestsKept
  <2> QED  BY <2>1, <2>2
<1> QED  BY <1>1 DEF Ordered

-----------------------------------------------------------------------------
(* Steps that book nothing *)

\* The device may learn of one command that is booked; nothing else is seen.
LEMMA Unseen ==
  ASSUME IInv, Ordered' = Ordered, UNCHANGED <<booked, uploaded>>,
         \/ Shown' = Shown
         \/ \E c \in Commands \cup Calls :
              Accepted(c) /\ Booked(c) /\ Shown' = Shown \cup {c}
  PROVE  CashStep
<1>1. UNCHANGED <<books, returned, refunded, drawer, uploaded>>
  BY DEF booked
<1>2. Effects' = Effects /\ Repaid' = Repaid
  BY <1>1 DEF Effects, Repaid
<1>3. CASE Shown' = Shown
  BY <1>1, <1>2, <1>3 DEF CashStep, Cash!ledgerVars, Ordered, Effects, Repaid, Shown
<1>4. ASSUME NEW c \in Commands \cup Calls,
             Accepted(c), Booked(c), Shown' = Shown \cup {c}
      PROVE  CashStep
  <2>1. Ordered[c] = request[c] /\ request[c] # Unasked /\ EffectOf(c) \in Effects
    BY <1>4, OrderedRight, EffectBooked
  <2>2. Cash!Show(c)
    BY <1>1, <1>2, <1>4, <2>1
       DEF Cash!Show, Cash!Effect, Ordered, Effects, Repaid, Shown, EffectOf
  <2> QED  BY <2>2 DEF CashStep, Cash!Next
<1> QED  BY <1>3, <1>4

\* A cash-in is ordered when it is added, another command when it is approved.
LEMMA Orders ==
  ASSUME IInv, [Next]_vars, NEW c \in Commands \cup Calls, ~Accepted(c), Accepted(c)',
         request'[c] \in Request,
         \A d \in (Commands \cup Calls) \ {c} :
           (Accepted(d)' <=> Accepted(d)) /\ request'[d] = request[d],
         UNCHANGED <<booked, uploaded, acks, recorded>>
  PROVE  CashStep
<1>1. UNCHANGED <<books, returned, refunded, drawer, uploaded, acks, recorded>>
  BY DEF booked
<1>2. Effects' = Effects /\ Repaid' = Repaid /\ Shown' = Shown
  BY <1>1 DEF Effects, Repaid, Shown
<1>3. Ordered[c] = Unasked /\ Ordered'[c] = request'[c]
  BY DEF Ordered
<1>4. Ordered' = [Ordered EXCEPT ![c] = Ordered'[c]]
  BY DEF Ordered
<1>5. Cash!Accept(c)
  BY <1>1, <1>2, <1>3, <1>4 DEF Cash!Accept, Ordered, Effects, Repaid, Shown
<1> QED  BY <1>5 DEF CashStep, Cash!Next

LEMMA CashierOrders == ASSUME IInv, Cashier PROVE CashStep
<1>1. TypeOK /\ [Next]_vars
  BY DEF IInv, Next
<1>2. ASSUME NEW c \in CashIns, AddCashIn(c) PROVE CashStep
  <2>1. /\ c \in Commands \cup Calls /\ c \notin Privileged
        /\ "CASH_IN" \in Event /\ "CASH" \in Method /\ 0 \in 0 .. Units
    BY CashAssumption DEF Commands, Privileged, Event, Method
  <2>2. /\ Ask(c, "CASH_IN", c, 0, "CASH")
        /\ UNCHANGED <<recorded, acks, grant, booked, uploaded>>
    BY <1>2 DEF AddCashIn, sync, server, world
  <2>3. /\ request' \in [Commands \cup Calls -> Request \cup {Unasked}]
        /\ request[c] = Unasked /\ request'[c] # Unasked
        /\ \A d \in (Commands \cup Calls) \ {c} : request'[d] = request[d]
    BY <1>1, <2>1, <2>2, AskRight DEF Ask
  <2>4. /\ ~Accepted(c) /\ Accepted(c)'
        /\ \A d \in (Commands \cup Calls) \ {c} : Accepted(d)' <=> Accepted(d)
    BY <2>1, <2>2, <2>3 DEF Accepted
  <2> QED  BY <1>1, <2>1, <2>2, <2>3, <2>4, Orders
<1>3. ASSUME NEW p \in Privileged, Approve(p) PROVE CashStep
  <2>1. /\ p \in Commands \cup Calls
        /\ p \in asking /\ grant' = [grant EXCEPT ![p] = "fresh"]
        /\ UNCHANGED <<request, recorded, acks, booked, uploaded>>
    BY <1>3 DEF Approve, Privileged, Commands, sync, world
  <2>2. grant[p] = "none" /\ grant'[p] = "fresh"
    BY <1>1, <2>1 DEF IInv, DeviceInv, GrantsAsked, TypeOK
  <2>3. /\ ~Accepted(p) /\ Accepted(p)'
        /\ \A d \in (Commands \cup Calls) \ {p} : Accepted(d)' <=> Accepted(d)
    BY <1>1, <2>1, <2>2 DEF Accepted, TypeOK
  <2>4. request'[p] \in Request
    <3>1. request[p] # Unasked
      BY <1>1, <2>1, <2>2 DEF IInv, DeviceInv, Known
    <3> QED  BY <1>1, <2>1, <3>1 DEF TypeOK
  <2> QED  BY <1>1, <2>1, <2>3, <2>4, Orders
<1>4. ASSUME NEW c \in Privileged, NEW event, NEW of, NEW units, NEW method,
             Ask(c, event, of, units, method),
             UNCHANGED <<recorded, acks, grant, booked, uploaded>>
      PROVE  CashStep
  <2>1. \A d \in CashIns : request'[d] = request[d]
    BY <1>1, <1>4, CashAssumption DEF Ask, TypeOK, Privileged, Commands
  <2>2. Ordered' = Ordered
    BY <1>1, <1>4, <2>1, OrderedKept
  <2> QED  BY <1>4, <2>2, Unseen DEF Shown
<1>5. ASSUME NEW r \in Refunds, NEW s \in Sales, NEW n \in 1 .. Units, NEW m \in Method,
             AskRefund(r, s, n, m)
      PROVE  CashStep
  <2>1. /\ r \in Privileged /\ Ask(r, "REFUND", s, n, m)
        /\ UNCHANGED <<recorded, acks, grant, booked, uploaded>>
    BY <1>5 DEF AskRefund, Privileged, sync, server, world
  <2> QED  BY <1>4, <2>1
<1>6. ASSUME NEW d \in Calls, NEW e, NEW of, AskCall(d, e, of) PROVE CashStep
  <2>1. /\ d \in Privileged /\ Ask(d, e, of, 0, "CASH")
        /\ UNCHANGED <<recorded, acks, grant, booked, uploaded>>
    BY <1>6 DEF AskCall, Privileged, sync, server, world
  <2> QED  BY <1>4, <2>1
<1>7. ASSUME NEW p \in Privileged, Decline(p) PROVE CashStep
  <2>1. UNCHANGED <<request, recorded, acks, grant, booked, uploaded>>
    BY <1>7 DEF Decline, sync, server, world
  <2> QED  BY <1>1, <2>1, OrderedKept, Unseen DEF Shown
<1>8. ASSUME NEW r \in Refunds, RecordRefund(r) PROVE CashStep
  <2>1. /\ UNCHANGED <<request, acks, grant, booked, uploaded>>
        /\ r \in acks /\ recorded' = recorded \cup {r}
    BY <1>8 DEF RecordRefund, sync, server, world
  <2>2. Shown' = Shown
    BY <2>1 DEF Shown
  <2> QED  BY <1>1, <2>1, <2>2, OrderedKept, Unseen
<1> QED  BY <1>2, <1>3, <1>5, <1>6, <1>7, <1>8 DEF Cashier

\* Of a flush the books see only what it serves; the screen, what is booked.
LEMMA FlushUnseen ==
  ASSUME IInv, Agreed, NEW t \in Tabs, Flush(t), ~ServeRow(t)
  PROVE  CashStep
<1>1. /\ TypeOK /\ AnswersTrue /\ [Next]_vars
      /\ UNCHANGED <<request, recorded, grant, booked, uploaded>>
  BY DEF IInv, DeviceInv, Next, Flush, StartFlush, RefuseRow, Confirm, Halt, Lose, device,
         server, world
<1>2. Ordered' = Ordered
  BY <1>1, OrderedKept
<1>3. CASE acks' = acks
  BY <1>1, <1>2, <1>3, Unseen DEF Shown
<1>4. CASE acks' # acks
  <2>1. flight[t].phase = "ok" /\ acks' = acks \cup ({Row(t)} \cap Refunds)
    BY <1>4 DEF Flush, StartFlush, RefuseRow, Confirm, Halt, Lose, device
  <2>2. Row(t) \in Commands /\ UnderWay(Row(t)) /\ Row(t) \in Refunds
    BY <1>1, <1>4, <2>1, RowUnderWay
  <2>3. Booked(Row(t))
    BY <1>1, <2>1, <2>2 DEF AnswersTrue
  <2>4. Accepted(Row(t))
    BY <2>2 DEF Agreed, Accepted, Privileged
  <2>5. Shown' = Shown \cup {Row(t)}
    BY <1>1, <2>1, <2>2 DEF Shown
  <2> QED  BY <1>1, <1>2, <2>2, <2>3, <2>4, <2>5, Unseen
<1> QED  BY <1>3, <1>4

\* A sale comes with its cash; the rest of the world is not seen.
LEMMA WorldArrives == ASSUME IInv, World PROVE CashStep
<1>1. /\ TypeOK /\ [Next]_vars /\ UNCHANGED <<request, recorded, acks>>
      /\ \A p \in Privileged : (grant'[p] = "none") <=> (grant[p] = "none")
  <2>1. TypeOK /\ [Next]_vars
    BY DEF IInv, Next
  <2>2. UNCHANGED <<request, recorded, acks>>
    BY DEF World, ExpireGrant, RotatePin, UploadSale, CloseOutlet, OpenOutlet, device, sync
  <2>3. \A p \in Privileged : ~Approve(p)
    BY <2>1 DEF World, ExpireGrant, RotatePin, UploadSale, CloseOutlet, OpenOutlet,
                device, server, Approve, TypeOK
  <2> QED  BY <2>1, <2>2, <2>3, GrantsLast
<1>2. Ordered' = Ordered
  BY <1>1, OrderedKept
<1>3. CASE UNCHANGED <<booked, uploaded>>
  BY <1>1, <1>2, <1>3, Unseen DEF Shown
<1>4. ASSUME NEW s \in Sales, UploadSale(s) PROVE CashStep
  <2>1. /\ s \notin uploaded /\ uploaded' = uploaded \cup {s}
        /\ drawer' = [drawer EXCEPT ![s] = @ + CashPaid[s]]
        /\ UNCHANGED <<books, returned, refunded>>
    BY <1>4 DEF UploadSale
  <2>2. Effects' = Effects /\ Repaid' = Repaid /\ Shown' = Shown
    BY <1>1, <2>1 DEF Effects, Repaid, Shown
  <2>3. Cash!Arrive(s)
    BY <1>2, <2>1, <2>2 DEF Cash!Arrive, Ordered, Effects, Repaid, Shown
  <2> QED  BY <2>3 DEF CashStep, Cash!Next
<1> QED  BY <1>3, <1>4 DEF World, ExpireGrant, RotatePin, CloseOutlet, OpenOutlet, server,
                           world

-----------------------------------------------------------------------------
(* Steps that book *)

\* A share in proportion of an amount is at most the amount, however rounded.
LEMMA ShareWithin ==
  ASSUME NEW amount \in Nat, NEW whole \in Nat \ {0}, NEW part \in 0 .. whole
  PROVE  Rounded(amount * part, whole) \in 0 .. amount
<1> DEFINE x == 2 * (amount * part) + whole
           n == 2 * whole
           z == x \div n
<1>1. amount * part \in Nat /\ amount * whole \in Nat /\ amount * part <= amount * whole
  OBVIOUS
<1>2. /\ x \in Nat /\ n \in Nat \ {0} /\ x <= 2 * (amount * whole) + whole
  BY <1>1
<1>3. n * (amount + 1) = 2 * (amount * whole) + 2 * whole
  OBVIOUS
<1>4. x < n * (amount + 1)
  BY <1>1, <1>2, <1>3
<1> HIDE DEF x, n
<1>5. z \in Nat /\ n * z <= x
  BY <1>2
<1> HIDE DEF z
<1>6. ASSUME z >= amount + 1 PROVE FALSE
  <2>1. n * (amount + 1) <= n * z
    BY <1>2, <1>5, <1>6
  <2>2. n * (amount + 1) \in Int /\ n * z \in Int
    BY <1>2, <1>5
  <2> QED  BY <1>2, <1>4, <1>5, <2>1, <2>2
<1> QED  BY <1>5, <1>6 DEF Rounded, x, n, z

\* The cash of an original-method refund: no more than it pays back, and only of
\* what the sale has left in the drawer.
LEMMA OriginalCashRight ==
  ASSUME NEW s \in Sales, drawer[s] \in Int, NEW amount \in 1 .. Total
  PROVE  /\ OriginalCash(s, amount) \in 0 .. amount
         /\ OriginalCash(s, amount) = 0 \/ OriginalCash(s, amount) <= drawer[s]
<1>1. /\ Total \in Nat \ {0} /\ CashPaid[s] \in 0 .. Total /\ amount \in Nat
  BY BillRight, CashAssumption
<1>2. TenderShare(s, amount) \in 0 .. amount
  BY <1>1, ShareWithin DEF TenderShare
<1> QED  BY <1>1, <1>2 DEF OriginalCash, Lesser

\* What a booking adds to the books.
LEMMA EffectsGrow ==
  ASSUME TypeOK, NEW c \in Commands \cup Calls, request[c] \in Request, Book(c)
  PROVE  Effects' = Effects \cup {EffectOf(c)}
<1> DEFINE e == [event |-> request[c].event, by |-> c, of |-> request[c].of]
           Eff(x) == <<x.event, IF x.event = "REFUND" THEN x.by ELSE x.of>>
<1>1. e \in Entry /\ books' = Append(books, e)
  BY DEF Book, Request, Entry
<1>2. /\ DOMAIN books' = DOMAIN books \cup {Len(books) + 1}
      /\ \A i \in DOMAIN books : books'[i] = books[i]
      /\ books'[Len(books) + 1] = e
  BY <1>1, EntryCases
<1>3. Eff(e) = EffectOf(c)
  BY DEF EffectOf
<1>4. /\ Effects = {Eff(books[i]) : i \in DOMAIN books}
      /\ Effects' = {Eff(books'[i]) : i \in DOMAIN books'}
  BY DEF Effects
<1> HIDE DEF e, Eff
<1> QED  BY <1>2, <1>3, <1>4

\* The refund of an order not booked before: within what is left of the bill, all
\* of it with the last unit, and from the drawer what its method allows.
LEMMA RefundPays ==
  ASSUME IInv, PaidBack, NEW c \in Commands \cup Calls, Served(c), Accepted(c), ~Booked(c),
         request[c].event = "REFUND", Ordered' = Ordered,
         Shown' \in {Shown, Shown \cup {c}}
  PROVE  Cash!Refund(c)
<1> DEFINE q == request[c]
           s == q.of
           amount == RefundParts(s, q.units).amount
           cash == CashOut(c, s)
<1>1. /\ TypeOK /\ BooksInv /\ Known /\ Book(c) /\ Admits(c)
      /\ q \in Request /\ Ordered[c] = q /\ q # Unasked /\ uploaded' = uploaded
  BY OrderedRight DEF IInv, DeviceInv, Served, Apply
<1>2. s \in uploaded /\ s \in Sales /\ ~Voided(s) /\ Refundable(c)
  <2>1. s \in uploaded /\ Refundable(c)
    BY <1>1 DEF Admits
  <2> QED  BY <1>1, <2>1 DEF TypeOK, Refundable
<1>3. <<"VOID", s>> \notin Effects
  BY <1>2, EntryBooked DEF Voided
<1>4. EffectOf(c) \notin Effects /\ Effects' = Effects \cup {EffectOf(c)}
  BY <1>1, EffectBooked, EffectsGrow
<1>5. Cash!Execute(c)
  BY <1>1, <1>4 DEF Cash!Execute, Cash!Effect, Ordered, Effects, Shown, EffectOf
<1>6. /\ returned[s] \in Nat /\ q.units \in Nat /\ drawer[s] \in Int /\ q.method \in Method
      /\ refunded[s].amount \in Nat
  BY <1>1, <1>2, CashAssumption DEF TypeOK, Request, Parts, PaidBack
<1>7. amount \in 1 .. Total - refunded[s].amount /\ Total \in Nat
  <2>1. amount \in Int
    BY <1>1, <1>2, <1>6, PartsRight DEF Parts
  <2>2. 0 < amount /\ amount <= Left(s, "amount")
    BY <1>2 DEF Refundable
  <2> QED  BY <1>6, <2>1, <2>2, BillRight DEF Left
<1>8. returned' = [returned EXCEPT ![s] = @ + q.units]
  <2>1. returned' = [u \in Sales |-> returned[u] + IF s = u THEN q.units ELSE 0]
    BY <1>1 DEF Book
  <2>2. \A u \in Sales : returned[u] + 0 = returned[u]
    BY <1>1 DEF TypeOK
  <2> QED  BY <1>1, <2>1, <2>2 DEF TypeOK
<1>9. Repaid' = [Repaid EXCEPT ![s] = @ + amount]
  <2>1. \A u \in Sales : refunded'[u].amount =
          IF u = s THEN refunded[u].amount + amount ELSE refunded[u].amount
    BY <1>1 DEF Book, Plus
  <2> QED  BY <1>2, <2>1 DEF Repaid
<1>10. BooksInv'
  BY <1>1, BookRight
<1>11. returned'[s] <= Units /\ (returned'[s] = Units => Repaid'[s] = Total)
  BY <1>2, <1>10, BillRight DEF BooksInv, RefundsWithinSale, RefundsAddUp, Repaid
<1>12. /\ cash \in 0 .. Total
       /\ IF q.method = "CASH" THEN cash = amount
          ELSE cash <= amount /\ (cash = 0 \/ cash <= drawer[s])
  <2>1. cash = IF q.method = "CASH" THEN amount ELSE OriginalCash(s, amount)
    BY DEF CashOut
  <2>2. amount \in 1 .. Total
    BY <1>6, <1>7
  <2>3. /\ OriginalCash(s, amount) \in 0 .. amount
        /\ OriginalCash(s, amount) = 0 \/ OriginalCash(s, amount) <= drawer[s]
    BY <1>2, <1>6, <2>2, OriginalCashRight
  <2> HIDE DEF cash, amount
  <2> QED  BY <1>7, <2>1, <2>2, <2>3
<1>13. drawer' = [drawer EXCEPT ![s] = @ - cash]
  <2>1. drawer' = [u \in Sales |-> drawer[u] - CashOut(c, u)]
    BY <1>1 DEF Book
  <2>2. \A u \in Sales : u # s => CashOut(c, u) = 0
    BY DEF CashOut
  <2>3. drawer \in [Sales -> Int] /\ \A u \in Sales : drawer[u] - 0 = drawer[u]
    BY <1>1 DEF TypeOK
  <2>4. \A u \in Sales :
          drawer[u] - CashOut(c, u) = IF u = s THEN drawer[s] - cash ELSE drawer[u]
    BY <2>2, <2>3
  <2> HIDE DEF cash
  <2> QED  BY <1>2, <2>1, <2>3, <2>4
<1>14. Repaid[s] = refunded[s].amount
  BY <1>2 DEF Repaid
<1> HIDE DEF amount, cash
<1> QED  BY <1>1, <1>2, <1>3, <1>5, <1>7, <1>8, <1>9, <1>11, <1>12, <1>13, <1>14
         DEF Cash!Refund, Ordered, Effects, Repaid, Shown

\* A void not booked before empties the drawer of its sale.
LEMMA VoidSettles ==
  ASSUME IInv, NEW c \in Commands \cup Calls, Served(c), Accepted(c), ~Booked(c),
         request[c].event = "VOID", Ordered' = Ordered,
         Shown' \in {Shown, Shown \cup {c}}
  PROVE  Cash!Void(c)
<1> DEFINE q == request[c]
           s == q.of
<1>1. /\ TypeOK /\ Book(c) /\ Admits(c)
      /\ q \in Request /\ Ordered[c] = q /\ q # Unasked /\ uploaded' = uploaded
  BY OrderedRight DEF IInv, Served, Apply
<1>2. s \in uploaded /\ s \in Sales
  <2>1. s \in uploaded
    BY <1>1 DEF Admits
  <2> QED  BY <1>1, <2>1 DEF TypeOK
<1>3. EffectOf(c) \notin Effects /\ Effects' = Effects \cup {EffectOf(c)}
  BY <1>1, EffectBooked, EffectsGrow
<1>4. Cash!Execute(c)
  BY <1>1, <1>3 DEF Cash!Execute, Cash!Effect, Ordered, Effects, Shown, EffectOf
<1>5. drawer' = [drawer EXCEPT ![s] = 0]
  <2>1. drawer' = [u \in Sales |-> drawer[u] - CashOut(c, u)]
    BY <1>1 DEF Book
  <2>2. CashOut(c, s) = drawer[s] /\ \A u \in Sales : u # s => CashOut(c, u) = 0
    BY DEF CashOut
  <2>3. /\ drawer \in [Sales -> Int]
        /\ \A u \in Sales : drawer[u] - 0 = drawer[u] /\ drawer[u] - drawer[u] = 0
    BY <1>1 DEF TypeOK
  <2>4. \A u \in Sales : drawer[u] - CashOut(c, u) = IF u = s THEN 0 ELSE drawer[u]
    BY <2>2, <2>3
  <2> QED  BY <1>2, <2>1, <2>3, <2>4
<1>6. returned' = returned /\ Repaid' = Repaid
  <2>1. /\ returned' = [u \in Sales |-> returned[u] + 0]
        /\ \A u \in Sales : refunded'[u] = refunded[u]
    BY <1>1 DEF Book
  <2>2. \A u \in Sales : returned[u] + 0 = returned[u]
    BY <1>1 DEF TypeOK
  <2> QED  BY <1>1, <2>1, <2>2 DEF TypeOK, Repaid
<1> QED  BY <1>1, <1>2, <1>4, <1>5, <1>6 DEF Cash!Void, Ordered, Effects, Repaid, Shown

\* A movement leaves the cash of the sales alone; a reversal undoes a movement
\* that is booked.
LEMMA MovementMoves ==
  ASSUME IInv, NEW c \in Commands \cup Calls, Served(c), Accepted(c), ~Booked(c),
         request[c].event \notin {"REFUND", "VOID"}, Ordered' = Ordered,
         Shown' \in {Shown, Shown \cup {c}}
  PROVE  Cash!Move(c)
<1> DEFINE q == request[c]
<1>1. /\ TypeOK /\ Book(c) /\ Admits(c)
      /\ q \in Request /\ Ordered[c] = q /\ q # Unasked /\ uploaded' = uploaded
  BY OrderedRight DEF IInv, Served, Apply
<1>2. EffectOf(c) \notin Effects /\ Effects' = Effects \cup {EffectOf(c)}
  BY <1>1, EffectBooked, EffectsGrow
<1>3. Cash!Execute(c)
  BY <1>1, <1>2 DEF Cash!Execute, Cash!Effect, Ordered, Effects, Shown, EffectOf
<1>4. UNCHANGED <<returned, Repaid, drawer>>
  <2>1. /\ returned' = [u \in Sales |-> returned[u] + 0]
        /\ \A u \in Sales : refunded'[u] = refunded[u]
    BY <1>1 DEF Book
  <2>2. drawer' = [u \in Sales |-> drawer[u] - CashOut(c, u)]
    BY <1>1 DEF Book
  <2>3. \A u \in Sales : CashOut(c, u) = 0
    BY DEF CashOut
  <2>4. /\ returned \in [Sales -> Nat] /\ drawer \in [Sales -> Int]
        /\ \A u \in Sales : returned[u] + 0 = returned[u] /\ drawer[u] - 0 = drawer[u]
    BY <1>1 DEF TypeOK
  <2> QED  BY <2>1, <2>2, <2>3, <2>4 DEF Repaid
<1>5. q.event \in {"CASH_IN", "CASH_OUT", "REVERSAL"}
  BY <1>1 DEF Request, Event
<1>6. q.event = "REVERSAL" =>
        \E event \in {"CASH_IN", "CASH_OUT"} : <<event, q.of>> \in Effects
  <2> SUFFICES ASSUME q.event = "REVERSAL"
               PROVE  \E event \in {"CASH_IN", "CASH_OUT"} : <<event, q.of>> \in Effects
    OBVIOUS
  <2>1. PICK i \in DOMAIN books : books[i].event \in {"CASH_IN", "CASH_OUT"} /\ books[i].of = q.of
    BY <1>1 DEF Admits, Entries
  <2>2. i \in Entries({books[i].event}, q.of)
    BY <2>1 DEF Entries
  <2> QED  BY <2>1, <2>2, EntryBooked
<1> QED  BY <1>1, <1>3, <1>4, <1>5, <1>6 DEF Cash!Move, Ordered, Effects, Repaid, Shown

\* The server does what was ordered, once; a retry only shows that it is done.
LEMMA ServedExecutes ==
  ASSUME IInv, PaidBack, [Next]_vars, NEW c \in Commands \cup Calls,
         Served(c), Accepted(c), Shown' \in {Shown, Shown \cup {c}}
  PROVE  CashStep
<1>1. Ordered' = Ordered
  <2>1. TypeOK /\ request' = request
    BY DEF IInv, Served
  <2> QED  BY <2>1, ServedGrants, OrderedKept
<1>2. CASE Booked(c)
  <2>1. UNCHANGED <<booked, uploaded>>
    BY <1>2 DEF Served, Apply
  <2> QED  BY <1>1, <1>2, <2>1, Unseen
<1>3. CASE ~Booked(c)
  <2>1. Cash!Refund(c) \/ Cash!Void(c) \/ Cash!Move(c)
    BY <1>1, <1>3, RefundPays, VoidSettles, MovementMoves
  <2> QED  BY <2>1 DEF CashStep, Cash!Next
<1> QED  BY <1>2, <1>3

LEMMA ServeRowExecutes ==
  ASSUME IInv, CashInv, NEW t \in Tabs, ServeRow(t)
  PROVE  CashStep
<1>1. TypeOK /\ [Next]_vars /\ flight[t].phase # "idle" /\ UNCHANGED <<acks, recorded>>
  BY DEF IInv, Next, Flush, ServeRow, Waiting, device
<1>2. Row(t) \in Commands /\ UnderWay(Row(t)) /\ Served(Row(t))
  BY <1>1, RowUnderWay, ServeRowServes
<1>3. Accepted(Row(t))
  BY <1>2 DEF CashInv, Agreed, Accepted, Served
<1> QED  BY <1>1, <1>2, <1>3, ServedExecutes DEF CashInv, Shown

LEMMA ServePostExecutes ==
  ASSUME IInv, CashInv, NEW c \in Commands \cup Calls, ServePost(c)
  PROVE  CashStep
<1>1. /\ TypeOK /\ [Next]_vars /\ c \in posts
      /\ UNCHANGED <<request, acks, uploaded>>
  BY DEF IInv, Next, ServePost, sync, world
<1>2. CASE open /\ Admits(c)
  <2>1. Served(c) /\ recorded' \in {recorded, recorded \cup ({c} \cap Calls)}
    BY <1>2, ServePostServes DEF ServePost
  <2>2. Accepted(c)
    BY <1>1, <2>1 DEF CashInv, Agreed, UnderWay, Accepted, Served
  <2>3. Shown' \in {Shown, Shown \cup {c}}
    BY <1>1, <2>1 DEF Shown
  <2> QED  BY <1>1, <2>1, <2>2, <2>3, ServedExecutes DEF CashInv
<1>3. CASE ~(open /\ Admits(c))
  <2>1. UNCHANGED <<recorded, grant, booked>>
    BY <1>3 DEF ServePost, server
  <2> QED  BY <1>1, <2>1, OrderedKept, Unseen DEF Shown
<1> QED  BY <1>2, <1>3

-----------------------------------------------------------------------------
(* Theorems *)

LEMMA CashSteps ==
  ASSUME IInv, CashInv, [Next]_vars
  PROVE  CashInv' /\ CashStep
<1>1. CashInv'
  BY AgreedKept, PaidBackKept DEF CashInv
<1>2. ASSUME NEW t \in Tabs, Flush(t) PROVE CashStep
  BY <1>2, ServeRowExecutes, FlushUnseen DEF CashInv
<1>3. ASSUME UNCHANGED vars PROVE CashStep
  <2>1. UNCHANGED <<booked, uploaded, acks, recorded, request, grant>>
    BY <1>3 DEF vars, booked
  <2> QED  BY <2>1, OrderedKept, Unseen DEF Shown
<1>4. Cashier \/ World => CashStep
  BY CashierOrders, WorldArrives
<1>5. ASSUME NEW c \in Commands \cup Calls, ServePost(c) PROVE CashStep
  BY <1>5, ServePostExecutes
<1> QED  BY <1>1, <1>2, <1>3, <1>4, <1>5 DEF Next

\* No refund is queued or sent, and no void, cash-out or reversal sent, that was not
\* approved; and no refund that is booked is worth less than nothing.
THEOREM UnderWayApproved == Spec => []CashInv
<1>1. IInv /\ CashInv /\ [Next]_vars => CashInv'
  BY CashSteps
<1> QED  BY CashInvInitially, Invariant, <1>1, PTL DEF Spec

\* Every behaviour of the cashier, the queue, its flushes, the approvals and the
\* finance routes is a behaviour of CashLedger: each order approved or added takes
\* effect once, refunds stay within the bill and reach it with the last unit, an
\* original-method refund takes no cash the sale has not left, a void settles the
\* drawer, and the screen shows only what is booked.
THEOREM CashPromiseHolds == Spec => CashPromise
<1>1. Init => Cash!Init
  BY DEF Init, Cash!Init, Accepted, Nothing
<1>2. IInv /\ CashInv /\ [Next]_vars => [Cash!Next]_(Cash!ledgerVars)
  BY CashSteps DEF CashStep
<1> QED  BY <1>1, <1>2, Invariant, UnderWayApproved, PTL DEF Spec, CashPromise, Cash!Spec
=============================================================================
