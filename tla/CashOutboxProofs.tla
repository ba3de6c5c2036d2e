-------------------------- MODULE CashOutboxProofs --------------------------
(***************************************************************************)
(* Proofs about CashOutbox: its safety properties hold for any sales,      *)
(* refunds, movements, calls and tabs, however often requests are lost,    *)
(* approvals expire and the PIN is rotated.                                *)
(***************************************************************************)
EXTENDS CashOutbox, SequenceTheorems, TLAPS

InRows(c, rows) == \E i \in DOMAIN rows : rows[i] = c

\* Whatever is under way was asked for, and a queued movement is a cash-in.
Known ==
  /\ \A c \in Commands \cup Calls :
       \/ c \in asking \cup posts
       \/ InRows(c, outbox)
       \/ \E t \in Tabs : InRows(c, flight[t].rows)
       => request[c] # Unasked
  /\ \A c \in CashIns : request[c] # Unasked => request[c].event = "CASH_IN"

\* An ok answer a tab holds is true.
AnswersTrue ==
  \A t \in Tabs, c \in Commands :
    flight[t].phase = "ok" /\ Row(t) = c => Booked(c)

\* Only a sale the server has can be void.
VoidsKnown == \A s \in Sales : Voided(s) => s \in uploaded

BooksInv ==
  BookedOnce /\ AuditMatchesBooks /\ RefundsWithinSale /\ RefundsAddUp
    /\ VoidSettlesDrawer /\ VoidsKnown

\* No approval is given before it is asked for, nor twice.
GrantsAsked ==
  \A p \in Privileged :
    request[p] = Unasked \/ p \in asking => grant[p] = "none"

DeviceInv ==
  Known /\ GrantsAsked /\ ScreenTrue /\ AnswersTrue /\ KeptUntilBooked

IInv == TypeOK /\ BooksInv /\ DeviceInv

-----------------------------------------------------------------------------
(* Sequences *)

\* Appending keeps every element and adds one.
LEMMA AppendRight ==
  ASSUME NEW S, NEW rows \in Seq(S), NEW e \in S
  PROVE  /\ Append(rows, e) \in Seq(S)
         /\ InRows(e, Append(rows, e))
         /\ \A d : InRows(d, rows) => InRows(d, Append(rows, e))
         /\ \A d : InRows(d, Append(rows, e)) => d = e \/ InRows(d, rows)
<1> DEFINE more == Append(rows, e)
<1>1. /\ more \in Seq(S) /\ Len(more) = Len(rows) + 1
      /\ DOMAIN more = 1 .. Len(more) /\ DOMAIN rows = 1 .. Len(rows)
      /\ Len(rows) \in Nat
      /\ \A i \in 1 .. Len(rows) : more[i] = rows[i]
      /\ more[Len(rows) + 1] = e
  OBVIOUS
<1> HIDE DEF more
<1>2. InRows(e, more)
  BY <1>1 DEF InRows
<1>3. ASSUME NEW d, InRows(d, rows) PROVE InRows(d, more)
  BY <1>1, <1>3 DEF InRows
<1>4. ASSUME NEW d, InRows(d, more) PROVE d = e \/ InRows(d, rows)
  <2>1. PICK i \in 1 .. Len(rows) + 1 : more[i] = d
    BY <1>1, <1>4 DEF InRows
  <2> QED  BY <1>1, <2>1 DEF InRows
<1> QED  BY <1>1, <1>2, <1>3, <1>4 DEF more

\* Removing a row of c from the queue loses nothing but c (Confirm).
LEMMA WithoutRight ==
  ASSUME NEW S, NEW rows \in Seq(S), NEW c
  PROVE  /\ Without(rows, c) \in Seq(S)
         /\ \A d : InRows(d, Without(rows, c)) => InRows(d, rows)
         /\ \A d : InRows(d, rows) /\ d # c => InRows(d, Without(rows, c))
<1>1. CASE ~InRows(c, rows)
  BY <1>1 DEF Without, InRows
<1>2. CASE InRows(c, rows)
  <2> DEFINE i == CHOOSE i \in DOMAIN rows : rows[i] = c
             kept == Without(rows, c)
  <2>1. i \in 1 .. Len(rows) /\ rows[i] = c
    BY <1>2 DEF InRows
  <2> HIDE DEF i
  <2>2. kept = SubSeq(rows, 1, i - 1) \o SubSeq(rows, i + 1, Len(rows))
    BY <1>2 DEF Without, RemoveAt, InRows, i
  <2>3. /\ kept \in Seq(S) /\ Len(kept) = Len(rows) - 1
        /\ \A j \in 1 .. Len(kept) :
             kept[j] = IF j < i THEN rows[j] ELSE rows[j + 1]
    <3> DEFINE low == SubSeq(rows, 1, i - 1)
               high == SubSeq(rows, i + 1, Len(rows))
    <3>1. /\ low \in Seq(S) /\ Len(low) = i - 1
          /\ \A j \in 1 .. i - 1 : low[j] = rows[j]
      BY <2>1
    <3>2. /\ high \in Seq(S) /\ Len(high) = Len(rows) - i
          /\ \A j \in 1 .. Len(rows) - i : high[j] = rows[i + j]
      BY <2>1
    <3> HIDE DEF low, high
    <3>3. /\ low \o high \in Seq(S) /\ Len(low \o high) = Len(rows) - 1
          /\ \A j \in 1 .. Len(rows) - 1 : (low \o high)[j] =
               IF j <= i - 1 THEN low[j] ELSE high[j - (i - 1)]
      <4>1. /\ low \o high \in Seq(S)
            /\ Len(low \o high) = Len(low) + Len(high)
            /\ \A j \in 1 .. Len(low) + Len(high) : (low \o high)[j] =
                 IF j <= Len(low) THEN low[j] ELSE high[j - Len(low)]
        BY <3>1, <3>2, ConcatProperties
      <4>2. Len(low) + Len(high) = Len(rows) - 1
        BY <2>1, <3>1, <3>2
      <4> QED  BY <3>1, <4>1, <4>2
    <3>4. ASSUME NEW j \in 1 .. Len(rows) - 1
          PROVE  (low \o high)[j] = IF j < i THEN rows[j] ELSE rows[j + 1]
      <4>1. CASE j < i
        BY <2>1, <3>1, <3>3, <4>1
      <4>2. CASE j >= i
        <5>1. j - (i - 1) \in 1 .. Len(rows) - i /\ i + (j - (i - 1)) = j + 1
          BY <2>1, <4>2
        <5>2. (low \o high)[j] = high[j - (i - 1)]
          BY <2>1, <3>3, <4>2
        <5>3. high[j - (i - 1)] = rows[j + 1]
          BY <3>2, <5>1
        <5>4. ~(j < i)
          BY <2>1, <4>2
        <5> QED  BY <5>2, <5>3, <5>4
      <4>3. j < i \/ j >= i
        BY <2>1
      <4> QED  BY <4>1, <4>2, <4>3
    <3> QED  BY <2>2, <3>3, <3>4 DEF low, high
  <2> HIDE DEF kept
  <2>4. ASSUME NEW d, InRows(d, kept) PROVE InRows(d, rows)
    BY <2>1, <2>3, <2>4 DEF InRows
  <2>5. ASSUME NEW d, InRows(d, rows), d # c PROVE InRows(d, kept)
    <3>1. PICK j \in 1 .. Len(rows) : rows[j] = d
      BY <2>5 DEF InRows
    <3>2. CASE j < i
      BY <2>1, <2>3, <3>1, <3>2 DEF InRows
    <3>3. CASE j > i
      <4>1. j - 1 \in 1 .. Len(kept) /\ ~(j - 1 < i) /\ (j - 1) + 1 = j
        BY <2>1, <2>3, <3>1, <3>3
      <4> QED  BY <2>3, <3>1, <4>1 DEF InRows
    <3> QED  BY <2>1, <2>5, <3>1, <3>2, <3>3
  <2> QED  BY <2>3, <2>4, <2>5 DEF kept
<1> QED  BY <1>1, <1>2

\* What is left of a snapshot after its first row (Confirm).
LEMMA TailRight ==
  ASSUME NEW S, NEW rows \in Seq(S), rows # <<>>
  PROVE  /\ Head(rows) \in S /\ InRows(Head(rows), rows)
         /\ Tail(rows) \in Seq(S)
         /\ Len(rows) # 1 => Tail(rows) # <<>>
         /\ \A d : InRows(d, Tail(rows)) => InRows(d, rows)
<1>1. /\ Len(rows) \in Nat \ {0} /\ DOMAIN rows = 1 .. Len(rows)
      /\ Head(rows) = rows[1] /\ rows[1] \in S
  OBVIOUS
<1>2. /\ Tail(rows) \in Seq(S) /\ Len(Tail(rows)) = Len(rows) - 1
      /\ DOMAIN Tail(rows) = 1 .. Len(rows) - 1
      /\ \A i \in 1 .. Len(rows) - 1 : Tail(rows)[i] = rows[i + 1]
  OBVIOUS
<1>3. ASSUME NEW d, InRows(d, Tail(rows)) PROVE InRows(d, rows)
  <2>1. PICK i \in 1 .. Len(rows) - 1 : rows[i + 1] = d
    BY <1>2, <1>3 DEF InRows
  <2>2. i + 1 \in 1 .. Len(rows)
    BY <1>1
  <2> QED  BY <1>1, <2>1, <2>2 DEF InRows
<1>4. Len(rows) # 1 => Tail(rows) # <<>>
  BY <1>1, <1>2
<1>5. InRows(Head(rows), rows)
  BY <1>1 DEF InRows
<1> QED  BY <1>1, <1>2, <1>3, <1>4, <1>5

-----------------------------------------------------------------------------
(* Steps *)

RequestsKept ==
  \A c \in Commands \cup Calls : request[c] # Unasked => request'[c] = request[c]

BooksGrow == books' = books \/ \E e \in Entry : books' = Append(books, e)

\* What is booked stays booked.
LEMMA BookedStays ==
  ASSUME TypeOK, BooksGrow, RequestsKept
  PROVE  \A c \in Commands \cup Calls : Booked(c) => Booked(c)'
<1> SUFFICES ASSUME NEW c \in Commands \cup Calls, Booked(c)
             PROVE  Booked(c)'
  OBVIOUS
<1>1. PICK i \in DOMAIN books :
        Same(request[c].event, c, request[c].of, books[i])
  BY DEF Booked
<1>2. books[i] \in Entry
  BY DEF TypeOK
<1>3. request'[c] = request[c]
  BY <1>1, <1>2 DEF Same, Entry, Event, Unasked, RequestsKept
<1>4. i \in DOMAIN books' /\ books'[i] = books[i]
  <2>1. CASE books' = books
    BY <2>1
  <2>2. ASSUME NEW e \in Entry, books' = Append(books, e)
        PROVE  i \in DOMAIN books' /\ books'[i] = books[i]
    BY <2>2 DEF TypeOK
  <2> QED  BY <2>1, <2>2 DEF BooksGrow
<1> QED  BY <1>1, <1>3, <1>4 DEF Booked

\* Only a command somebody asked for can be booked.
LEMMA BookedAsked ==
  ASSUME TypeOK, NEW c \in Commands \cup Calls, Booked(c)
  PROVE  request[c] # Unasked
<1>1. PICK i \in DOMAIN books :
        Same(request[c].event, c, request[c].of, books[i])
  BY DEF Booked
<1>2. books[i] \in Entry
  BY DEF TypeOK
<1>3. request[c].event \in Event
  BY <1>1, <1>2 DEF Same, Entry
<1> QED  BY <1>3 DEF Event, Unasked

-----------------------------------------------------------------------------
(* What the server does with an admitted command (ServeRow, ServePost) *)

Served(c) ==
  /\ request[c] # Unasked
  /\ Admits(c) /\ Apply(c)
  /\ UNCHANGED <<request, uploaded>>

\* The sums on the bill.
LEMMA BillRight ==
  /\ Net \in Nat /\ Total \in Nat /\ Bill \in Parts
  /\ Units * Price \in Nat
  /\ Total = Units * Price - Discount + Tax + Service
  /\ DOMAIN Bill = {"amount", "discount", "tax", "service"}
  /\ Bill.amount = Total /\ Bill.discount = Discount /\ Bill.tax = Tax
  /\ Bill.service = Service
<1>1. /\ Units * Price \in Nat /\ Discount \in 0 .. Units * Price
      /\ Tax \in Nat /\ Service \in Nat
  BY CashAssumption
<1> DEFINE gross == Units * Price
<1> HIDE DEF gross
<1>2. gross \in Nat /\ Discount \in 0 .. gross /\ Net = gross - Discount
  BY <1>1 DEF gross, Net
<1>3. Net \in Nat /\ Total \in Nat /\ Total = gross - Discount + Tax + Service
  BY <1>1, <1>2 DEF Total
<1> QED  BY <1>1, <1>2, <1>3 DEF Bill, Parts, gross

LEMMA RoundedInt ==
  ASSUME NEW a \in Int, NEW b \in Int, b > 0
  PROVE  Rounded(a, b) \in Int /\ (a >= 0 => Rounded(a, b) >= 0)
<1> DEFINE x == 2 * a + b
           y == 2 * b
<1>1. x \in Int /\ y \in Int /\ y > 0 /\ (a >= 0 => x >= 0)
  OBVIOUS
<1> HIDE DEF x, y
<1>2. x \div y \in Int /\ (x >= 0 => x \div y >= 0)
  BY <1>1
<1> QED  BY <1>1, <1>2 DEF Rounded, x, y

\* A refund takes of each part what is left or less; the last one takes what is
\* left of all, any other is worth the sum of its parts.
LEMMA PartsRight ==
  ASSUME TypeOK, NEW s \in Sales, NEW n \in Nat
  PROVE  LET p == RefundParts(s, n) IN
         /\ p \in Parts
         /\ p.discount <= Left(s, "discount") /\ p.tax <= Left(s, "tax")
         /\ p.service <= Left(s, "service")
         /\ returned[s] + n >= Units =>
              /\ p.amount = Left(s, "amount") /\ p.discount = Left(s, "discount")
              /\ p.tax = Left(s, "tax") /\ p.service = Left(s, "service")
         /\ ~(returned[s] + n >= Units) =>
              p.amount = n * Price - p.discount + p.tax + p.service
<1>1. /\ Left(s, "amount") \in Int /\ Left(s, "discount") \in Int
      /\ Left(s, "tax") \in Int /\ Left(s, "service") \in Int
  BY BillRight DEF Left, TypeOK, Parts
<1> DEFINE net == Rounded(Net * n, Units)
           fall == n * Price - net
           onTax == ChargeOn(n, Tax)
           onService == ChargeOn(n, Service)
<1>2. net \in Int
  <2>1. Net * n \in Int /\ Units \in Int /\ Units > 0
    BY BillRight, CashAssumption
  <2> QED  BY <2>1, RoundedInt
<1>3. n * Price \in Int /\ fall \in Int
  BY <1>2, CashAssumption
<1>4. ASSUME NEW charge \in Nat PROVE ChargeOn(n, charge) \in Int
  <2>1. charge * net \in Int
    BY <1>2
  <2>2. Net # 0 => Rounded(charge * net, Net) \in Int
    BY <2>1, BillRight, RoundedInt
  <2> QED  BY <2>2 DEF ChargeOn
<1>5. onTax \in Int /\ onService \in Int
  BY <1>4, CashAssumption
<1> DEFINE last == returned[s] + n >= Units
           d == IF last THEN Left(s, "discount") ELSE Lesser(fall, Left(s, "discount"))
           t == IF last THEN Left(s, "tax") ELSE Lesser(onTax, Left(s, "tax"))
           v == IF last THEN Left(s, "service") ELSE Lesser(onService, Left(s, "service"))
           worth == n * Price
<1>6. RefundParts(s, n) =
        [discount |-> d, tax |-> t, service |-> v,
         amount |-> IF last THEN Left(s, "amount") ELSE worth - d + t + v]
  BY DEF RefundParts
<1>7. worth \in Int
  BY <1>3
<1> HIDE DEF net, fall, onTax, onService, worth
<1>8. /\ d \in Int /\ t \in Int /\ v \in Int
      /\ d <= Left(s, "discount") /\ t <= Left(s, "tax") /\ v <= Left(s, "service")
      /\ last => d = Left(s, "discount") /\ t = Left(s, "tax") /\ v = Left(s, "service")
  BY <1>1, <1>3, <1>5 DEF Lesser
<1> HIDE DEF d, t, v, last
<1>9. LET p == RefundParts(s, n) IN
      /\ p \in Parts /\ p.discount = d /\ p.tax = t /\ p.service = v
      /\ p.amount = IF last THEN Left(s, "amount") ELSE worth - d + t + v
  BY <1>1, <1>6, <1>7, <1>8 DEF Parts
<1> QED  BY <1>8, <1>9 DEF last, worth

\* The cash taken out is an integer; an original-method refund takes at most
\* what the drawer holds, and nothing when that is less than nothing.
LEMMA CashOutRight ==
  ASSUME TypeOK, NEW c \in Commands \cup Calls, request[c] # Unasked,
         Admits(c), ~Booked(c), NEW s \in Sales
  PROVE  /\ CashOut(c, s) \in Int
         /\ (request[c].event = "REFUND" /\ request[c].method # "CASH")
              => \/ CashOut(c, s) = 0
                 \/ drawer[s] - CashOut(c, s) >= 0
<1> DEFINE q == request[c]
           amount == RefundParts(s, q.units).amount
<1>1. q \in Request /\ drawer[s] \in Int /\ q.units \in Nat
  BY CashAssumption DEF TypeOK, Request
<1>2. amount \in Int
  BY <1>1, PartsRight DEF Parts
<1>3. q.event = "REFUND" /\ q.of = s => amount > 0
  BY DEF Admits, Refundable
<1>4. Total \in Nat /\ CashPaid[s] \in 0 .. Total /\ CashPaid[s] \in Nat
  BY BillRight, CashAssumption
<1>5. CashOut(c, s) =
        CASE q.event = "VOID" /\ q.of = s -> drawer[s]
          [] q.event = "REFUND" /\ q.of = s ->
               IF q.method = "CASH" THEN amount ELSE OriginalCash(s, amount)
          [] OTHER -> 0
  BY DEF CashOut
<1> HIDE DEF amount
<1>6. amount > 0 => TenderShare(s, amount) \in Int /\ TenderShare(s, amount) >= 0
  <2> SUFFICES ASSUME amount > 0
               PROVE  TenderShare(s, amount) \in Int /\ TenderShare(s, amount) >= 0
    OBVIOUS
  <2> DEFINE part == amount * CashPaid[s]
  <2>1. part \in Int /\ part >= 0
    BY <1>2, <1>4
  <2> HIDE DEF part
  <2>2. Total # 0 => Rounded(part, Total) \in Int /\ Rounded(part, Total) >= 0
    BY <1>4, <2>1, RoundedInt
  <2> QED  BY <2>2 DEF TenderShare, part
<1>7. amount > 0 =>
        /\ OriginalCash(s, amount) \in Int
        /\ OriginalCash(s, amount) = 0 \/ OriginalCash(s, amount) <= drawer[s]
  BY <1>1, <1>6 DEF OriginalCash, Lesser
<1> HIDE DEF q
<1>8. CASE q.event = "VOID" /\ q.of = s
  <2>1. CashOut(c, s) = drawer[s]
    BY <1>5, <1>8
  <2> QED  BY <1>1, <1>8, <2>1 DEF q
<1>9. CASE q.event = "REFUND" /\ q.of = s
  <2>1. CashOut(c, s) =
          IF q.method = "CASH" THEN amount ELSE OriginalCash(s, amount)
    BY <1>5, <1>9
  <2> QED  BY <1>1, <1>2, <1>3, <1>7, <1>9, <2>1 DEF q
<1>10. CASE ~(q.event = "VOID" /\ q.of = s) /\ ~(q.event = "REFUND" /\ q.of = s)
  BY <1>5, <1>10
<1> QED  BY <1>8, <1>9, <1>10

\* An admitted command: booked afterwards, the books only longer, and every
\* variable of the server still of its type.
LEMMA ServedTyped ==
  ASSUME TypeOK, NEW c \in Commands \cup Calls, Served(c)
  PROVE  /\ BooksGrow /\ RequestsKept /\ Booked(c)'
         /\ books' \in Seq(Entry)
         /\ returned' \in [Sales -> Nat] /\ refunded' \in [Sales -> Parts]
      /\ drawer' \in [Sales -> Int]
         /\ grant' \in [Privileged -> {"none", "fresh", "used", "dead"}]
         /\ audit' \in SUBSET Privileged
         /\ \A p \in Privileged \ {c} : grant'[p] = grant[p]
<1> DEFINE q == request[c]
           e == [event |-> q.event, by |-> c, of |-> q.of]
<1>1. /\ request' = request /\ q \in Request /\ e \in Entry
      /\ grant' \in [Privileged -> {"none", "fresh", "used", "dead"}]
      /\ audit' \in SUBSET Privileged
      /\ \A p \in Privileged \ {c} : grant'[p] = grant[p]
  BY DEF Served, TypeOK, Request, Entry, Apply, Consume
<1>2. RequestsKept
  BY <1>1 DEF RequestsKept
<1>3. CASE Booked(c)
  <2>1. UNCHANGED booked
    BY <1>3 DEF Served, Apply
  <2>2. Booked(c)'
    BY <1>1, <1>3, <2>1 DEF Booked, booked
  <2> QED  BY <1>1, <1>2, <2>1, <2>2 DEF booked, BooksGrow, TypeOK
<1>4. CASE ~Booked(c)
  <2>1. Book(c)
    BY <1>4 DEF Served, Apply
  <2>2. books' = Append(books, e)
    BY <2>1 DEF Book
  <2>3. returned' \in [Sales -> Nat] /\ refunded' \in [Sales -> Parts]
    <3>1. q.units \in Nat
      BY <1>1, CashAssumption DEF Request
    <3>2. ASSUME NEW s \in Sales PROVE Plus(refunded[s], RefundParts(s, q.units)) \in Parts
      <4>1. refunded[s] \in Parts /\ RefundParts(s, q.units) \in Parts
        BY <3>1, PartsRight DEF TypeOK
      <4> QED  BY <4>1 DEF Plus, Parts
    <3> QED  BY <2>1, <3>1, <3>2 DEF Book, TypeOK
  <2>4. drawer' \in [Sales -> Int]
    <3>1. \A s \in Sales : CashOut(c, s) \in Int /\ drawer[s] \in Int
      BY <1>4, CashOutRight DEF Served, TypeOK
    <3>2. drawer' = [s \in Sales |-> drawer[s] - CashOut(c, s)]
      BY <2>1 DEF Book
    <3> QED  BY <3>1, <3>2
  <2>5. books \in Seq(Entry)
    BY DEF TypeOK
  <2>6. Len(books) + 1 \in DOMAIN books' /\ books'[Len(books) + 1] = e
    BY <1>1, <2>2, <2>5
  <2>7. Same(request'[c].event, c, request'[c].of, e)
    BY <1>1 DEF Same
  <2>8. Booked(c)'
    BY <2>6, <2>7 DEF Booked
  <2> QED  BY <1>1, <1>2, <2>2, <2>3, <2>4, <2>5, <2>8 DEF BooksGrow
<1> QED  BY <1>3, <1>4

\* An entry of the books after an append: an old one or the new one.
LEMMA EntryCases ==
  ASSUME TypeOK, NEW e \in Entry, books' = Append(books, e)
  PROVE  /\ DOMAIN books' = DOMAIN books \cup {Len(books) + 1}
         /\ Len(books) + 1 \notin DOMAIN books
         /\ \A i \in DOMAIN books : books'[i] = books[i] /\ books[i] \in Entry
         /\ books'[Len(books) + 1] = e
<1>1. books \in Seq(Entry)
  BY DEF TypeOK
<1> QED  BY <1>1

\* Booking a command that was not booked: its refund fits what is left, a
\* void settles the drawer, nothing is added to a void sale.
LEMMA BookRight ==
  ASSUME TypeOK, BooksInv, Known, NEW c \in Commands \cup Calls, Served(c),
         ~Booked(c)
  PROVE  BooksInv'
<1> DEFINE q == request[c]
           e == [event |-> q.event, by |-> c, of |-> q.of]
           n == Len(books) + 1
<1>1. /\ request' = request /\ uploaded' = uploaded /\ q \in Request
      /\ Admits(c) /\ Consume(c) /\ Book(c)
  BY DEF Served, Apply, TypeOK
<1>2. e \in Entry /\ books' = Append(books, e)
  BY <1>1 DEF Request, Entry, Book
<1>3. /\ DOMAIN books' = DOMAIN books \cup {n} /\ n \notin DOMAIN books
      /\ \A i \in DOMAIN books : books'[i] = books[i] /\ books[i] \in Entry
      /\ books'[n] = e
  BY <1>2, EntryCases
<1>4. \A d \in Commands \cup Calls : Booked(d) => Booked(d)'
  BY <1>1, ServedTyped, BookedStays
<1>5. Booked(c)'
  BY ServedTyped
<1> HIDE DEF n
<1>6. BookedOnce'
  <2> SUFFICES ASSUME NEW i \in DOMAIN books', NEW j \in DOMAIN books',
                      Same(books'[i].event, books'[i].by, books'[i].of, books'[j])
               PROVE  i = j
    BY DEF BookedOnce
  <2>1. \A k \in DOMAIN books : ~Same(q.event, c, q.of, books[k])
    BY DEF Booked
  <2>2. CASE i # n /\ j # n
    BY <1>3, <2>2 DEF BooksInv, BookedOnce
  <2>3. CASE i = n /\ j # n
    BY <1>3, <2>1, <2>3
  <2>4. CASE i # n /\ j = n
    <3>1. Same(q.event, c, q.of, books[i])
      BY <1>3, <2>4 DEF Same
    <3> QED  BY <1>3, <2>1, <2>4, <3>1
  <2> QED  BY <2>2, <2>3, <2>4
<1>7. AuditMatchesBooks'
  <2>1. \A i \in DOMAIN books : books[i].event # "CASH_IN" => books[i].by \in audit
    BY DEF BooksInv, AuditMatchesBooks
  <2>2. audit' = audit \cup ({c} \cap Privileged)
    BY <1>1 DEF Consume
  <2>3. q.event # "CASH_IN" => c \in Privileged
    BY DEF Known, Served, Privileged, Commands
  <2>4. \A i \in DOMAIN books' :
          books'[i].event # "CASH_IN" => books'[i].by \in audit'
    BY <1>3, <2>1, <2>2, <2>3
  <2>5. \A r \in audit' \cap Refunds : Booked(r)'
    BY <1>4, <1>5, <2>2 DEF BooksInv, AuditMatchesBooks, Commands
  <2> QED  BY <2>4, <2>5 DEF AuditMatchesBooks
<1>8. RefundsWithinSale' /\ RefundsAddUp'
  <2> SUFFICES ASSUME NEW s \in Sales
               PROVE  /\ returned'[s] <= Units
                      /\ \A part \in DOMAIN Bill : refunded'[s][part] <= Bill[part]
                      /\ refunded'[s].amount =
                           returned'[s] * Price - refunded'[s].discount
                             + refunded'[s].tax + refunded'[s].service
                      /\ returned'[s] = Units => refunded'[s] = Bill
    BY DEF RefundsWithinSale, RefundsAddUp
  <2>1. /\ returned'[s] =
             returned[s] + IF q.event = "REFUND" /\ q.of = s THEN q.units ELSE 0
        /\ refunded'[s] = IF q.event = "REFUND" /\ q.of = s
                          THEN Plus(refunded[s], RefundParts(s, q.units)) ELSE refunded[s]
    BY <1>1 DEF Book
  <2>2. /\ returned[s] \in Nat /\ returned[s] <= Units /\ q.units \in Nat
        /\ refunded[s] \in Parts
        /\ \A part \in DOMAIN Bill : refunded[s][part] <= Bill[part]
        /\ refunded[s].amount = returned[s] * Price - refunded[s].discount
                                  + refunded[s].tax + refunded[s].service
        /\ returned[s] = Units => refunded[s] = Bill
    BY <1>1, CashAssumption
       DEF TypeOK, BooksInv, RefundsWithinSale, RefundsAddUp, Request
  <2>3. CASE q.event = "REFUND" /\ q.of = s
    <3> DEFINE p == RefundParts(s, q.units)
    <3>1. /\ q.units <= Units - returned[s] /\ p.amount <= Left(s, "amount")
      BY <1>1, <2>3 DEF Admits, Refundable
    <3>2. /\ p \in Parts
          /\ p.discount <= Left(s, "discount") /\ p.tax <= Left(s, "tax")
          /\ p.service <= Left(s, "service")
          /\ returned[s] + q.units >= Units =>
               /\ p.amount = Left(s, "amount") /\ p.discount = Left(s, "discount")
               /\ p.tax = Left(s, "tax") /\ p.service = Left(s, "service")
          /\ ~(returned[s] + q.units >= Units) =>
               p.amount = q.units * Price - p.discount + p.tax + p.service
      BY <2>2, PartsRight
    <3> HIDE DEF p
    <3>3. /\ returned'[s] = returned[s] + q.units
          /\ refunded'[s] = [amount |-> refunded[s].amount + p.amount,
                             discount |-> refunded[s].discount + p.discount,
                             tax |-> refunded[s].tax + p.tax,
                             service |-> refunded[s].service + p.service]
      BY <2>1, <2>3 DEF Plus, p
    <3>4. /\ refunded'[s].amount = refunded[s].amount + p.amount
          /\ refunded'[s].discount = refunded[s].discount + p.discount
          /\ refunded'[s].tax = refunded[s].tax + p.tax
          /\ refunded'[s].service = refunded[s].service + p.service
          /\ DOMAIN refunded'[s] = DOMAIN Bill
      BY <3>3 DEF Bill
    <3>5. /\ p.amount \in Int /\ p.discount \in Int /\ p.tax \in Int /\ p.service \in Int
          /\ refunded[s].amount \in Int /\ refunded[s].discount \in Int
          /\ refunded[s].tax \in Int /\ refunded[s].service \in Int
      BY <2>2, <3>2 DEF Parts
    <3>6. /\ Left(s, "amount") = Total - refunded[s].amount
          /\ Left(s, "discount") = Discount - refunded[s].discount
          /\ Left(s, "tax") = Tax - refunded[s].tax
          /\ Left(s, "service") = Service - refunded[s].service
          /\ Total \in Int /\ Discount \in Int /\ Tax \in Int /\ Service \in Int
      BY BillRight, CashAssumption DEF Left
    <3>7. returned'[s] <= Units
      BY <2>2, <3>1, <3>3, CashAssumption
    <3>8. \A part \in DOMAIN Bill : refunded'[s][part] <= Bill[part]
      <4>1. /\ refunded'[s].amount <= Total /\ refunded'[s].discount <= Discount
            /\ refunded'[s].tax <= Tax /\ refunded'[s].service <= Service
        BY <3>1, <3>2, <3>4, <3>5, <3>6
      <4> QED  BY <4>1, BillRight
    <3>9. CASE returned[s] + q.units >= Units
      <4>1. returned'[s] = Units
        BY <2>2, <3>3, <3>7, <3>9, CashAssumption
      <4>2. /\ refunded'[s].amount = Total /\ refunded'[s].discount = Discount
            /\ refunded'[s].tax = Tax /\ refunded'[s].service = Service
        BY <3>2, <3>4, <3>5, <3>6, <3>9
      <4>3. refunded'[s] = Bill
        BY <3>3, <3>4, <4>2 DEF Bill
      <4>4. Total = returned'[s] * Price - Discount + Tax + Service
        BY <4>1, BillRight
      <4> QED  BY <3>7, <3>8, <4>2, <4>3, <4>4
    <3>10. CASE ~(returned[s] + q.units >= Units)
      <4> DEFINE before == returned[s] * Price
                 now == q.units * Price
                 after == returned'[s] * Price
      <4>1. after = before + now /\ before \in Int /\ now \in Int
        BY <2>2, <3>3, CashAssumption
      <4>2. /\ p.amount = now - p.discount + p.tax + p.service
            /\ refunded[s].amount = before - refunded[s].discount
                                      + refunded[s].tax + refunded[s].service
        BY <2>2, <3>2, <3>10
      <4>3. returned'[s] # Units
        BY <2>2, <3>3, <3>10, CashAssumption
      <4> HIDE DEF before, now, after
      <4> DEFINE a == refunded'[s].amount
                 d == refunded'[s].discount
                 t == refunded'[s].tax
                 v == refunded'[s].service
      <4>4. /\ a \in Int /\ d \in Int /\ t \in Int /\ v \in Int
            /\ a = before + now - d + t + v
        BY <3>4, <3>5, <4>1, <4>2
      <4> HIDE DEF a, d, t, v
      <4>5. a = after - d + t + v
        BY <4>1, <4>4
      <4> QED  BY <3>7, <3>8, <4>3, <4>5 DEF after, a, d, t, v
    <3> QED  BY <3>9, <3>10
  <2>4. CASE ~(q.event = "REFUND" /\ q.of = s)
    <3>1. returned'[s] = returned[s] /\ refunded'[s] = refunded[s]
      BY <2>1, <2>2, <2>4
    <3> QED  BY <2>2, <3>1
  <2> QED  BY <2>3, <2>4
<1>9. \A s \in Sales : Voided(s)' => Voided(s) \/ (q.event = "VOID" /\ q.of = s)
  BY <1>3 DEF Voided, Entries
<1>10. VoidSettlesDrawer'
  <2> SUFFICES ASSUME NEW s \in Sales, Voided(s)' PROVE drawer'[s] = 0
    BY DEF VoidSettlesDrawer
  <2>1. drawer'[s] = drawer[s] - CashOut(c, s) /\ drawer[s] \in Int
    BY <1>1 DEF Book, TypeOK
  <2>2. CASE q.event = "VOID" /\ q.of = s
    <3>1. CashOut(c, s) = drawer[s]
      BY <2>2 DEF CashOut
    <3> QED  BY <2>1, <3>1
  <2>3. CASE ~(q.event = "VOID" /\ q.of = s)
    <3>1. Voided(s) /\ drawer[s] = 0
      BY <1>9, <2>3 DEF BooksInv, VoidSettlesDrawer
    <3>2. ~(q.event = "REFUND" /\ q.of = s)
      BY <1>1, <3>1 DEF Admits, Refundable
    <3>3. CashOut(c, s) = 0
      BY <2>3, <3>2 DEF CashOut
    <3> QED  BY <2>1, <3>1, <3>3
  <2> QED  BY <2>2, <2>3
<1>11. VoidsKnown'
  BY <1>1, <1>9 DEF BooksInv, VoidsKnown, Admits
<1> QED  BY <1>6, <1>7, <1>8, <1>10, <1>11 DEF BooksInv

-----------------------------------------------------------------------------
(* Steps of the cashier and of the queue *)

\* A step that books nothing: what it may change of the server is the grants.
Quiet ==
  /\ UNCHANGED <<booked, audit, uploaded>>
  /\ RequestsKept

LEMMA QuietBooks == ASSUME IInv, Quiet PROVE BooksInv' /\ BooksGrow
<1>1. TypeOK /\ BooksInv /\ BooksGrow /\ RequestsKept
      /\ books' = books /\ returned' = returned /\ refunded' = refunded
      /\ drawer' = drawer
      /\ audit' = audit /\ uploaded' = uploaded
  BY DEF IInv, Quiet, booked, BooksGrow
<1>2. \A c \in Commands \cup Calls : Booked(c) => Booked(c)'
  BY <1>1, BookedStays
<1>3. AuditMatchesBooks'
  BY <1>1, <1>2 DEF BooksInv, AuditMatchesBooks, Commands
<1>4. /\ BookedOnce' /\ RefundsWithinSale' /\ RefundsAddUp'
      /\ VoidSettlesDrawer'
      /\ VoidsKnown'
  BY <1>1 DEF BooksInv, BookedOnce, RefundsWithinSale, RefundsAddUp, VoidSettlesDrawer,
              VoidsKnown, Voided, Entries
<1> QED  BY <1>1, <1>3, <1>4 DEF BooksInv

\* The new request of the cashier takes an unused id.
LEMMA AskRight ==
  ASSUME TypeOK, NEW c \in Commands \cup Calls, NEW event \in Event,
         NEW of \in Sales \cup Commands \cup Calls, NEW units \in 0 .. Units,
         NEW method \in Method, Ask(c, event, of, units, method)
  PROVE  /\ request' \in [Commands \cup Calls -> Request \cup {Unasked}]
         /\ RequestsKept
         /\ request'[c] # Unasked /\ request'[c].event = event
         /\ \A d \in (Commands \cup Calls) \ {c} : request'[d] = request[d]
<1> DEFINE q == [event |-> event, of |-> of, units |-> units, method |-> method]
<1>1. q \in Request
  BY DEF Request
<1>2. q # Unasked /\ q.event = event
  BY DEF Unasked, Event
<1> HIDE DEF q
<1>3. request' = [request EXCEPT ![c] = q] /\ request[c] = Unasked
  BY DEF Ask, q
<1> QED  BY <1>1, <1>2, <1>3 DEF TypeOK, RequestsKept

LEMMA AddCashInInv ==
  ASSUME IInv, NEW c \in CashIns, AddCashIn(c)
  PROVE  TypeOK' /\ Quiet /\ DeviceInv'
<1>1. TypeOK /\ DeviceInv /\ c \in Commands
  BY DEF IInv, Commands
<1>2. /\ outbox' = Append(outbox, c) /\ outbox \in Seq(Commands)
      /\ UNCHANGED <<asking, recorded, meta, flight, acks, posts, books,
                     returned, refunded, drawer, grant, audit, uploaded, open, budget>>
  BY <1>1 DEF AddCashIn, sync, server, booked, world, TypeOK
<1>3. /\ request' \in [Commands \cup Calls -> Request \cup {Unasked}]
      /\ RequestsKept
      /\ request'[c] # Unasked /\ request'[c].event = "CASH_IN"
      /\ \A d \in (Commands \cup Calls) \ {c} : request'[d] = request[d]
  <2>1. Ask(c, "CASH_IN", c, 0, "CASH")
    BY DEF AddCashIn
  <2>2. "CASH_IN" \in Event /\ 0 \in 0 .. Units /\ "CASH" \in Method
    BY CashAssumption DEF Event, Method
  <2> QED  BY <1>1, <2>1, <2>2, AskRight
<1>4. /\ outbox' \in Seq(Commands) /\ InRows(c, outbox')
      /\ \A d : InRows(d, outbox) => InRows(d, outbox')
      /\ \A d : InRows(d, outbox') => d = c \/ InRows(d, outbox)
  BY <1>1, <1>2, AppendRight
<1>5. Quiet
  BY <1>2, <1>3 DEF Quiet, booked
<1>6. \A d \in Commands \cup Calls : Booked(d) => Booked(d)'
  BY <1>1, <1>3, <1>5, BookedStays, QuietBooks
<1>7. TypeOK'
  BY <1>1, <1>2, <1>3, <1>4 DEF TypeOK
<1>8. Known'
  <2>1. ASSUME NEW d \in Commands \cup Calls,
               \/ d \in (asking \cup posts)'
               \/ InRows(d, outbox')
               \/ \E t \in Tabs : InRows(d, flight'[t].rows)
        PROVE  request'[d] # Unasked
    <3>1. CASE d = c
      BY <1>3, <3>1
    <3>2. CASE d # c
      BY <1>1, <1>2, <1>3, <1>4, <2>1, <3>2 DEF DeviceInv, Known
    <3> QED  BY <3>1, <3>2
  <2>2. \A d \in CashIns : request'[d] # Unasked => request'[d].event = "CASH_IN"
    BY <1>1, <1>3 DEF DeviceInv, Known, Commands
  <2> QED  BY <2>1, <2>2 DEF Known
<1>9. ScreenTrue'
  BY <1>1, <1>2, <1>6 DEF DeviceInv, ScreenTrue, TypeOK, Privileged, Commands
<1>10. AnswersTrue'
  BY <1>1, <1>2, <1>6 DEF DeviceInv, AnswersTrue, Row
<1>11. KeptUntilBooked'
  BY <1>1, <1>2, <1>3, <1>4, <1>6 DEF DeviceInv, KeptUntilBooked, InRows
<1>12. GrantsAsked'
  BY <1>1, <1>2, <1>3, CashAssumption
     DEF DeviceInv, GrantsAsked, Privileged, Commands
<1> QED  BY <1>5, <1>7, <1>8, <1>9, <1>10, <1>11, <1>12 DEF DeviceInv

\* AskRefund and AskCall: the request waits for its approval.
LEMMA AskInv ==
  ASSUME IInv, NEW c \in Privileged, NEW event \in Event \ {"CASH_IN"},
         NEW of \in Sales \cup Commands \cup Calls, NEW units \in 0 .. Units,
         NEW method \in Method, Ask(c, event, of, units, method),
         asking' = asking \cup {c},
         UNCHANGED <<outbox, recorded, sync, posts, server, world>>
  PROVE  TypeOK' /\ Quiet /\ DeviceInv'
<1>1. /\ TypeOK /\ DeviceInv /\ c \in Commands \cup Calls /\ c \notin CashIns
      /\ event \in Event /\ event # "CASH_IN"
  BY CashAssumption DEF IInv, Commands, Privileged
<1>2. UNCHANGED <<outbox, recorded, meta, flight, acks, posts, books,
                  returned, refunded, drawer, grant, audit, uploaded, open, budget>>
  BY DEF sync, server, booked, world
<1>3. /\ request' \in [Commands \cup Calls -> Request \cup {Unasked}]
      /\ RequestsKept
      /\ request'[c] # Unasked
      /\ \A d \in (Commands \cup Calls) \ {c} : request'[d] = request[d]
  BY <1>1, AskRight
<1>4. Quiet
  BY <1>2, <1>3 DEF Quiet, booked
<1>5. \A d \in Commands \cup Calls : Booked(d) => Booked(d)'
  BY <1>1, <1>3, <1>4, BookedStays, QuietBooks
<1>6. TypeOK'
  BY <1>1, <1>2, <1>3 DEF TypeOK
<1>7. Known'
  <2>1. ASSUME NEW d \in Commands \cup Calls,
               \/ d \in (asking \cup posts)'
               \/ InRows(d, outbox')
               \/ \E t \in Tabs : InRows(d, flight'[t].rows)
        PROVE  request'[d] # Unasked
    <3>1. CASE d = c
      BY <1>3, <3>1
    <3>2. CASE d # c
      BY <1>1, <1>2, <1>3, <2>1, <3>2 DEF DeviceInv, Known
    <3> QED  BY <3>1, <3>2
  <2>2. \A d \in CashIns : request'[d] # Unasked => request'[d].event = "CASH_IN"
    BY <1>1, <1>3 DEF DeviceInv, Known, Commands
  <2> QED  BY <2>1, <2>2 DEF Known
<1>8. GrantsAsked'
  <2>1. grant[c] = "none"
    BY <1>1 DEF Ask, DeviceInv, GrantsAsked
  <2> QED  BY <1>1, <1>2, <1>3, <2>1
              DEF DeviceInv, GrantsAsked, Privileged, Commands
<1>9. ScreenTrue'
  BY <1>1, <1>2, <1>5 DEF DeviceInv, ScreenTrue, TypeOK, Privileged, Commands
<1>10. AnswersTrue'
  BY <1>1, <1>2, <1>5 DEF DeviceInv, AnswersTrue, Row
<1>11. KeptUntilBooked'
  BY <1>1, <1>2, <1>3, <1>5 DEF DeviceInv, KeptUntilBooked
<1> QED  BY <1>4, <1>6, <1>7, <1>8, <1>9, <1>10, <1>11 DEF DeviceInv

LEMMA ApproveInv ==
  ASSUME IInv, NEW p \in Privileged, Approve(p)
  PROVE  TypeOK' /\ Quiet /\ DeviceInv'
<1>1. TypeOK /\ DeviceInv /\ p \in Commands \cup Calls
  BY DEF IInv, Commands, Privileged
<1>2. /\ p \in asking /\ asking' = asking \ {p}
      /\ grant' = [grant EXCEPT ![p] = "fresh"]
      /\ UNCHANGED <<request, recorded, meta, flight, acks, books, returned,
                     refunded, drawer, audit, uploaded, open, budget>>
  BY DEF Approve, sync, booked, world
<1>3. RequestsKept
  BY <1>2 DEF RequestsKept
<1>4. Quiet
  BY <1>2, <1>3 DEF Quiet, booked
<1>5. \A d \in Commands \cup Calls : Booked(d) => Booked(d)'
  BY <1>1, <1>3, <1>4, BookedStays, QuietBooks
<1>6. /\ outbox' \in Seq(Commands)
      /\ \A d : InRows(d, outbox) => InRows(d, outbox')
      /\ \A d : InRows(d, outbox') => d = p \/ InRows(d, outbox)
      /\ p \in Refunds => InRows(p, outbox')
      /\ posts' \in SUBSET (Commands \cup Calls)
      /\ posts' \subseteq posts \cup {p}
  <2>1. outbox \in Seq(Commands) /\ posts \in SUBSET (Commands \cup Calls)
    BY <1>1 DEF TypeOK
  <2>2. CASE p \in Refunds
    <3>1. p \in Commands /\ outbox' = Append(outbox, p) /\ posts' = posts
      BY <2>2 DEF Approve, Commands
    <3> QED  BY <2>1, <3>1, AppendRight
  <2>3. CASE p \notin Refunds
    <3>1. p \in Calls /\ outbox' = outbox /\ posts' = posts \cup {p}
      BY <2>3 DEF Approve, Privileged
    <3> QED  BY <2>1, <2>3, <3>1
  <2> QED  BY <2>2, <2>3
<1>7. TypeOK'
  BY <1>1, <1>2, <1>6 DEF TypeOK
<1>8. Known'
  BY <1>1, <1>2, <1>6 DEF DeviceInv, Known
<1>9. GrantsAsked'
  BY <1>1, <1>2, <1>8 DEF DeviceInv, Known, GrantsAsked, TypeOK
<1>10. ScreenTrue'
  BY <1>1, <1>2, <1>5 DEF DeviceInv, ScreenTrue, TypeOK, Privileged, Commands
<1>11. AnswersTrue'
  BY <1>1, <1>2, <1>5 DEF DeviceInv, AnswersTrue, Row
<1>12. KeptUntilBooked'
  <2> SUFFICES ASSUME NEW d \in Commands
               PROVE  \/ request'[d] = Unasked \/ d \in asking'
                      \/ d \in Refunds /\ grant'[d] = "none"
                      \/ InRows(d, outbox') \/ Booked(d)'
    BY DEF KeptUntilBooked, InRows
  <2>1. \/ request[d] = Unasked \/ d \in asking
        \/ d \in Refunds /\ grant[d] = "none"
        \/ InRows(d, outbox) \/ Booked(d)
    BY <1>1 DEF DeviceInv, KeptUntilBooked, InRows
  <2>2. CASE d = p
    <3>1. p \in Refunds
      BY <2>2, CashAssumption DEF Privileged, Commands
    <3> QED  BY <1>6, <2>2, <3>1
  <2>3. CASE d # p
    <3>1. d \in Refunds => grant'[d] = grant[d]
      BY <1>1, <1>2, <2>3 DEF TypeOK, Privileged
    <3> QED  BY <1>2, <1>5, <1>6, <2>1, <2>3, <3>1
  <2> QED  BY <2>2, <2>3
<1> QED  BY <1>4, <1>7, <1>8, <1>9, <1>10, <1>11, <1>12 DEF DeviceInv

\* Decline and RecordRefund change one variable of the device.
LEMMA DeclineInv ==
  ASSUME IInv, NEW p \in Privileged, Decline(p)
  PROVE  TypeOK' /\ Quiet /\ DeviceInv'
<1>1. TypeOK /\ DeviceInv
  BY DEF IInv
<1>2. /\ p \in asking /\ asking' = asking \ {p}
      /\ UNCHANGED <<request, outbox, recorded, meta, flight, acks, posts,
                     books, returned, refunded, drawer, grant, audit, uploaded, open,
                     budget>>
  BY DEF Decline, sync, server, booked, world
<1>3. Quiet
  BY <1>2 DEF Quiet, booked, RequestsKept
<1>4. \A d \in Commands \cup Calls : Booked(d)' <=> Booked(d)
  BY <1>2 DEF Booked
<1>5. TypeOK'
  BY <1>1, <1>2 DEF TypeOK
<1>6. Known' /\ GrantsAsked'
  BY <1>1, <1>2 DEF DeviceInv, Known, GrantsAsked
<1>7. ScreenTrue'
  BY <1>1, <1>2, <1>4 DEF DeviceInv, ScreenTrue, TypeOK, Privileged, Commands
<1>8. AnswersTrue'
  BY <1>1, <1>2, <1>4 DEF DeviceInv, AnswersTrue, Row
<1>9. KeptUntilBooked'
  <2>1. grant[p] = "none" /\ (p \in Commands => p \in Refunds)
    BY <1>1, <1>2, CashAssumption DEF DeviceInv, GrantsAsked, Privileged, Commands
  <2> QED  BY <1>1, <1>2, <1>4, <2>1 DEF DeviceInv, KeptUntilBooked
<1> QED  BY <1>3, <1>5, <1>6, <1>7, <1>8, <1>9 DEF DeviceInv

LEMMA RecordRefundInv ==
  ASSUME IInv, NEW r \in Refunds, RecordRefund(r)
  PROVE  TypeOK' /\ Quiet /\ DeviceInv'
<1>1. TypeOK /\ DeviceInv
  BY DEF IInv
<1>2. /\ r \in acks /\ recorded' = recorded \cup {r}
      /\ UNCHANGED <<request, asking, outbox, meta, flight, acks, posts,
                     books, returned, refunded, drawer, grant, audit, uploaded, open,
                     budget>>
  BY DEF RecordRefund, sync, server, booked, world
<1>3. Quiet
  BY <1>2 DEF Quiet, booked, RequestsKept
<1>4. \A d \in Commands \cup Calls : Booked(d)' <=> Booked(d)
  BY <1>2 DEF Booked
<1>5. TypeOK'
  BY <1>1, <1>2 DEF TypeOK, Privileged
<1>6. Known' /\ GrantsAsked'
  BY <1>1, <1>2 DEF DeviceInv, Known, GrantsAsked
<1>7. ScreenTrue'
  BY <1>1, <1>2, <1>4 DEF DeviceInv, ScreenTrue, TypeOK, Privileged, Commands
<1>8. AnswersTrue' /\ KeptUntilBooked'
  BY <1>1, <1>2, <1>4 DEF DeviceInv, AnswersTrue, Row, KeptUntilBooked
<1> QED  BY <1>3, <1>5, <1>6, <1>7, <1>8 DEF DeviceInv

LEMMA CashierInv == ASSUME IInv, Cashier PROVE TypeOK' /\ Quiet /\ DeviceInv'
<1>1. ASSUME NEW r \in Refunds, NEW s \in Sales, NEW n \in 1 .. Units,
             NEW m \in Method, AskRefund(r, s, n, m)
      PROVE  TypeOK' /\ Quiet /\ DeviceInv'
  <2>1. /\ r \in Privileged /\ "REFUND" \in Event \ {"CASH_IN"}
        /\ n \in 0 .. Units
    BY DEF Privileged, Event
  <2>2. /\ Ask(r, "REFUND", s, n, m) /\ asking' = asking \cup {r}
        /\ UNCHANGED <<outbox, recorded, sync, posts, server, world>>
    BY <1>1 DEF AskRefund
  <2> QED  BY <2>1, <2>2, AskInv
<1>2. ASSUME NEW d \in Calls, NEW e \in {"VOID", "CASH_OUT", "REVERSAL"},
             NEW of \in Sales \cup CashIns \cup Calls, AskCall(d, e, of)
      PROVE  TypeOK' /\ Quiet /\ DeviceInv'
  <2>1. /\ d \in Privileged /\ e \in Event \ {"CASH_IN"}
        /\ of \in Sales \cup Commands \cup Calls
        /\ 0 \in 0 .. Units /\ "CASH" \in Method
    BY CashAssumption DEF Privileged, Event, Commands, Method
  <2>2. /\ Ask(d, e, of, 0, "CASH") /\ asking' = asking \cup {d}
        /\ UNCHANGED <<outbox, recorded, sync, posts, server, world>>
    BY <1>2 DEF AskCall
  <2> QED  BY <2>1, <2>2, AskInv
<1> QED  BY <1>1, <1>2, AddCashInInv, ApproveInv, DeclineInv, RecordRefundInv
            DEF Cashier

-----------------------------------------------------------------------------
(* Steps of a flush *)

\* The row a tab works on was asked for and is still in its snapshot.
LEMMA RowRight ==
  ASSUME TypeOK, Known, NEW t \in Tabs, flight[t].phase # "idle"
  PROVE  /\ flight[t].rows \in Seq(Commands) /\ flight[t].rows # <<>>
         /\ Row(t) \in Commands /\ request[Row(t)] # Unasked
<1>1. flight[t].rows \in Seq(Commands) /\ flight[t].rows # <<>>
  BY DEF TypeOK
<1>2. Row(t) \in Commands /\ InRows(Row(t), flight[t].rows)
  BY <1>1, TailRight DEF Row
<1>3. request[Row(t)] # Unasked
  BY <1>2 DEF Known
<1> QED  BY <1>1, <1>2, <1>3

\* What the steps of a flush other than ServeRow have in common: no flight
\* gets an ok answer, only what is booked is acknowledged or leaves the queue.
LEMMA FlushFrame ==
  ASSUME IInv, NEW t \in Tabs,
         NEW f \in [phase : Phase, rows : Seq(Commands)],
         flight' = [flight EXCEPT ![t] = f],
         f.phase = "idle" <=> f.rows = <<>>, f.phase # "ok",
         \A c : InRows(c, f.rows) =>
                  InRows(c, outbox) \/ InRows(c, flight[t].rows),
         acks' \in SUBSET Refunds, \A r \in acks' \ acks : Booked(r),
         posts' \in SUBSET (Commands \cup Calls),
         \A c \in posts' \ posts : request[c] # Unasked,
         outbox' \in Seq(Commands),
         \A c : InRows(c, outbox') => InRows(c, outbox),
         \A c \in Commands : InRows(c, outbox) => InRows(c, outbox') \/ Booked(c),
         meta' \in {"ok", "failed", "parked"}, budget' \in [Trouble -> Nat],
         UNCHANGED <<request, asking, recorded, server, uploaded, open>>
  PROVE  TypeOK' /\ Quiet /\ DeviceInv'
<1>1. TypeOK /\ DeviceInv
  BY DEF IInv
<1>2. UNCHANGED <<request, asking, recorded, books, returned, refunded, drawer, grant,
                  audit, uploaded, open>>
  BY DEF server, booked
<1>3. Quiet
  BY <1>2 DEF Quiet, booked, RequestsKept
<1>4. \A d \in Commands \cup Calls : Booked(d)' <=> Booked(d)
  BY <1>2 DEF Booked
<1>5. TypeOK'
  <2>1. /\ flight' \in [Tabs -> [phase : Phase, rows : Seq(Commands)]]
        /\ \A u \in Tabs : flight'[u].phase = "idle" <=> flight'[u].rows = <<>>
    BY <1>1 DEF TypeOK
  <2> QED  BY <1>1, <1>2, <2>1 DEF TypeOK
<1>6. Known' /\ GrantsAsked'
  <2>1. ASSUME NEW d, NEW u \in Tabs, InRows(d, flight'[u].rows)
        PROVE  InRows(d, outbox) \/ \E v \in Tabs : InRows(d, flight[v].rows)
    <3>1. CASE u = t
      BY <1>1, <2>1, <3>1 DEF TypeOK
    <3>2. CASE u # t
      BY <1>1, <2>1, <3>2 DEF TypeOK
    <3> QED  BY <3>1, <3>2
  <2> QED  BY <1>1, <1>2, <2>1 DEF DeviceInv, Known, GrantsAsked
<1>7. ScreenTrue'
  BY <1>1, <1>2, <1>4 DEF DeviceInv, ScreenTrue, TypeOK, Privileged, Commands
<1>8. AnswersTrue'
  <2> SUFFICES ASSUME NEW u \in Tabs, NEW c \in Commands,
                      flight'[u].phase = "ok", Row(u)' = c
               PROVE  Booked(c)'
    BY DEF AnswersTrue
  <2>1. u # t /\ flight'[u] = flight[u]
    BY <1>1 DEF TypeOK
  <2> QED  BY <1>1, <1>4, <2>1 DEF DeviceInv, AnswersTrue, Row
<1>9. KeptUntilBooked'
  <2> SUFFICES ASSUME NEW d \in Commands
               PROVE  \/ request'[d] = Unasked \/ d \in asking'
                      \/ d \in Refunds /\ grant'[d] = "none"
                      \/ InRows(d, outbox') \/ Booked(d)'
    BY DEF KeptUntilBooked, InRows
  <2>1. \/ request[d] = Unasked \/ d \in asking
        \/ d \in Refunds /\ grant[d] = "none"
        \/ InRows(d, outbox) \/ Booked(d)
    BY <1>1 DEF DeviceInv, KeptUntilBooked, InRows
  <2> QED  BY <1>2, <1>4, <2>1
<1> QED  BY <1>3, <1>5, <1>6, <1>7, <1>8, <1>9 DEF DeviceInv

LEMMA StartFlushInv ==
  ASSUME IInv, NEW t \in Tabs, NEW force, StartFlush(t, force)
  PROVE  TypeOK' /\ Quiet /\ DeviceInv'
<1> DEFINE f == [phase |-> "sent", rows |-> outbox]
<1>1. /\ flight' = [flight EXCEPT ![t] = f] /\ outbox # <<>>
      /\ UNCHANGED <<request, asking, outbox, recorded, meta, acks, posts,
                     server, uploaded, open, budget>>
  BY DEF StartFlush, device, world
<1>2. /\ f \in [phase : Phase, rows : Seq(Commands)]
      /\ f.phase = "sent" /\ f.rows = outbox
      /\ acks \in SUBSET Refunds /\ posts \in SUBSET (Commands \cup Calls)
      /\ outbox \in Seq(Commands) /\ meta \in {"ok", "failed", "parked"}
      /\ budget \in [Trouble -> Nat]
  BY DEF IInv, TypeOK, Phase
<1> HIDE DEF f
<1> QED  BY <1>1, <1>2, FlushFrame

LEMMA RefuseRowInv ==
  ASSUME IInv, NEW t \in Tabs, RefuseRow(t)
  PROVE  TypeOK' /\ Quiet /\ DeviceInv'
<1> DEFINE f == [phase |-> IF open THEN "refused" ELSE "parked",
                 rows |-> flight[t].rows]
<1>1. /\ flight[t] \in [phase : Phase, rows : Seq(Commands)]
      /\ flight[t].rows # <<>>
      /\ acks \in SUBSET Refunds /\ posts \in SUBSET (Commands \cup Calls)
      /\ outbox \in Seq(Commands) /\ meta \in {"ok", "failed", "parked"}
      /\ budget \in [Trouble -> Nat]
  BY DEF IInv, TypeOK, RefuseRow, Waiting
<1>2. /\ flight' = [flight EXCEPT ![t] = f]
      /\ UNCHANGED <<request, asking, outbox, recorded, meta, acks, posts,
                     server, uploaded, open, budget>>
  <2>1. flight' = [flight EXCEPT ![t].phase = IF open THEN "refused"
                                             ELSE "parked"]
    BY DEF RefuseRow
  <2>2. [flight[t] EXCEPT !.phase = IF open THEN "refused" ELSE "parked"] = f
    BY <1>1
  <2>3. flight' = [flight EXCEPT ![t] = f]
    BY <2>1, <2>2
  <2> QED  BY <2>3 DEF RefuseRow, device, world
<1>3. /\ f \in [phase : Phase, rows : Seq(Commands)]
      /\ f.phase \in {"refused", "parked"} /\ f.rows = flight[t].rows
  BY <1>1 DEF Phase
<1> HIDE DEF f
<1> QED  BY <1>1, <1>2, <1>3, FlushFrame

\* An ok answer was booked: its row may be acknowledged and leave the queue.
LEMMA ConfirmInv ==
  ASSUME IInv, NEW t \in Tabs, Confirm(t)
  PROVE  TypeOK' /\ Quiet /\ DeviceInv'
<1> DEFINE rows == flight[t].rows
           f == IF Len(rows) = 1 THEN Idle
                ELSE [phase |-> "sent", rows |-> Tail(rows)]
<1>1. /\ TypeOK /\ DeviceInv /\ flight[t].phase = "ok"
      /\ acks \in SUBSET Refunds /\ posts \in SUBSET (Commands \cup Calls)
      /\ outbox \in Seq(Commands) /\ budget \in [Trouble -> Nat]
  BY DEF IInv, TypeOK, Confirm
<1>2. /\ rows \in Seq(Commands) /\ rows # <<>>
      /\ Row(t) \in Commands /\ Booked(Row(t))
  BY <1>1, RowRight DEF DeviceInv, AnswersTrue
<1>3. /\ flight' = [flight EXCEPT ![t] = f]
      /\ outbox' = Without(outbox, Row(t)) /\ meta' = "ok"
      /\ acks' = acks \cup ({Row(t)} \cap Refunds)
      /\ UNCHANGED <<request, asking, recorded, posts, server, uploaded, open,
                     budget>>
  BY <1>1 DEF Confirm, world, TypeOK
<1>4. /\ Tail(rows) \in Seq(Commands)
      /\ Len(rows) # 1 => Tail(rows) # <<>>
      /\ \A c : InRows(c, Tail(rows)) => InRows(c, rows)
  BY <1>2, TailRight
<1>5. /\ f \in [phase : Phase, rows : Seq(Commands)]
      /\ f.phase # "ok" /\ (f.phase = "idle" <=> f.rows = <<>>)
      /\ \A c : InRows(c, f.rows) => InRows(c, flight[t].rows)
  <2>1. CASE Len(rows) = 1
    BY <2>1 DEF Idle, Phase, InRows
  <2>2. CASE Len(rows) # 1
    BY <1>4, <2>2 DEF Phase
  <2> QED  BY <2>1, <2>2
<1>6. /\ outbox' \in Seq(Commands)
      /\ \A c : InRows(c, outbox') => InRows(c, outbox)
      /\ \A c : InRows(c, outbox) /\ c # Row(t) => InRows(c, outbox')
  BY <1>1, <1>3, WithoutRight
<1>7. \A c \in Commands : InRows(c, outbox) => InRows(c, outbox') \/ Booked(c)
  BY <1>2, <1>6
<1>8. acks' \in SUBSET Refunds /\ \A r \in acks' \ acks : Booked(r)
  BY <1>1, <1>2, <1>3
<1> HIDE DEF f, rows
<1> QED  BY <1>1, <1>3, <1>5, <1>6, <1>7, <1>8, FlushFrame

\* Halt and Lose end the flight; only an ok answer is acknowledged, only the
\* row in hand may still arrive.
LEMMA EndInv ==
  ASSUME IInv, NEW t \in Tabs, Halt(t) \/ Lose(t)
  PROVE  TypeOK' /\ Quiet /\ DeviceInv'
<1>1. /\ TypeOK /\ DeviceInv /\ flight[t].phase # "idle"
      /\ acks \in SUBSET Refunds /\ posts \in SUBSET (Commands \cup Calls)
      /\ outbox \in Seq(Commands) /\ budget \in [Trouble -> Nat]
      /\ meta \in {"ok", "failed", "parked"}
  BY DEF IInv, TypeOK, Halt, Lose
<1>2. /\ Row(t) \in Commands /\ request[Row(t)] # Unasked
      /\ flight[t].phase = "ok" => Booked(Row(t))
  BY <1>1, RowRight DEF DeviceInv, AnswersTrue
<1>3. /\ flight' = [flight EXCEPT ![t] = Idle]
      /\ UNCHANGED <<request, asking, outbox, recorded, server, uploaded, open>>
  BY DEF Halt, Lose, device, world
<1>4. /\ Idle \in [phase : Phase, rows : Seq(Commands)]
      /\ Idle.phase = "idle" /\ Idle.rows = <<>>
      /\ \A c : ~InRows(c, Idle.rows)
  BY DEF Idle, Phase, InRows
<1>5. budget' \in [Trouble -> Nat] /\ meta' \in {"ok", "failed", "parked"}
  BY <1>1 DEF Halt, Lose, Spend, world, Trouble
<1>6. acks' \in SUBSET Refunds /\ \A r \in acks' \ acks : Booked(r)
  BY <1>1, <1>2 DEF Halt, Lose
<1>7. /\ posts' \in SUBSET (Commands \cup Calls)
      /\ \A c \in posts' \ posts : request[c] # Unasked
  BY <1>1, <1>2 DEF Halt, Lose
<1> HIDE DEF Idle
<1> QED  BY <1>1, <1>3, <1>4, <1>5, <1>6, <1>7, FlushFrame

-----------------------------------------------------------------------------
(* Steps of the server and of the world *)

\* A served command is booked; what was asked for and waits stays so.
LEMMA ServedInv ==
  ASSUME IInv, NEW c \in Commands \cup Calls, Served(c),
         flight' \in [Tabs -> [phase : Phase, rows : Seq(Commands)]],
         \A t \in Tabs : /\ flight'[t].rows = flight[t].rows
                         /\ flight'[t].phase = "idle" <=> flight[t].phase = "idle"
                         /\ \/ flight'[t].phase = flight[t].phase
                            \/ flight[t].phase # "idle" /\ Row(t) = c,
         posts' \subseteq posts,
         recorded' \in {recorded, recorded \cup ({c} \cap Calls)},
         UNCHANGED <<asking, outbox, meta, acks, world>>
  PROVE  IInv'
<1>1. /\ TypeOK /\ BooksInv /\ DeviceInv /\ Known /\ request' = request
      /\ Approved(c)
      /\ UNCHANGED <<asking, outbox, meta, acks, uploaded, open, budget>>
  BY DEF IInv, DeviceInv, Served, world, Admits
<1>2. /\ BooksGrow /\ RequestsKept /\ Booked(c)'
      /\ books' \in Seq(Entry)
      /\ returned' \in [Sales -> Nat] /\ refunded' \in [Sales -> Parts]
      /\ drawer' \in [Sales -> Int]
      /\ grant' \in [Privileged -> {"none", "fresh", "used", "dead"}]
      /\ audit' \in SUBSET Privileged
      /\ \A p \in Privileged \ {c} : grant'[p] = grant[p]
  BY <1>1, ServedTyped
<1>3. \A d \in Commands \cup Calls : Booked(d) => Booked(d)'
  BY <1>1, <1>2, BookedStays
<1>4. TypeOK'
  <2>1. recorded' \in SUBSET Privileged /\ posts' \in SUBSET (Commands \cup Calls)
    BY <1>1 DEF TypeOK, Privileged
  <2>2. \A t \in Tabs : flight'[t].phase = "idle" <=> flight'[t].rows = <<>>
    BY <1>1 DEF TypeOK
  <2> QED  BY <1>1, <1>2, <2>1, <2>2 DEF TypeOK
<1>5. BooksInv'
  <2>1. CASE Booked(c)
    <3>1. UNCHANGED <<books, returned, refunded, drawer, uploaded>>
      BY <1>1, <2>1 DEF Served, Apply, booked
    <3>2. audit' = audit \cup ({c} \cap Privileged)
      BY DEF Served, Apply, Consume
    <3>3. AuditMatchesBooks'
      BY <1>1, <1>2, <1>3, <3>1, <3>2 DEF BooksInv, AuditMatchesBooks, Commands
    <3>4. /\ BookedOnce' /\ RefundsWithinSale' /\ RefundsAddUp'
      /\ VoidSettlesDrawer'
          /\ VoidsKnown'
      BY <1>1, <3>1 DEF BooksInv, BookedOnce, RefundsWithinSale, RefundsAddUp,
                        VoidSettlesDrawer, VoidsKnown, Voided, Entries
    <3> QED  BY <3>3, <3>4 DEF BooksInv
  <2>2. CASE ~Booked(c)
    BY <1>1, <2>2, BookRight
  <2> QED  BY <2>1, <2>2
<1>6. Known'
  <2>1. \A d \in Commands \cup Calls :
          \/ d \in asking \cup posts'
          \/ InRows(d, outbox)
          \/ \E t \in Tabs : InRows(d, flight'[t].rows)
          => request[d] # Unasked
    BY <1>1 DEF Known
  <2> QED  BY <1>1, <2>1 DEF Known
<1>7. GrantsAsked'
  <2>1. c \in Privileged => request[c] # Unasked /\ c \notin asking
    BY <1>1 DEF Approved, DeviceInv, GrantsAsked, Served
  <2> QED  BY <1>1, <1>2, <2>1 DEF DeviceInv, GrantsAsked
<1>8. ScreenTrue'
  BY <1>1, <1>2, <1>3 DEF DeviceInv, ScreenTrue, TypeOK, Privileged, Commands
<1>9. AnswersTrue'
  <2> SUFFICES ASSUME NEW t \in Tabs, NEW d \in Commands,
                      flight'[t].phase = "ok", Row(t)' = d
               PROVE  Booked(d)'
    BY DEF AnswersTrue
  <2>1. Row(t) = d
    BY DEF Row
  <2> QED  BY <1>1, <1>2, <1>3, <2>1 DEF DeviceInv, AnswersTrue
<1>10. KeptUntilBooked'
  <2> SUFFICES ASSUME NEW d \in Commands
               PROVE  \/ request'[d] = Unasked \/ d \in asking'
                      \/ d \in Refunds /\ grant'[d] = "none"
                      \/ InRows(d, outbox') \/ Booked(d)'
    BY DEF KeptUntilBooked, InRows
  <2>1. \/ request[d] = Unasked \/ d \in asking
        \/ d \in Refunds /\ grant[d] = "none"
        \/ InRows(d, outbox) \/ Booked(d)
    BY <1>1 DEF DeviceInv, KeptUntilBooked, InRows
  <2>2. d # c /\ d \in Refunds => grant'[d] = grant[d]
    BY <1>2 DEF Privileged
  <2> QED  BY <1>1, <1>2, <1>3, <2>1, <2>2
<1> QED  BY <1>4, <1>5, <1>6, <1>7, <1>8, <1>9, <1>10 DEF IInv, DeviceInv

LEMMA ServeRowServes ==
  ASSUME IInv, NEW t \in Tabs, ServeRow(t)
  PROVE  Row(t) \in Commands /\ Served(Row(t))
<1>1. TypeOK /\ Known /\ flight[t].phase # "idle"
  BY DEF IInv, DeviceInv, ServeRow, Waiting
<1>2. Row(t) \in Commands /\ request[Row(t)] # Unasked
  BY <1>1, RowRight
<1>3. Admits(Row(t)) /\ Apply(Row(t)) /\ UNCHANGED <<request, uploaded>>
  BY DEF ServeRow, device, world
<1> QED  BY <1>2, <1>3 DEF Served

LEMMA ServeRowInv == ASSUME IInv, NEW t \in Tabs, ServeRow(t) PROVE IInv'
<1>1. Row(t) \in Commands \cup Calls /\ Served(Row(t))
  BY ServeRowServes
<1>2. /\ flight' = [flight EXCEPT ![t].phase = "ok"]
      /\ flight[t].phase = "sent"
      /\ UNCHANGED <<asking, outbox, recorded, meta, acks, posts, world>>
  BY DEF ServeRow, Waiting, device
<1>3. /\ flight' \in [Tabs -> [phase : Phase, rows : Seq(Commands)]]
      /\ \A u \in Tabs : /\ flight'[u].rows = flight[u].rows
                         /\ flight'[u].phase = "idle" <=> flight[u].phase = "idle"
                         /\ u # t => flight'[u].phase = flight[u].phase
  BY <1>2 DEF IInv, TypeOK, Phase
<1>4. \A u \in Tabs : /\ flight'[u].rows = flight[u].rows
                      /\ flight'[u].phase = "idle" <=> flight[u].phase = "idle"
                      /\ \/ flight'[u].phase = flight[u].phase
                         \/ flight[u].phase # "idle" /\ Row(u) = Row(t)
  BY <1>2, <1>3
<1> QED  BY <1>1, <1>2, <1>3, <1>4, ServedInv

LEMMA ServePostServes ==
  ASSUME IInv, NEW c \in Commands \cup Calls, ServePost(c), open, Admits(c)
  PROVE  Served(c)
<1>1. c \in posts /\ Apply(c) /\ UNCHANGED <<request, uploaded>>
  BY DEF ServePost, world
<1>2. request[c] # Unasked
  BY <1>1 DEF IInv, DeviceInv, Known
<1> QED  BY <1>1, <1>2 DEF Served

\* A step that leaves requests, queue, flights and books alone: at most a
\* grant that was given ends, a request under way is answered.
LEMMA WorldFrame ==
  ASSUME IInv, posts' \subseteq posts,
         grant' \in [Privileged -> {"none", "fresh", "used", "dead"}],
         \A p \in Privileged : grant[p] = "none" => grant'[p] = "none",
         open' \in BOOLEAN, budget' \in [Trouble -> Nat],
         UNCHANGED <<request, asking, outbox, recorded, meta, flight, acks,
                     booked, audit, uploaded>>
  PROVE  TypeOK' /\ Quiet /\ DeviceInv'
<1>1. TypeOK /\ DeviceInv /\ UNCHANGED <<books, returned, refunded, drawer>>
  BY DEF IInv, booked
<1>2. Quiet
  BY <1>1 DEF Quiet, RequestsKept
<1>3. \A d \in Commands \cup Calls : Booked(d)' <=> Booked(d)
  BY <1>1 DEF Booked
<1>4. TypeOK'
  BY <1>1 DEF TypeOK
<1>5. Known' /\ GrantsAsked'
  BY <1>1 DEF DeviceInv, Known, GrantsAsked
<1>6. ScreenTrue'
  BY <1>1, <1>3 DEF DeviceInv, ScreenTrue, TypeOK, Privileged, Commands
<1>7. AnswersTrue'
  BY <1>1, <1>3 DEF DeviceInv, AnswersTrue, Row
<1>8. KeptUntilBooked'
  BY <1>1, <1>3 DEF DeviceInv, KeptUntilBooked, Privileged
<1> QED  BY <1>2, <1>4, <1>5, <1>6, <1>7, <1>8 DEF DeviceInv

LEMMA QuietInv == ASSUME IInv, TypeOK', Quiet, DeviceInv' PROVE IInv'
BY QuietBooks DEF IInv

LEMMA ServePostInv ==
  ASSUME IInv, NEW c \in Commands \cup Calls, ServePost(c) PROVE IInv'
<1>1. /\ posts' = posts \ {c}
      /\ UNCHANGED <<request, asking, outbox, meta, flight, acks, uploaded, open,
                     budget>>
  BY DEF ServePost, sync, world
<1>2. TypeOK
  BY DEF IInv
<1>3. CASE open /\ Admits(c)
  <2>1. Served(c)
    BY <1>3, ServePostServes
  <2>2. recorded' \in {recorded, recorded \cup ({c} \cap Calls)}
    BY <1>3 DEF ServePost
  <2>3. flight' \in [Tabs -> [phase : Phase, rows : Seq(Commands)]]
    BY <1>1, <1>2 DEF TypeOK
  <2>4. posts' \subseteq posts /\ UNCHANGED world
    BY <1>1 DEF world
  <2> QED  BY <1>1, <2>1, <2>2, <2>3, <2>4, ServedInv
<1>4. CASE ~(open /\ Admits(c))
  <2>1. UNCHANGED <<recorded, booked, grant, audit>>
    BY <1>4 DEF ServePost, server
  <2>2. TypeOK' /\ Quiet /\ DeviceInv'
    BY <1>1, <1>2, <2>1, WorldFrame DEF TypeOK
  <2> QED  BY <2>2, QuietInv
<1> QED  BY <1>3, <1>4

\* The sale comes with its cash: it was not void, the server did not have it.
LEMMA UploadSaleInv == ASSUME IInv, NEW s \in Sales, UploadSale(s) PROVE IInv'
<1>1. /\ TypeOK /\ BooksInv /\ DeviceInv /\ s \notin uploaded
      /\ uploaded' = uploaded \cup {s}
      /\ drawer' = [drawer EXCEPT ![s] = @ + CashPaid[s]]
      /\ UNCHANGED <<request, asking, outbox, recorded, meta, flight, acks,
                     posts, books, returned, refunded, grant, audit, open, budget>>
  BY DEF IInv, UploadSale, device, sync
<1>2. \A d \in Commands \cup Calls : Booked(d)' <=> Booked(d)
  BY <1>1 DEF Booked
<1>3. CashPaid[s] \in Int
  <2>1. CashPaid[s] \in 0 .. Total /\ Total \in Nat
    BY BillRight, CashAssumption
  <2> QED  BY <2>1
<1>4. TypeOK'
  <2>1. drawer' \in [Sales -> Int] /\ uploaded' \in SUBSET Sales
    BY <1>1, <1>3 DEF TypeOK
  <2> QED  BY <1>1, <2>1 DEF TypeOK
<1>5. BooksInv'
  <2>1. \A r \in Sales : Voided(r)' <=> Voided(r)
    BY <1>1 DEF Voided, Entries
  <2>2. ~Voided(s)
    BY <1>1 DEF BooksInv, VoidsKnown
  <2>3. VoidSettlesDrawer'
    BY <1>1, <2>1, <2>2 DEF BooksInv, VoidSettlesDrawer, TypeOK
  <2>4. VoidsKnown'
    BY <1>1, <2>1 DEF BooksInv, VoidsKnown
  <2>5. AuditMatchesBooks'
    BY <1>1, <1>2 DEF BooksInv, AuditMatchesBooks, Commands
  <2>6. BookedOnce' /\ RefundsWithinSale' /\ RefundsAddUp'
    BY <1>1 DEF BooksInv, BookedOnce, RefundsWithinSale, RefundsAddUp
  <2> QED  BY <2>3, <2>4, <2>5, <2>6 DEF BooksInv
<1>6. Known' /\ GrantsAsked'
  BY <1>1 DEF DeviceInv, Known, GrantsAsked
<1>7. ScreenTrue'
  BY <1>1, <1>2 DEF DeviceInv, ScreenTrue, TypeOK, Privileged, Commands
<1>8. AnswersTrue' /\ KeptUntilBooked'
  BY <1>1, <1>2 DEF DeviceInv, AnswersTrue, Row, KeptUntilBooked
<1> QED  BY <1>4, <1>5, <1>6, <1>7, <1>8 DEF IInv, DeviceInv

LEMMA WorldInv == ASSUME IInv, World PROVE IInv'
<1>1. TypeOK
  BY DEF IInv
<1>2. ASSUME NEW p \in Privileged, ExpireGrant(p) PROVE IInv'
  <2>1. /\ grant' = [grant EXCEPT ![p] = "dead"] /\ grant[p] = "fresh"
        /\ budget' \in [Trouble -> Nat]
        /\ UNCHANGED <<request, asking, outbox, recorded, meta, flight, acks,
                       posts, booked, audit, uploaded, open>>
    BY <1>1, <1>2 DEF ExpireGrant, Spend, device, sync, TypeOK, Trouble
  <2>2. TypeOK' /\ Quiet /\ DeviceInv'
    BY <1>1, <2>1, WorldFrame DEF TypeOK
  <2> QED  BY <2>2, QuietInv
<1>3. ASSUME RotatePin PROVE IInv'
  <2>1. /\ grant' = [p \in Privileged |-> IF grant[p] = "none" THEN "none"
                                          ELSE "dead"]
        /\ budget' \in [Trouble -> Nat]
        /\ UNCHANGED <<request, asking, outbox, recorded, meta, flight, acks,
                       posts, booked, audit, uploaded, open>>
    BY <1>1, <1>3 DEF RotatePin, Spend, device, sync, TypeOK, Trouble
  <2>2. TypeOK' /\ Quiet /\ DeviceInv'
    BY <1>1, <2>1, WorldFrame DEF TypeOK
  <2> QED  BY <2>2, QuietInv
<1>4. ASSUME CloseOutlet \/ OpenOutlet PROVE IInv'
  <2>1. /\ open' \in BOOLEAN /\ budget' \in [Trouble -> Nat]
        /\ UNCHANGED <<request, asking, outbox, recorded, meta, flight, acks,
                       posts, booked, grant, audit, uploaded>>
    <3>1. CASE CloseOutlet
      <4>1. open' = FALSE /\ UNCHANGED <<device, sync, posts, server, uploaded>>
        BY <3>1 DEF CloseOutlet
      <4>2. budget["closure"] > 0
            /\ budget' = [budget EXCEPT !["closure"] = @ - 1]
        BY <3>1 DEF CloseOutlet, Spend
      <4>3. budget' \in [Trouble -> Nat]
        BY <1>1, <4>2 DEF TypeOK, Trouble
      <4> QED  BY <4>1, <4>3 DEF device, sync, server
    <3>2. CASE OpenOutlet
      BY <1>1, <3>2 DEF OpenOutlet, device, sync, server, TypeOK
    <3> QED  BY <1>4, <3>1, <3>2
  <2>2. TypeOK' /\ Quiet /\ DeviceInv'
    BY <1>1, <2>1, WorldFrame DEF TypeOK
  <2> QED  BY <2>2, QuietInv
<1> QED  BY <1>2, <1>3, <1>4, UploadSaleInv DEF World

-----------------------------------------------------------------------------
(* The invariant *)

LEMMA InitInv == Init => IInv
<1> SUFFICES ASSUME Init PROVE IInv
  OBVIOUS
<1>1. /\ books = <<>> /\ outbox = <<>> /\ asking = {} /\ posts = {}
      /\ acks = {} /\ recorded = {} /\ audit = {} /\ uploaded = {}
      /\ meta = "ok" /\ open = TRUE /\ budget = Budget
      /\ flight = [t \in Tabs |-> Idle]
      /\ request = [c \in Commands \cup Calls |-> Unasked]
      /\ returned = [s \in Sales |-> 0] /\ refunded = [s \in Sales |-> Nothing]
      /\ drawer = [s \in Sales |-> 0]
      /\ grant = [p \in Privileged |-> "none"]
  BY DEF Init
<1>2. Idle.phase = "idle" /\ Idle.rows = <<>>
      /\ Idle \in [phase : Phase, rows : Seq(Commands)]
  BY DEF Idle, Phase
<1>3. TypeOK
  <2>1. Nothing \in Parts
    BY DEF Nothing, Parts
  <2> QED  BY <1>1, <1>2, <2>1, CashAssumption DEF TypeOK
<1>4. ~\E i \in DOMAIN books : TRUE
  BY <1>1
<1>5. BooksInv
  <2>1. BookedOnce /\ AuditMatchesBooks
    BY <1>1, <1>4 DEF BookedOnce, AuditMatchesBooks
  <2>2. RefundsWithinSale /\ RefundsAddUp
    <3>1. \A part \in DOMAIN Bill : Nothing[part] <= Bill[part]
      <4>1. /\ Nothing.amount = 0 /\ Nothing.discount = 0 /\ Nothing.tax = 0
            /\ Nothing.service = 0
        BY DEF Nothing
      <4> QED  BY <4>1, BillRight, CashAssumption
    <3>2. \A s \in Sales : returned[s] = 0 /\ refunded[s] = Nothing
      BY <1>1
    <3>3. 0 <= Units /\ 0 # Units /\ 0 * Price = 0
      BY CashAssumption
    <3>4. Nothing.amount = 0 - Nothing.discount + Nothing.tax + Nothing.service
      BY DEF Nothing
    <3> QED  BY <3>1, <3>2, <3>3, <3>4 DEF RefundsWithinSale, RefundsAddUp
  <2>3. \A s \in Sales : ~Voided(s)
    BY <1>4 DEF Voided, Entries
  <2> QED  BY <2>1, <2>2, <2>3 DEF BooksInv, VoidSettlesDrawer, VoidsKnown
<1>6. \A c : ~InRows(c, <<>>)
  BY DEF InRows
<1>7. Known
  BY <1>1, <1>2, <1>6 DEF Known, Commands
<1>8. GrantsAsked /\ ScreenTrue /\ AnswersTrue
  BY <1>1, <1>2 DEF GrantsAsked, ScreenTrue, AnswersTrue
<1>9. KeptUntilBooked
  BY <1>1 DEF KeptUntilBooked
<1> QED  BY <1>3, <1>5, <1>7, <1>8, <1>9 DEF IInv, DeviceInv

LEMMA StutterInv == ASSUME IInv, UNCHANGED vars PROVE IInv'
<1>1. TypeOK' /\ Quiet /\ DeviceInv'
  BY WorldFrame DEF vars, booked, IInv, TypeOK
<1> QED  BY <1>1, QuietInv

LEMMA FlushInv == ASSUME IInv, NEW t \in Tabs, Flush(t) PROVE IInv'
<1>1. ASSUME NEW force \in BOOLEAN, StartFlush(t, force) PROVE IInv'
  BY <1>1, StartFlushInv, QuietInv
<1>2. ASSUME RefuseRow(t) PROVE IInv'
  BY <1>2, RefuseRowInv, QuietInv
<1>3. ASSUME Confirm(t) PROVE IInv'
  BY <1>3, ConfirmInv, QuietInv
<1>4. ASSUME Halt(t) \/ Lose(t) PROVE IInv'
  BY <1>4, EndInv, QuietInv
<1> QED  BY <1>1, <1>2, <1>3, <1>4, ServeRowInv DEF Flush

LEMMA StepInv == IInv /\ [Next]_vars => IInv'
<1> SUFFICES ASSUME IInv, [Next]_vars PROVE IInv'
  OBVIOUS
<1>1. ASSUME Cashier PROVE IInv'
  BY <1>1, CashierInv, QuietInv
<1> QED  BY <1>1, FlushInv, ServePostInv, WorldInv, StutterInv DEF Next

\* The inductive invariant: types, books that add up and are audited, answers
\* and screens that are true, commands kept in the queue until booked.
THEOREM Invariant == Spec => []IInv
BY InitInv, StepInv, PTL DEF Spec

\* Every variable keeps its type, for any constants.
THEOREM TypeCorrect == Spec => []TypeOK
<1>1. IInv => TypeOK
  BY DEF IInv
<1> QED  BY <1>1, Invariant, PTL

\* However often a command is sent, lost or asked for again, by whatever tab,
\* it is booked at most once (applyRefund, the cash routes, the void).
THEOREM BookedOnceHolds == Spec => []BookedOnce
<1>1. IInv => BookedOnce
  BY DEF IInv, BooksInv
<1> QED  BY <1>1, Invariant, PTL

\* What a device acknowledges or shows as refunded or void is in the books.
THEOREM ScreenTrueHolds == Spec => []ScreenTrue
<1>1. IInv => ScreenTrue
  BY DEF IInv, DeviceInv
<1> QED  BY <1>1, Invariant, PTL

\* flushCashQueue drops no command that is not booked, whatever another tab
\* or the cashier queued and confirmed meanwhile.
THEOREM KeptUntilBookedHolds == Spec => []KeptUntilBooked
<1>1. IInv => KeptUntilBooked
  BY DEF IInv, DeviceInv
<1> QED  BY <1>1, Invariant, PTL

\* Refunds of a sale never exceed its line, in whatever order they arrive.
THEOREM RefundsWithinSaleHolds == Spec => []RefundsWithinSale
<1>1. IInv => RefundsWithinSale
  BY DEF IInv, BooksInv
<1> QED  BY <1>1, Invariant, PTL

\* The rounded parts of the refunds of a sale agree with their amounts, and add
\* up to the bill when everything is returned, for any prices, discounts,
\* charges and sequence of returns (applyRefund).
THEOREM RefundsAddUpHolds == Spec => []RefundsAddUp
<1>1. IInv => RefundsAddUp
  BY DEF IInv, BooksInv
<1> QED  BY <1>1, Invariant, PTL

\* A void leaves nothing of its sale in the drawer, for any cash share.
THEOREM VoidSettlesDrawerHolds == Spec => []VoidSettlesDrawer
<1>1. IInv => VoidSettlesDrawer
  BY DEF IInv, BooksInv
<1> QED  BY <1>1, Invariant, PTL

\* No privileged booking without its audit row, no spent approval without
\* its booking.
THEOREM AuditMatchesBooksHolds == Spec => []AuditMatchesBooks
<1>1. IInv => AuditMatchesBooks
  BY DEF IInv, BooksInv
<1> QED  BY <1>1, Invariant, PTL

\* No step changes what was asked for.
LEMMA RequestsRight == ASSUME IInv, [Next]_vars PROVE RequestsKept
<1>1. CASE Cashier
  BY <1>1, CashierInv DEF Quiet
<1>2. CASE request' = request
  BY <1>2 DEF RequestsKept
<1>3. ASSUME NEW t \in Tabs, Flush(t) PROVE request' = request
  BY <1>3 DEF Flush, StartFlush, ServeRow, RefuseRow, Confirm, Halt, Lose, device
<1>4. ASSUME NEW c \in Commands \cup Calls, ServePost(c) PROVE request' = request
  BY <1>4 DEF ServePost
<1>5. CASE World
  BY <1>2, <1>5 DEF World, ExpireGrant, RotatePin, UploadSale, CloseOutlet,
                    OpenOutlet, device
<1>6. CASE UNCHANGED vars
  BY <1>2, <1>6 DEF vars
<1> QED  BY <1>1, <1>2, <1>3, <1>4, <1>5, <1>6 DEF Next

\* The books change only when an admitted command is served.
LEMMA BooksWriters ==
  ASSUME IInv, [Next]_vars
  PROVE  books' = books \/ \E c \in Commands \cup Calls : Served(c)
<1>1. CASE Cashier
  BY <1>1, CashierInv DEF Quiet, booked
<1>2. ASSUME NEW t \in Tabs, Flush(t)
      PROVE  books' = books \/ \E c \in Commands \cup Calls : Served(c)
  <2>1. CASE ServeRow(t)
    BY <2>1, ServeRowServes
  <2>2. CASE ~ServeRow(t)
    BY <1>2, <2>2, StartFlushInv, RefuseRowInv, ConfirmInv, EndInv
       DEF Flush, Quiet, booked
  <2> QED  BY <2>1, <2>2
<1>3. ASSUME NEW c \in Commands \cup Calls, ServePost(c)
      PROVE  books' = books \/ Served(c)
  <2>1. CASE open /\ Admits(c)
    BY <1>3, <2>1, ServePostServes
  <2>2. CASE ~(open /\ Admits(c))
    BY <1>3, <2>2 DEF ServePost, server, booked
  <2> QED  BY <2>1, <2>2
<1>4. CASE World
  BY <1>4 DEF World, ExpireGrant, RotatePin, UploadSale, CloseOutlet, OpenOutlet,
              server, booked
<1>5. CASE UNCHANGED vars
  BY <1>5 DEF vars
<1> QED  BY <1>1, <1>2, <1>3, <1>4, <1>5 DEF Next

\* An original-method refund leaves the drawer of its sale as it is or not
\* below zero, for any prices and cash shares (applyRefund).
THEOREM OriginalNeverOverdrawsHolds == Spec => OriginalNeverOverdraws
<1>1. ASSUME IInv, [Next]_vars, NEW r \in Refunds, NEW s \in uploaded,
             request[r].event = "REFUND", ~Booked(r), Booked(r)'
      PROVE  \/ request[r].method = "CASH" \/ request[r].of # s
             \/ drawer'[s] = drawer[s] \/ drawer'[s] >= 0
  <2>1. TypeOK /\ s \in Sales /\ r \in Commands \cup Calls
    BY <1>1 DEF IInv, TypeOK, Commands
  <2>2. request[r] # Unasked
    BY <1>1 DEF Unasked
  <2>3. request'[r] = request[r]
    <3>1. RequestsKept
      BY <1>1, RequestsRight
    <3> QED  BY <2>1, <2>2, <3>1 DEF RequestsKept
  <2>4. books' # books
    BY <1>1, <2>3 DEF Booked
  <2>5. PICK c \in Commands \cup Calls : Served(c)
    BY <1>1, <2>4, BooksWriters
  <2> DEFINE e == [event |-> request[c].event, by |-> c, of |-> request[c].of]
  <2>6. ~Booked(c) /\ Book(c) /\ request[c] \in Request
    BY <2>1, <2>4, <2>5 DEF Served, Apply, booked, TypeOK
  <2>7. e \in Entry /\ books' = Append(books, e)
    BY <2>6 DEF Book, Request, Entry
  <2>8. c = r
    <3>1. PICK i \in DOMAIN books' :
            Same(request[r].event, r, request[r].of, books'[i])
      BY <1>1, <2>3 DEF Booked
    <3>2. i \notin DOMAIN books
      <4>1. ASSUME i \in DOMAIN books PROVE FALSE
        BY <1>1, <2>1, <2>7, <3>1, <4>1, EntryCases DEF Booked
      <4> QED  BY <4>1
    <3>3. books'[i] = e
      BY <2>1, <2>7, <3>2, EntryCases
    <3> QED  BY <1>1, <3>1, <3>3 DEF Same
  <2>9. drawer'[s] = drawer[s] - CashOut(r, s) /\ drawer[s] \in Int
    BY <2>1, <2>6, <2>8 DEF Book, TypeOK
  <2>10. \/ request[r].method = "CASH" \/ CashOut(r, s) = 0
         \/ drawer[s] - CashOut(r, s) >= 0
    BY <1>1, <2>1, <2>2, <2>5, <2>6, <2>8, CashOutRight DEF Served
  <2> QED  BY <2>9, <2>10
<1>2. IInv /\ [Next]_vars =>
        [\A r \in Refunds, s \in uploaded :
           (request[r].event = "REFUND" /\ ~Booked(r) /\ Booked(r)')
             => \/ request[r].method = "CASH" \/ request[r].of # s
                \/ drawer'[s] = drawer[s] \/ drawer'[s] >= 0]_vars
  BY <1>1
<1> QED  BY <1>2, Invariant, PTL DEF Spec, OriginalNeverOverdraws
=============================================================================
