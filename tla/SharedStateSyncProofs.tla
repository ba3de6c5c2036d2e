------------------------ MODULE SharedStateSyncProofs ------------------------
(***************************************************************************)
(* Proofs about SharedStateSync: for any devices, records and values, and  *)
(* whatever requests are lost or late, the copies are versions the server  *)
(* really had, no write lands over a value its author never saw, and the   *)
(* outbox gives up nothing the server has not taken.                       *)
(***************************************************************************)
EXTENDS SharedStateSync, SequenceTheorems, TLAPS

Op == Operation \cup {NoOperation}
Held == {"none", "conflict", "blocked"}

\* The value the history h gave a row at revision n.
At(h, n) == IF n = 0 THEN NoValue ELSE h[n]

TrueIn(h, row) == row.revision <= Len(h) /\ row.value = At(h, row.revision)

BasedIn(h, op) == Carries(op) => op.base <= Len(h) /\ op.over = At(h, op.base)

AnswerIn(h, op, answer) == answer.result = "version" =>
  /\ Carries(op)
  /\ answer.revision <= Len(h)
  /\ answer.revision > op.base
  /\ h[answer.revision] = op.value

\* An operation in flight that is still "mine" is the one in the outbox, or a
\* refresh settled it meanwhile; it is not held back.
MineIn(mine, sent, op, held) ==
  mine => held = "none" /\ (op = NoOperation \/ op = sent)

Copies == \A d \in Devices, r \in Records : TrueIn(history[r], remote[d][r])
Snapshots == \A d \in Devices, r \in Records : TrueIn(history[r], poll[d].rows[r])
Outboxes == \A d \in Devices, r \in Records : BasedIn(history[r], pending[d][r])
Posts == \A d \in Devices, r \in Records : BasedIn(history[r], post[d].ops[r])
Lates == \A ops \in late, r \in Records : BasedIn(history[r], ops[r])
Answers == \A d \in Devices, r \in Records :
  AnswerIn(history[r], post[d].ops[r], post[d].answers[r])
Mine == \A d \in Devices, r \in Records :
  MineIn(r \in post[d].mine, post[d].ops[r], pending[d][r], conflicts[d][r])

Truth == Copies /\ Snapshots /\ Outboxes /\ Posts /\ Lates /\ Answers /\ Mine

IInv == TypeOK /\ Truth

-----------------------------------------------------------------------------
(* Types *)

LEMMA Shapes ==
  /\ NoOperation \in Op /\ NoOperations \in Operations
  /\ NoRow \in Row /\ NoCopy \in [Records -> Row]
  /\ NoPost \in Post /\ NoPoll \in Poll
  /\ Operations = [Records -> Op]
<1>1. NoOperation \in Op /\ Operations = [Records -> Op]
  BY DEF Op, Operations
<1>2. NoOperations \in Operations
  BY <1>1 DEF NoOperations
<1>3. NoRow \in Row /\ NoCopy \in [Records -> Row]
  BY DEF NoRow, NoCopy, Row
<1>4. NoAnswers \in [Records -> Answer]
  BY DEF NoAnswers, Answer
<1>5. NoPost \in Post
  BY <1>2, <1>4 DEF NoPost, Post
<1>6. NoPoll \in Poll
  BY <1>3 DEF NoPoll, Poll
<1> QED  BY <1>1, <1>2, <1>3, <1>5, <1>6

\* The fields of an operation, a row, an answer and a flush.
LEMMA OpFields ==
  ASSUME NEW op \in Op
  PROVE  /\ op.base \in Nat /\ op.value \in Values \cup {NoValue}
         /\ op.over \in Values \cup {NoValue}
         /\ Carries(op) => op \in Operation /\ op.value \in Values
<1> USE ValuesAssumption
<1> QED  BY DEF Op, Operation, NoOperation, Carries

\* A request is well typed and carries operations of the outbox.
LEMMA RequestRight ==
  ASSUME NEW ops \in Operations, NEW held \in [Records -> Held]
  PROVE  /\ Request(ops, held) \in Post
         /\ \A r \in Records :
              /\ Request(ops, held).ops[r] \in {ops[r], NoOperation}
              /\ r \in Request(ops, held).mine =>
                   held[r] = "none" /\ Request(ops, held).ops[r] = ops[r]
              /\ Request(ops, held).answers[r].result = "none"
<1> DEFINE sent == [r \in Records |->
                      IF r \in Sendable(ops, held) THEN ops[r] ELSE NoOperation]
<1>1. sent \in Operations
  BY Shapes
<1>2. Sendable(ops, held) \in SUBSET Records
  BY DEF Sendable
<1>3. NoAnswers \in [Records -> Answer]
  BY DEF NoAnswers, Answer
<1>4. Request(ops, held) = [phase |-> "sent", ops |-> sent,
                            mine |-> Sendable(ops, held), answers |-> NoAnswers]
  BY DEF Request
<1>5. Request(ops, held) \in Post
  BY <1>1, <1>2, <1>3, <1>4 DEF Post
<1>6. ASSUME NEW r \in Records
      PROVE  /\ sent[r] \in {ops[r], NoOperation}
             /\ r \in Sendable(ops, held) => held[r] = "none" /\ sent[r] = ops[r]
             /\ NoAnswers[r].result = "none"
  BY DEF Sendable, NoAnswers
<1> QED  BY <1>4, <1>5, <1>6

\* The server's answer is well typed.
LEMMA AnswerType ==
  ASSUME TypeOK, NEW op \in Op, NEW r \in Records
  PROVE  AnswerTo(op, r) \in Answer
<1>1. Revision(r) \in Nat
  BY DEF TypeOK, Revision
<1>2. CASE ~Carries(op)
  BY <1>2 DEF AnswerTo, Answer, Applies, Replays
<1>3. CASE Carries(op) /\ Refused(r)
  BY <1>3 DEF AnswerTo, Answer, Applies, Replays
<1>4. CASE Applies(op, r)
  <2>1. AnswerTo(op, r) = [result |-> "version", revision |-> Revision(r) + 1]
    BY <1>4 DEF AnswerTo, Applies, Replays
  <2> QED  BY <1>1, <2>1 DEF Answer
<1>5. CASE Replays(op, r)
  <2>1. AnswerTo(op, r) = [result |-> "version", revision |-> Revision(r)]
    BY <1>5 DEF AnswerTo, Applies, Replays
  <2> QED  BY <1>1, <2>1 DEF Answer
<1>6. CASE Carries(op) /\ ~Refused(r) /\ ~Applies(op, r) /\ ~Replays(op, r)
  BY <1>6 DEF AnswerTo, Answer
<1> QED  BY <1>2, <1>3, <1>4, <1>5, <1>6

\* What StartFlush does to the flush of its device.
LEMMA StartFlushType ==
  ASSUME TypeOK, NEW d \in Devices, NEW ops \in Operations,
         NEW held \in [Records -> Held], StartFlush(d, ops, held)
  PROVE  /\ post' \in [Devices -> Post]
         /\ \A e \in Devices : e # d => post'[e] = post[e]
         /\ post'[d] = post[d] \/ post'[d] = Request(ops, held)
<1>1. Request(ops, held) \in Post
  BY RequestRight
<1> QED  BY <1>1 DEF TypeOK, StartFlush

\* What the answer to a flush leaves is well typed.
LEMMA AckType ==
  ASSUME TypeOK, NEW d \in Devices
  PROVE  /\ AckRemote(d) \in [Records -> Row]
         /\ AckPending(d) \in Operations
         /\ AckConflicts(d) \in [Records -> Held]
<1>1. post[d] \in Post /\ pending[d] \in Operations /\ remote[d] \in [Records -> Row]
      /\ conflicts[d] \in [Records -> Held]
  BY DEF TypeOK, Held
<1> DEFINE sent == post[d].ops  answer == post[d].answers
<1>2. sent \in Operations /\ answer \in [Records -> Answer]
  BY <1>1 DEF Post
<1> HIDE DEF sent, answer
<1>3. ASSUME NEW r \in Records
      PROVE  /\ AckRemote(d)[r] \in Row
             /\ AckPending(d)[r] \in Op
             /\ AckConflicts(d)[r] \in Held
  <2>1. sent[r] \in Op /\ pending[d][r] \in Op /\ answer[r] \in Answer
    BY <1>1, <1>2, <1>3, Shapes
  <2>2. sent[r].value \in Values \cup {NoValue} /\ answer[r].revision \in Nat
    BY <2>1, OpFields DEF Answer
  <2>3. AckRemote(d)[r] \in Row
    BY <1>1, <1>3, <2>2 DEF AckRemote, Row, sent, answer
  <2>4. ASSUME Queued(d, r)
        PROVE  [pending[d][r] EXCEPT !.base = answer[r].revision,
                                     !.over = sent[r].value] \in Op
    <3>1. pending[d][r] \in Operation
      BY <2>1, <2>4, OpFields DEF Queued
    <3> QED  BY <2>2, <3>1 DEF Operation, Op
  <2>5. AckPending(d)[r] \in Op
    BY <1>3, <2>1, <2>4, Shapes DEF AckPending, sent, answer
  <2>6. answer[r].result \in {"none", "version", "conflict", "blocked"}
    BY <2>1 DEF Answer
  <2>7. AckConflicts(d)[r] \in Held
    <3>0. conflicts[d][r] \in Held
      BY <1>1, <1>3
    <3>1. CASE answer[r].result = "version"
      BY <1>3, <3>1 DEF AckConflicts, Held, answer
    <3>2. CASE answer[r].result = "conflict"
      BY <1>3, <3>2 DEF AckConflicts, Held, answer
    <3>3. CASE answer[r].result = "blocked" /\ Queued(d, r)
      BY <1>3, <3>3 DEF AckConflicts, Held, answer
    <3>4. CASE /\ answer[r].result \notin {"version", "conflict"}
               /\ ~(answer[r].result = "blocked" /\ Queued(d, r))
      BY <1>3, <3>0, <3>4 DEF AckConflicts, answer
    <3> QED  BY <3>1, <3>2, <3>3, <3>4
  <2> QED  BY <2>3, <2>5, <2>7
<1> QED  BY <1>3, Shapes DEF AckRemote, AckPending, AckConflicts

\* What a snapshot leaves in the outbox is well typed.
LEMMA UnsettledType ==
  ASSUME TypeOK, NEW d \in Devices
  PROVE  /\ Unsettled(d) \in Operations
         /\ StillHeld(d) \in [Records -> Held]
<1>1. pending[d] \in [Records -> Op] /\ conflicts[d] \in [Records -> Held]
  BY Shapes DEF TypeOK, Held
<1>2. Unsettled(d) \in [Records -> Op]
  BY <1>1, Shapes DEF Unsettled
<1>3. StillHeld(d) \in [Records -> Held]
  BY <1>1 DEF StillHeld, Held
<1> QED  BY <1>2, <1>3, Shapes

\* A write appends to some histories, or to none when the request is refused.
LEMMA WriteType ==
  ASSUME TypeOK, NEW ops \in Operations, Write(ops)
  PROVE  /\ history' \in [Records -> Seq(Values)]
         /\ \A r \in Records :
              \/ history'[r] = history[r] /\ (Servable(ops) => ~Applies(ops[r], r))
              \/ /\ Applies(ops[r], r)
                 /\ ops[r].value \in Values
                 /\ history'[r] = Append(history[r], ops[r].value)
<1>1. ASSUME NEW r \in Records, Applies(ops[r], r)
      PROVE  ops[r].value \in Values
  <2>1. ops[r] \in Op
    BY <1>1, Shapes
  <2> QED  BY <1>1, <2>1, OpFields DEF Applies
<1> QED  BY <1>1 DEF Write, TypeOK

LEMMA AskedType ==
  ASSUME TypeOK, NEW d \in Devices
  PROVE  Asked(d) \in Poll
BY Shapes DEF TypeOK, Asked, Poll

LEMMA AbandonType ==
  ASSUME TypeOK, NEW d \in Devices, Abandon(d)
  PROVE  /\ late' \subseteq Operations
         /\ late' \subseteq late \cup {post[d].ops}
<1>1. post[d].ops \in Operations
  BY DEF TypeOK, Post
<1> QED  BY <1>1 DEF TypeOK, Abandon

LEMMA EventfulType ==
  ASSUME TypeOK, NEW d \in Devices, Eventful(d)
  PROVE  events' \in [Devices -> Nat]
BY DEF TypeOK, Eventful

LEMMA TypeInit == Init => TypeOK
BY Shapes, ValuesAssumption DEF Init, TypeOK, Held

\* Every step keeps the types.
LEMMA TypeStep == TypeOK /\ [Next]_vars => TypeOK'
<1> SUFFICES ASSUME TypeOK, [Next]_vars PROVE TypeOK'
  OBVIOUS
<1> USE DEF serverVars, outboxVars, copyVars
<1>1. ASSUME NEW d \in Devices, ServePost(d) PROVE TypeOK'
  <2>1. post[d] \in Post /\ post[d].ops \in Operations
    BY <1>1 DEF TypeOK, Post
  <2>2. [r \in Records |-> AnswerTo(post[d].ops[r], r)] \in [Records -> Answer]
    BY <2>1, AnswerType, Shapes
  <2>3. post' \in [Devices -> Post]
    BY <1>1, <2>1, <2>2 DEF TypeOK, ServePost, Post
  <2>4. history' \in [Records -> Seq(Values)]
    BY <1>1, <2>1, WriteType DEF ServePost
  <2> QED  BY <1>1, <2>3, <2>4 DEF TypeOK, ServePost
<1>2. ASSUME NEW ops \in late, ServeLate(ops) PROVE TypeOK'
  <2>1. ops \in Operations
    BY <1>2 DEF TypeOK
  <2>2. history' \in [Records -> Seq(Values)]
    BY <1>2, <2>1, WriteType DEF ServeLate
  <2> QED  BY <1>2, <2>2 DEF TypeOK, ServeLate
<1>3. ASSUME NEW d \in Devices, ServePoll(d) PROVE TypeOK'
  <2>1. \A r \in Records : Revision(r) \in Nat /\ Current(r) \in Values \cup {NoValue}
    BY DEF TypeOK, Revision, Current, ValueAt
  <2>2. Rows \in [Records -> Row]
    BY <2>1 DEF Rows, Row
  <2>3. poll[d] \in Poll
    BY DEF TypeOK
  <2>4. poll' \in [Devices -> Poll]
    BY <1>3, <2>2, <2>3 DEF TypeOK, Poll, ServePoll
  <2> QED  BY <1>3, <2>4 DEF TypeOK, ServePoll
<1>4. ASSUME ChangeAccess PROVE TypeOK'
  BY <1>4 DEF TypeOK, ChangeAccess
<1>5. ASSUME NEW d \in Devices, NEW r \in Records, NEW v \in Values, Edit(d, r, v)
      PROVE  TypeOK'
  <2>1. pending[d] \in [Records -> Op] /\ pending[d][r] \in Op
    BY Shapes DEF TypeOK
  <2>2. remote[d][r].revision \in Nat /\ remote[d][r].value \in Values \cup {NoValue}
    BY DEF TypeOK, Row
  <2>3. CASE Queued(d, r)
    <3>1. pending[d][r] \in Operation
      BY <2>1, <2>3, OpFields DEF Queued
    <3>2. [pending[d][r] EXCEPT !.value = v] \in Op
      BY <3>1 DEF Op, Operation
    <3>3. pending' \in [Devices -> Operations]
      BY <1>5, <2>1, <2>3, <3>2, Shapes DEF TypeOK, Edit
    <3> QED  BY <1>5, <3>3, EventfulType DEF TypeOK, Edit, Post
  <2>4. CASE ~Queued(d, r)
    <3>1. [base |-> remote[d][r].revision, value |-> v,
           over |-> remote[d][r].value] \in Op
      BY <2>2 DEF Op, Operation
    <3>2. pending' \in [Devices -> Operations]
      BY <1>5, <2>1, <2>4, <3>1, Shapes DEF TypeOK, Edit
    <3> QED  BY <1>5, <3>2, EventfulType DEF TypeOK, Edit, Post
  <2> QED  BY <2>3, <2>4
<1>6. ASSUME NEW d \in Devices, Flush(d) PROVE TypeOK'
  <2>1. pending[d] \in Operations /\ conflicts[d] \in [Records -> Held]
    BY DEF TypeOK, Held
  <2> QED  BY <1>6, <2>1, StartFlushType DEF TypeOK, Flush
<1>7. ASSUME NEW d \in Devices, FlushFails(d) PROVE TypeOK'
  BY <1>7, AbandonType, EventfulType, AskedType, Shapes
     DEF TypeOK, FlushFails, RefreshIfHeld
<1>17. ASSUME NEW d \in Devices, FlushRefused(d) PROVE TypeOK'
  BY <1>17, AskedType, Shapes DEF TypeOK, FlushRefused, RefreshIfHeld
<1>8. ASSUME NEW d \in Devices, Ack(d) PROVE TypeOK'
  <2>1. poll' \in [Devices -> Poll]
    BY <1>8, AskedType DEF TypeOK, Ack, RefreshIfHeld
  <2>2. post' \in [Devices -> Post]
    BY <1>8, Shapes DEF TypeOK, Ack
  <2>3. /\ remote' \in [Devices -> [Records -> Row]]
        /\ pending' \in [Devices -> Operations]
        /\ conflicts' \in [Devices -> [Records -> Held]]
    BY <1>8, AckType DEF TypeOK, Ack, Held
  <2> QED  BY <1>8, <2>1, <2>2, <2>3 DEF TypeOK, Ack, Held
<1>9. ASSUME NEW d \in Devices, Refresh(d) PROVE TypeOK'
  BY <1>9, AskedType DEF TypeOK, Refresh
<1>10. ASSUME NEW d \in Devices, Resume(d) PROVE TypeOK'
  BY <1>10, AskedType DEF TypeOK, Resume
<1>11. ASSUME NEW d \in Devices, PollFails(d) PROVE TypeOK'
  BY <1>11, Shapes DEF TypeOK, PollFails
<1>12. ASSUME NEW d \in Devices, ReceiveUnchanged(d) PROVE TypeOK'
  <2>1. pending[d] \in Operations /\ conflicts[d] \in [Records -> Held]
    BY DEF TypeOK, Held
  <2>2. post' \in [Devices -> Post]
    BY <1>12, <2>1, StartFlushType DEF ReceiveUnchanged
  <2> QED  BY <1>12, <2>2, Shapes DEF TypeOK, ReceiveUnchanged
<1>13. ASSUME NEW d \in Devices, ReceiveSnapshot(d) PROVE TypeOK'
  <2>1. Unsettled(d) \in Operations /\ StillHeld(d) \in [Records -> Held]
    BY UnsettledType
  <2>2. post' \in [Devices -> Post]
    BY <1>13, <2>1, StartFlushType DEF ReceiveSnapshot
  <2>3. poll[d].rows \in [Records -> Row]
    BY DEF TypeOK, Poll
  <2>4. [r \in Records |-> poll[d].rows[r].revision] \in Fingerprint
    BY <2>3 DEF Fingerprint, Row
  <2>5. poll' \in [Devices -> Poll]
    BY <1>13, Shapes DEF TypeOK, ReceiveSnapshot
  <2>6. /\ remote' \in [Devices -> [Records -> Row]]
        /\ pending' \in [Devices -> Operations]
        /\ conflicts' \in [Devices -> [Records -> Held]]
    BY <1>13, <2>1, <2>3 DEF TypeOK, ReceiveSnapshot, Held
  <2>7. ready' \in [Devices -> BOOLEAN]
        /\ known' \in [Devices -> Fingerprint \cup {NoFingerprint}]
    BY <1>13, <2>4 DEF TypeOK, ReceiveSnapshot
  <2> QED  BY <1>13, <2>2, <2>5, <2>6, <2>7 DEF TypeOK, ReceiveSnapshot, Held
<1>14. ASSUME NEW d \in Devices, NEW r \in Records, NEW keep \in {"server", "local"},
              Resolve(d, r, keep)
       PROVE  TypeOK'
  <2>1. pending[d] \in [Records -> Op] /\ pending[d][r] \in Op
    BY Shapes DEF TypeOK
  <2>2. pending[d][r] \in Operation
    BY <1>14, <2>1, OpFields DEF Resolve, Queued
  <2>3. remote[d][r].revision \in Nat /\ remote[d][r].value \in Values \cup {NoValue}
    BY DEF TypeOK, Row
  <2>4. [pending[d][r] EXCEPT !.base = remote[d][r].revision,
                              !.over = remote[d][r].value] \in Op
    BY <2>2, <2>3 DEF Op, Operation
  <2>5. pending' \in [Devices -> Operations] /\ pending'[d] \in Operations
    BY <1>14, <2>1, <2>4, Shapes DEF TypeOK, Resolve
  <2>6. conflicts' \in [Devices -> [Records -> Held]]
    BY <1>14 DEF TypeOK, Resolve, Held
  <2>7. post' \in [Devices -> Post]
    BY <1>14, <2>5, <2>6, StartFlushType DEF Resolve
  <2> QED  BY <1>14, <2>5, <2>6, <2>7 DEF TypeOK, Resolve, Held
<1>15. ASSUME NEW d \in Devices, NEW cached \in BOOLEAN, Reload(d, cached)
       PROVE  TypeOK'
  <2>1. late' \subseteq Operations /\ events' \in [Devices -> Nat]
    BY <1>15, AbandonType, EventfulType DEF Reload
  <2>2. /\ remote' \in [Devices -> [Records -> Row]]
        /\ ready' \in [Devices -> BOOLEAN]
        /\ known' \in [Devices -> Fingerprint \cup {NoFingerprint}]
    BY <1>15, Shapes DEF TypeOK, Reload
  <2>3. conflicts' \in [Devices -> [Records -> Held]]
    BY <1>15 DEF TypeOK, Reload, Held
  <2>4. post' \in [Devices -> Post] /\ poll' \in [Devices -> Poll]
    BY <1>15, Shapes DEF TypeOK, Reload
  <2> QED  BY <1>15, <2>1, <2>2, <2>3, <2>4 DEF TypeOK, Reload, Held
<1>16. CASE UNCHANGED vars
  BY <1>16 DEF TypeOK, vars
<1> QED  BY <1>1, <1>2, <1>3, <1>4, <1>5, <1>6, <1>7, <1>8, <1>9, <1>10, <1>11,
            <1>12, <1>13, <1>14, <1>15, <1>16, <1>17 DEF Next, User, Sync, Server

-----------------------------------------------------------------------------
(* What is known of the server's rows *)

\* A row, an operation and an answer stay true when the history grows.
LEMMA Grows ==
  ASSUME NEW h \in Seq(Values), NEW v \in Values
  PROVE  /\ Append(h, v) \in Seq(Values)
         /\ \A row \in Row : TrueIn(h, row) => TrueIn(Append(h, v), row)
         /\ \A op \in Op : BasedIn(h, op) => BasedIn(Append(h, v), op)
         /\ \A op \in Op, answer \in Answer :
              AnswerIn(h, op, answer) => AnswerIn(Append(h, v), op, answer)
<1> DEFINE g == Append(h, v)
<1>1. /\ g \in Seq(Values) /\ Len(g) = Len(h) + 1 /\ Len(h) \in Nat
      /\ \A n \in 1 .. Len(h) : g[n] = h[n]
  OBVIOUS
<1> HIDE DEF g
<1>2. ASSUME NEW n \in Nat, n <= Len(h) PROVE n <= Len(g) /\ At(g, n) = At(h, n)
  BY <1>1, <1>2 DEF At
<1>3. ASSUME NEW row \in Row, TrueIn(h, row) PROVE TrueIn(g, row)
  BY <1>2, <1>3 DEF TrueIn, Row
<1>4. ASSUME NEW op \in Op, BasedIn(h, op) PROVE BasedIn(g, op)
  BY <1>2, <1>4, OpFields DEF BasedIn
<1>5. ASSUME NEW op \in Op, NEW answer \in Answer, AnswerIn(h, op, answer)
      PROVE  AnswerIn(g, op, answer)
  <2>1. answer.revision \in Nat /\ op.base \in Nat
    BY OpFields DEF Answer
  <2> QED  BY <1>1, <1>5, <2>1 DEF AnswerIn
<1> QED  BY <1>1, <1>3, <1>4, <1>5 DEF g

\* The same for a write: each history stands or grows.
LEMMA WriteKeeps ==
  ASSUME TypeOK, NEW ops \in Operations, Write(ops), NEW r \in Records
  PROVE  /\ \A row \in Row : TrueIn(history[r], row) => TrueIn(history'[r], row)
         /\ \A op \in Op : BasedIn(history[r], op) => BasedIn(history'[r], op)
         /\ \A op \in Op, answer \in Answer :
              AnswerIn(history[r], op, answer) => AnswerIn(history'[r], op, answer)
<1>1. history[r] \in Seq(Values)
  BY DEF TypeOK
<1>2. CASE history'[r] = history[r]
  BY <1>2
<1>3. CASE ops[r].value \in Values /\ history'[r] = Append(history[r], ops[r].value)
  BY <1>1, <1>3, Grows
<1> QED  BY <1>2, <1>3, WriteType

\* What a write leaves alone, and what it does to what devices and requests know.
LEMMA WriteTruth ==
  ASSUME TypeOK, Truth, NEW ops \in Operations, Write(ops)
  PROVE  /\ \A d \in Devices, r \in Records :
              /\ TrueIn(history'[r], remote[d][r])
              /\ TrueIn(history'[r], poll[d].rows[r])
              /\ BasedIn(history'[r], pending[d][r])
              /\ BasedIn(history'[r], post[d].ops[r])
              /\ AnswerIn(history'[r], post[d].ops[r], post[d].answers[r])
         /\ \A sent \in late, r \in Records : BasedIn(history'[r], sent[r])
<1>1. ASSUME NEW d \in Devices, NEW r \in Records
      PROVE  /\ TrueIn(history'[r], remote[d][r])
             /\ TrueIn(history'[r], poll[d].rows[r])
             /\ BasedIn(history'[r], pending[d][r])
             /\ BasedIn(history'[r], post[d].ops[r])
             /\ AnswerIn(history'[r], post[d].ops[r], post[d].answers[r])
  <2>1. /\ remote[d][r] \in Row /\ poll[d].rows[r] \in Row
        /\ pending[d][r] \in Op /\ post[d].ops[r] \in Op
        /\ post[d].answers[r] \in Answer
    BY Shapes DEF TypeOK, Poll, Post
  <2>2. /\ TrueIn(history[r], remote[d][r])
        /\ TrueIn(history[r], poll[d].rows[r])
        /\ BasedIn(history[r], pending[d][r])
        /\ BasedIn(history[r], post[d].ops[r])
        /\ AnswerIn(history[r], post[d].ops[r], post[d].answers[r])
    BY DEF Truth, Copies, Snapshots, Outboxes, Posts, Answers
  <2> QED  BY <2>1, <2>2, WriteKeeps
<1>2. ASSUME NEW sent \in late, NEW r \in Records PROVE BasedIn(history'[r], sent[r])
  <2>1. sent[r] \in Op
    BY Shapes DEF TypeOK
  <2>2. BasedIn(history[r], sent[r])
    BY DEF Truth, Lates
  <2> QED  BY <2>1, <2>2, WriteKeeps
<1> QED  BY <1>1, <1>2

\* The server's answer to an operation is true of the history it leaves.
LEMMA AnswerTrue ==
  ASSUME TypeOK, NEW ops \in Operations, Servable(ops), Write(ops), NEW r \in Records,
         BasedIn(history[r], ops[r])
  PROVE  AnswerIn(history'[r], ops[r], AnswerTo(ops[r], r))
<1> DEFINE op == ops[r]
<1>1. op \in Op /\ history[r] \in Seq(Values)
  BY Shapes DEF TypeOK
<1>2. op.base \in Nat /\ (Carries(op) => op.value \in Values)
  BY <1>1, OpFields
<1>3. BasedIn(history[r], op)
  OBVIOUS
<1>4. \/ history'[r] = history[r] /\ ~Applies(op, r)
      \/ Applies(op, r) /\ history'[r] = Append(history[r], op.value)
  BY WriteType
<1> HIDE DEF op
<1>5. CASE Applies(op, r)
  <2>1. AnswerTo(op, r) = [result |-> "version", revision |-> Revision(r) + 1]
    BY <1>5 DEF AnswerTo, Applies, Replays
  <2>2. Carries(op) /\ op.base = Revision(r) /\ op.value \in Values
    BY <1>2, <1>5 DEF Applies
  <2>3. Len(history'[r]) = Revision(r) + 1 /\ history'[r][Revision(r) + 1] = op.value
    BY <1>1, <1>4, <1>5, <2>2 DEF Revision
  <2> QED  BY <1>2, <2>1, <2>2, <2>3 DEF AnswerIn, op
<1>6. CASE Replays(op, r)
  <2>1. AnswerTo(op, r) = [result |-> "version", revision |-> Revision(r)]
    BY <1>6 DEF AnswerTo, Applies, Replays
  <2>2. Carries(op) /\ op.base # Revision(r) /\ op.value = Current(r)
    BY <1>6 DEF Replays
  <2>3. history'[r] = history[r]
    BY <1>4, <2>2 DEF Applies
  <2>4. op.base < Revision(r)
    BY <1>1, <1>2, <1>3, <2>2 DEF BasedIn, Revision
  <2>5. Current(r) = history[r][Revision(r)]
    BY <1>1, <1>2, <2>4 DEF Current, ValueAt, Revision
  <2> QED  BY <1>1, <2>1, <2>2, <2>3, <2>4, <2>5 DEF AnswerIn, Revision, op
<1>7. CASE ~Applies(op, r) /\ ~Replays(op, r)
  <2>1. AnswerTo(op, r).result # "version"
    <3>1. CASE ~Carries(op)
      BY <1>7, <3>1 DEF AnswerTo, Applies, Replays
    <3>2. CASE Carries(op) /\ Refused(r)
      BY <1>7, <3>2 DEF AnswerTo, Applies, Replays
    <3>3. CASE Carries(op) /\ ~Refused(r)
      BY <1>7, <3>3 DEF AnswerTo
    <3> QED  BY <3>1, <3>2, <3>3
  <2> QED  BY <2>1 DEF AnswerIn, op
<1> QED  BY <1>5, <1>6, <1>7 DEF op

\* Nothing is known of an empty copy, outbox or flush.
LEMMA Empty ==
  ASSUME NEW r \in Records, NEW h \in Seq(Values)
  PROVE  /\ TrueIn(h, NoRow) /\ NoCopy[r] = NoRow /\ NoPoll.rows[r] = NoRow
         /\ BasedIn(h, NoOperation) /\ NoPost.ops[r] = NoOperation
         /\ NoOperations[r] = NoOperation
         /\ AnswerIn(h, NoOperation, NoPost.answers[r]) /\ NoPost.mine = {}
<1>1. Len(h) \in Nat
  OBVIOUS
<1> QED  BY <1>1 DEF TrueIn, At, NoRow, NoCopy, NoPoll, BasedIn, Carries, NoOperation,
                     NoOperations, NoPost, NoAnswers, AnswerIn

\* Starting a flush of a true outbox keeps the flushes true.
LEMMA StartFlushTruth ==
  ASSUME TypeOK, Posts, Answers, history' = history,
         NEW d \in Devices, NEW ops \in Operations, NEW held \in [Records -> Held],
         StartFlush(d, ops, held),
         \A r \in Records : BasedIn(history[r], ops[r]),
         \A r \in Records :
           MineIn(r \in post[d].mine, post[d].ops[r], ops[r], held[r])
  PROVE  /\ Posts' /\ Answers'
         /\ \A r \in Records :
              MineIn(r \in post'[d].mine, post'[d].ops[r], ops[r], held[r])
<1>1. ASSUME NEW r \in Records, post'[d] = Request(ops, held)
      PROVE  /\ BasedIn(history[r], post'[d].ops[r])
             /\ AnswerIn(history[r], post'[d].ops[r], post'[d].answers[r])
             /\ MineIn(r \in post'[d].mine, post'[d].ops[r], ops[r], held[r])
  <2>1. history[r] \in Seq(Values)
    BY DEF TypeOK
  <2>2. /\ post'[d].ops[r] \in {ops[r], NoOperation}
        /\ post'[d].answers[r].result = "none"
        /\ r \in post'[d].mine => held[r] = "none" /\ post'[d].ops[r] = ops[r]
    BY <1>1, RequestRight
  <2> QED  BY <2>1, <2>2, Empty DEF AnswerIn, MineIn
<1>2. ASSUME NEW r \in Records
      PROVE  /\ BasedIn(history[r], post'[d].ops[r])
             /\ AnswerIn(history[r], post'[d].ops[r], post'[d].answers[r])
             /\ MineIn(r \in post'[d].mine, post'[d].ops[r], ops[r], held[r])
  <2>1. CASE post'[d] = post[d]
    BY <2>1 DEF Posts, Answers
  <2> QED  BY <1>1, <2>1, StartFlushType
<1>3. \A e \in Devices : e # d => post'[e] = post[e]
  BY StartFlushType
<1>4. Posts' /\ Answers'
  BY <1>2, <1>3 DEF Posts, Answers
<1> QED  BY <1>2, <1>4

-----------------------------------------------------------------------------
(* Every step keeps the truth *)

LEMMA TruthInit == Init => Truth
<1> SUFFICES ASSUME Init PROVE Truth
  OBVIOUS
<1>1. \A r \in Records : history[r] \in Seq(Values)
  BY DEF Init
<1>2. \A d \in Devices, r \in Records :
        /\ remote[d][r] = NoRow /\ poll[d].rows[r] = NoRow
        /\ pending[d][r] = NoOperation /\ post[d] = NoPost
  BY Empty, <1>1 DEF Init
<1>3. late = {}
  BY DEF Init
<1> QED
  BY <1>1, <1>2, <1>3, Empty
     DEF Truth, Copies, Snapshots, Outboxes, Posts, Lates, Answers, Mine, MineIn

\* The server's steps: the histories grow, or a snapshot of them is taken.
LEMMA ServerStep ==
  ASSUME TypeOK, Truth,
         \/ \E d \in Devices : ServePost(d) \/ ServePoll(d)
         \/ \E ops \in late : ServeLate(ops)
         \/ ChangeAccess
  PROVE  Truth'
<1> USE DEF serverVars, outboxVars, copyVars
<1>1. ASSUME NEW d \in Devices, ServePost(d) PROVE Truth'
  <2> DEFINE ops == post[d].ops
  <2>1. /\ ops \in Operations /\ Servable(ops) /\ Write(ops)
        /\ post[d] \in Post
    BY <1>1 DEF ServePost, TypeOK, Post
  <2>2. \A e \in Devices : post'[e].ops = post[e].ops /\ post'[e].mine = post[e].mine
    BY <1>1 DEF ServePost, TypeOK, Post
  <2>3. /\ \A e \in Devices : e # d => post'[e].answers = post[e].answers
        /\ \A r \in Records : post'[d].answers[r] = AnswerTo(ops[r], r)
    BY <1>1 DEF ServePost, TypeOK, Post
  <2>4. Answers'
    <3>1. ASSUME NEW r \in Records
          PROVE  AnswerIn(history'[r], ops[r], AnswerTo(ops[r], r))
      BY <2>1, AnswerTrue DEF Truth, Posts
    <3> QED  BY <2>1, <2>2, <2>3, <3>1, WriteTruth DEF Answers
  <2>5. Copies' /\ Snapshots' /\ Outboxes' /\ Posts' /\ Lates'
    BY <1>1, <2>1, <2>2, WriteTruth
       DEF ServePost, Copies, Snapshots, Outboxes, Posts, Lates
  <2>6. Mine'
    BY <1>1, <2>2 DEF ServePost, Truth, Mine
  <2> QED  BY <2>4, <2>5, <2>6 DEF Truth
<1>2. ASSUME NEW ops \in late, ServeLate(ops) PROVE Truth'
  <2>1. ops \in Operations /\ Write(ops)
    BY <1>2 DEF ServeLate, TypeOK
  <2>2. Copies' /\ Snapshots' /\ Outboxes' /\ Posts' /\ Lates' /\ Answers'
    BY <1>2, <2>1, WriteTruth
       DEF ServeLate, Copies, Snapshots, Outboxes, Posts, Lates, Answers
  <2>3. Mine'
    BY <1>2 DEF ServeLate, Truth, Mine
  <2> QED  BY <2>2, <2>3 DEF Truth
<1>3. ASSUME NEW d \in Devices, ServePoll(d) PROVE Truth'
  <2>1. ASSUME NEW r \in Records PROVE TrueIn(history[r], Rows[r])
    <3>1. Revision(r) \in Nat
      BY DEF TypeOK, Revision
    <3> QED  BY <3>1 DEF TrueIn, At, Rows, Revision, Current, ValueAt
  <2>2. \A e \in Devices, r \in Records :
          poll'[e].rows[r] = poll[e].rows[r] \/ poll'[e].rows[r] = Rows[r]
    BY <1>3 DEF TypeOK, Poll, ServePoll
  <2>3. Snapshots'
    BY <1>3, <2>1, <2>2 DEF ServePoll, Truth, Snapshots
  <2> QED  BY <1>3, <2>3
           DEF ServePoll, Truth, Copies, Outboxes, Posts, Lates, Answers, Mine
<1>4. CASE ChangeAccess
  BY <1>4 DEF ChangeAccess, Truth, Copies, Snapshots, Outboxes, Posts, Lates,
              Answers, Mine
<1> QED  BY <1>1, <1>2, <1>3, <1>4

\* A refresh, its failure and an unchanged answer touch no row.
LEMMA PollStep ==
  ASSUME TypeOK, Truth, NEW d \in Devices,
         \/ Refresh(d) \/ PollFails(d) \/ Resume(d) \/ ReceiveUnchanged(d) \/ Flush(d)
  PROVE  Truth'
<1> USE DEF serverVars, outboxVars, copyVars
<1>1. ASSUME NEW r \in Records
      PROVE  TrueIn(history[r], Asked(d).rows[r]) /\ TrueIn(history[r], NoPoll.rows[r])
  <2>1. history[r] \in Seq(Values)
    BY DEF TypeOK
  <2> QED  BY <2>1, Empty DEF Asked
<1>2. ASSUME poll' = [poll EXCEPT ![d] = Asked(d)] \/ poll' = [poll EXCEPT ![d] = NoPoll]
             \/ poll' = poll,
             history' = history
      PROVE  Snapshots'
  BY <1>1, <1>2 DEF TypeOK, Truth, Snapshots
<1>3. CASE Refresh(d) \/ PollFails(d)
  BY <1>2, <1>3 DEF Refresh, PollFails, Truth, Copies, Outboxes, Posts, Lates,
                    Answers, Mine
<1>4. CASE Resume(d)
  <2>1. \A e \in Devices, r \in Records :
          conflicts'[e][r] = conflicts[e][r] \/ conflicts'[e][r] = "none"
    BY <1>4 DEF Resume, TypeOK
  <2>2. Mine'
    BY <1>4, <2>1 DEF Resume, Truth, Mine, MineIn
  <2> QED  BY <1>2, <1>4, <2>2
           DEF Resume, Truth, Copies, Outboxes, Posts, Lates, Answers
<1>5. CASE ReceiveUnchanged(d) \/ Flush(d)
  <2>1. /\ StartFlush(d, pending[d], conflicts[d])
        /\ UNCHANGED <<serverVars, outboxVars, copyVars>>
        /\ poll' = [poll EXCEPT ![d] = NoPoll] \/ poll' = poll
    BY <1>5 DEF ReceiveUnchanged, Flush
  <2>2. pending[d] \in Operations /\ conflicts[d] \in [Records -> Held]
    BY DEF TypeOK, Held
  <2>3. /\ \A r \in Records : BasedIn(history[r], pending[d][r])
        /\ \A r \in Records : MineIn(r \in post[d].mine, post[d].ops[r],
                                     pending[d][r], conflicts[d][r])
    BY DEF Truth, Outboxes, Mine
  <2>4. /\ Posts' /\ Answers'
        /\ \A r \in Records : MineIn(r \in post'[d].mine, post'[d].ops[r],
                                     pending[d][r], conflicts[d][r])
    BY <2>1, <2>2, <2>3, StartFlushTruth DEF Truth
  <2>5. \A e \in Devices : e # d => post'[e] = post[e]
    BY <2>1, <2>2, StartFlushType
  <2>6. Mine'
    BY <2>1, <2>4, <2>5 DEF Truth, Mine
  <2> QED  BY <1>2, <2>1, <2>4, <2>6 DEF Truth, Copies, Outboxes, Lates
<1> QED  BY <1>3, <1>4, <1>5

\* The cashier's edit is based on the copy, or keeps the base it had.
LEMMA EditStep ==
  ASSUME TypeOK, Truth, NEW d \in Devices, NEW r \in Records, NEW v \in Values,
         Edit(d, r, v)
  PROVE  Truth'
<1> USE DEF serverVars, outboxVars, copyVars
<1>1. \A e \in Devices, q \in Records :
        <<e, q>> # <<d, r>> => pending'[e][q] = pending[e][q]
  BY Shapes DEF Edit, TypeOK
<1>2. BasedIn(history[r], pending'[d][r])
  <2>1. CASE Queued(d, r)
    <3>1. pending[d][r] \in Operation
      <4>1. pending[d][r] \in Op
        BY Shapes DEF TypeOK
      <4> QED  BY <2>1, <4>1, OpFields DEF Queued
    <3>2. pending'[d][r] = [pending[d][r] EXCEPT !.value = v]
      BY <2>1, Shapes DEF Edit, TypeOK
    <3>3. pending'[d][r].base = pending[d][r].base /\ pending'[d][r].over = pending[d][r].over
      BY <3>1, <3>2 DEF Operation
    <3> QED  BY <2>1, <3>3 DEF Truth, Outboxes, BasedIn, Queued
  <2>2. CASE ~Queued(d, r)
    <3>1. pending'[d][r] = [base |-> remote[d][r].revision, value |-> v,
                            over |-> remote[d][r].value]
      BY <2>2, Shapes DEF Edit, TypeOK
    <3>2. TrueIn(history[r], remote[d][r])
      BY DEF Truth, Copies
    <3> QED  BY <3>1, <3>2 DEF BasedIn, TrueIn
  <2> QED  BY <2>1, <2>2
<1>3. Outboxes'
  BY <1>1, <1>2 DEF Edit, Truth, Outboxes
<1>4. /\ \A e \in Devices : /\ post'[e].ops = post[e].ops
                            /\ post'[e].answers = post[e].answers
                            /\ post'[e].mine \subseteq post[e].mine
      /\ r \notin post'[d].mine
  BY DEF Edit, TypeOK, Post
<1>5. Posts' /\ Answers'
  BY <1>4 DEF Edit, Truth, Posts, Answers
<1>6. Mine'
  BY <1>1, <1>4 DEF Edit, Truth, Mine, MineIn
<1> QED  BY <1>3, <1>5, <1>6 DEF Edit, Truth, Copies, Snapshots, Lates

\* A flush that fails and a reload leave the request to the server; one that is
\* refused is over.
LEMMA TroubleStep ==
  ASSUME TypeOK, Truth, NEW d \in Devices,
         FlushFails(d) \/ FlushRefused(d) \/ \E cached \in BOOLEAN : Reload(d, cached)
  PROVE  Truth'
<1> USE DEF serverVars, outboxVars, copyVars
<1>1. /\ history' = history /\ pending' = pending
      /\ post' = [post EXCEPT ![d] = NoPost]
      /\ Abandon(d) \/ late' = late
  BY DEF FlushFails, FlushRefused, Reload
<1>2. \A r \in Records : history[r] \in Seq(Values)
  BY DEF TypeOK
<1>3. Lates'
  BY <1>1, AbandonType DEF Truth, Lates, Posts
<1>4. Posts' /\ Answers'
  BY <1>1, <1>2, Empty DEF TypeOK, Truth, Posts, Answers
<1>5. \A e \in Devices, r \in Records :
        r \in post'[e].mine => post'[e] = post[e] /\ conflicts'[e] = conflicts[e]
  <2>1. \A e \in Devices : e # d => conflicts'[e] = conflicts[e]
    BY DEF FlushFails, FlushRefused, Reload, TypeOK
  <2>2. NoPost.mine = {}
    BY DEF NoPost
  <2> QED  BY <1>1, <2>1, <2>2 DEF TypeOK
<1>6. Mine'
  BY <1>1, <1>5 DEF Truth, Mine, MineIn
<1>7. Copies'
  <2>1. \A e \in Devices, r \in Records :
          remote'[e][r] = remote[e][r] \/ remote'[e][r] = NoRow
    BY <1>2, Empty DEF FlushFails, FlushRefused, Reload, TypeOK
  <2> QED  BY <1>1, <1>2, <2>1, Empty DEF Truth, Copies
<1>8. Snapshots'
  <2>1. \A e \in Devices, r \in Records :
          poll'[e].rows[r] = poll[e].rows[r] \/ poll'[e].rows[r] = NoRow
    <3>1. \/ poll' = [poll EXCEPT ![d] = Asked(d)] \/ poll' = poll
          \/ poll' = [poll EXCEPT ![d] = NoPoll]
      BY DEF FlushFails, FlushRefused, Reload, RefreshIfHeld
    <3>2. \A r \in Records : Asked(d).rows[r] = NoRow /\ NoPoll.rows[r] = NoRow
      BY <1>2, Empty DEF Asked
    <3> QED  BY <3>1, <3>2 DEF TypeOK
  <2> QED  BY <1>1, <1>2, <2>1, Empty DEF Truth, Snapshots
<1>9. Outboxes'
  BY <1>1 DEF Truth, Outboxes
<1> QED  BY <1>3, <1>4, <1>6, <1>7, <1>8, <1>9 DEF Truth

\* An acknowledged operation is the row, and the base of a newer edit.
LEMMA AckStep ==
  ASSUME TypeOK, Truth, NEW d \in Devices, Ack(d)
  PROVE  Truth'
<1> USE DEF serverVars, outboxVars, copyVars
<1> DEFINE sent == post[d].ops  answer == post[d].answers
<1>1. ASSUME NEW r \in Records
      PROVE  /\ TrueIn(history[r], AckRemote(d)[r])
             /\ BasedIn(history[r], AckPending(d)[r])
  <2>1. /\ history[r] \in Seq(Values)
        /\ pending[d][r] \in Op /\ sent[r] \in Op /\ answer[r] \in Answer
    BY Shapes DEF TypeOK, Post
  <2>2. /\ TrueIn(history[r], remote[d][r]) /\ BasedIn(history[r], pending[d][r])
        /\ AnswerIn(history[r], sent[r], answer[r])
    BY DEF Truth, Copies, Outboxes, Answers
  <2>3. CASE answer[r].result # "version"
    BY <2>2, <2>3 DEF AckRemote, AckPending
  <2>4. CASE answer[r].result = "version"
    <3>1. /\ answer[r].revision \in Nat /\ answer[r].revision # 0
          /\ answer[r].revision <= Len(history[r])
          /\ history[r][answer[r].revision] = sent[r].value
      BY <2>1, <2>2, <2>4, OpFields DEF AnswerIn, Answer
    <3>2. AckRemote(d)[r] = [revision |-> answer[r].revision, value |-> sent[r].value]
      BY <2>4 DEF AckRemote
    <3>3. TrueIn(history[r], AckRemote(d)[r])
      BY <3>1, <3>2 DEF TrueIn, At
    <3>4. CASE r \notin post[d].mine /\ Queued(d, r)
      <4>1. pending[d][r] \in Operation
        BY <2>1, <3>4, OpFields DEF Queued
      <4>2. AckPending(d)[r] = [pending[d][r] EXCEPT !.base = answer[r].revision,
                                                     !.over = sent[r].value]
        BY <2>4, <3>4 DEF AckPending
      <4>3. AckPending(d)[r].base = answer[r].revision /\ AckPending(d)[r].over = sent[r].value
        BY <4>1, <4>2 DEF Operation
      <4> QED  BY <3>1, <3>3, <4>3 DEF BasedIn, At
    <3>5. CASE ~(r \notin post[d].mine /\ Queued(d, r))
      <4>1. AckPending(d)[r] = NoOperation
        BY <2>4, <3>5 DEF AckPending
      <4> QED  BY <2>1, <3>3, <4>1, Empty
    <3> QED  BY <3>4, <3>5
  <2> QED  BY <2>3, <2>4
<1> HIDE DEF sent, answer
<1>2. Copies' /\ Outboxes'
  BY <1>1 DEF Ack, TypeOK, Truth, Copies, Outboxes
<1>3. \A r \in Records : history[r] \in Seq(Values)
  BY DEF TypeOK
<1>4. Posts' /\ Answers' /\ Mine'
  BY <1>3, Empty DEF Ack, TypeOK, Truth, Posts, Answers, Mine, MineIn
<1>5. Snapshots'
  <2>1. \A e \in Devices, r \in Records :
          poll'[e].rows[r] = poll[e].rows[r] \/ poll'[e].rows[r] = NoRow
    BY <1>3, Empty DEF Ack, RefreshIfHeld, Asked, TypeOK
  <2> QED  BY <1>3, <2>1, Empty DEF Ack, Truth, Snapshots
<1> QED  BY <1>2, <1>4, <1>5 DEF Ack, Truth, Lates

\* A snapshot of true rows is a true copy; what it settles was in flight or not.
LEMMA SnapshotStep ==
  ASSUME TypeOK, Truth, NEW d \in Devices, ReceiveSnapshot(d)
  PROVE  Truth'
<1> USE DEF serverVars
<1>1. \A r \in Records : history[r] \in Seq(Values)
  BY DEF TypeOK
<1>2. Unsettled(d) \in Operations /\ StillHeld(d) \in [Records -> Held]
  BY UnsettledType
<1>3. ASSUME NEW r \in Records
      PROVE  /\ BasedIn(history[r], Unsettled(d)[r])
             /\ MineIn(r \in post[d].mine, post[d].ops[r], Unsettled(d)[r], StillHeld(d)[r])
  <2>1. \/ Unsettled(d)[r] = NoOperation /\ StillHeld(d)[r] = "none"
        \/ Unsettled(d)[r] = pending[d][r] /\ StillHeld(d)[r] = conflicts[d][r]
    BY DEF Unsettled, StillHeld
  <2>2. /\ BasedIn(history[r], pending[d][r])
        /\ MineIn(r \in post[d].mine, post[d].ops[r], pending[d][r], conflicts[d][r])
    BY DEF Truth, Outboxes, Mine
  <2> QED  BY <1>1, <2>1, <2>2, Empty DEF MineIn
<1>4. StartFlush(d, Unsettled(d), StillHeld(d)) /\ history' = history /\ late' = late
  BY DEF ReceiveSnapshot
<1>5. /\ Posts' /\ Answers'
      /\ \A r \in Records : MineIn(r \in post'[d].mine, post'[d].ops[r],
                                   Unsettled(d)[r], StillHeld(d)[r])
  BY <1>2, <1>3, <1>4, StartFlushTruth DEF Truth
<1>6. \A e \in Devices : e # d => post'[e] = post[e]
  BY <1>2, <1>4, StartFlushType
<1>7. Mine' /\ Outboxes'
  BY <1>3, <1>4, <1>5, <1>6 DEF ReceiveSnapshot, TypeOK, Truth, Mine, Outboxes
<1>8. Copies' /\ Snapshots'
  BY <1>1, <1>4, Empty DEF ReceiveSnapshot, TypeOK, Truth, Copies, Snapshots
<1> QED  BY <1>4, <1>5, <1>7, <1>8 DEF Truth, Lates

\* The owner's version is based on the copy again.
LEMMA ResolveLocal ==
  ASSUME TypeOK, NEW d \in Devices, NEW r \in Records,
         NEW keep \in {"server", "local"}, keep # "server", Resolve(d, r, keep)
  PROVE  pending'[d][r] = [pending[d][r] EXCEPT !.base = remote[d][r].revision,
                                                !.over = remote[d][r].value]
BY Shapes DEF Resolve, TypeOK

\* The owner's choice: no operation, or one based on the copy.
LEMMA ResolveStep ==
  ASSUME TypeOK, Truth, NEW d \in Devices, NEW r \in Records,
         NEW keep \in {"server", "local"}, Resolve(d, r, keep)
  PROVE  Truth'
<1> USE DEF serverVars, copyVars
<1>1. \A q \in Records : history[q] \in Seq(Values)
  BY DEF TypeOK
<1>2. pending'[d] \in Operations /\ conflicts'[d] \in [Records -> Held]
  BY TypeStep DEF Next, User, TypeOK, Held
<1>3. \A e \in Devices, q \in Records : <<e, q>> # <<d, r>> =>
        pending'[e][q] = pending[e][q] /\ conflicts'[e][q] = conflicts[e][q]
  BY Shapes DEF Resolve, TypeOK
<1>4. BasedIn(history[r], pending'[d][r])
  <2>1. pending[d][r] \in Operation
    <3>1. pending[d][r] \in Op /\ Queued(d, r)
      BY Shapes DEF TypeOK, Resolve
    <3> QED  BY <3>1, OpFields DEF Queued
  <2>2. CASE keep = "server"
    <3>1. pending'[d][r] = NoOperation
      BY <2>2, Shapes DEF Resolve, TypeOK
    <3> QED  BY <1>1, <3>1, Empty
  <2>3. CASE keep # "server"
    <3>1. pending'[d][r] = [pending[d][r] EXCEPT !.base = remote[d][r].revision,
                                                 !.over = remote[d][r].value]
      BY <2>3, ResolveLocal
    <3>2. /\ pending'[d][r].base = remote[d][r].revision
          /\ pending'[d][r].over = remote[d][r].value
      BY <2>1, <3>1 DEF Operation
    <3>3. TrueIn(history[r], remote[d][r])
      BY DEF Truth, Copies
    <3> QED  BY <3>2, <3>3 DEF BasedIn, TrueIn
  <2> QED  BY <2>2, <2>3
<1>5. r \notin post[d].mine
  BY DEF Resolve, Truth, Mine, MineIn
<1>6. /\ \A q \in Records : BasedIn(history[q], pending'[d][q])
      /\ \A q \in Records : MineIn(q \in post[d].mine, post[d].ops[q],
                                   pending'[d][q], conflicts'[d][q])
  BY <1>3, <1>4, <1>5 DEF Truth, Outboxes, Mine, MineIn
<1>7. StartFlush(d, pending'[d], conflicts'[d]) /\ history' = history
  BY DEF Resolve
<1>8. /\ Posts' /\ Answers'
      /\ \A q \in Records : MineIn(q \in post'[d].mine, post'[d].ops[q],
                                   pending'[d][q], conflicts'[d][q])
  BY <1>2, <1>6, <1>7, StartFlushTruth DEF Truth
<1>9. \A e \in Devices : e # d => post'[e] = post[e]
  BY <1>2, <1>7, StartFlushType
<1>10. Mine' /\ Outboxes'
  BY <1>3, <1>6, <1>7, <1>8, <1>9 DEF Truth, Mine, Outboxes
<1> QED  BY <1>8, <1>10 DEF Resolve, Truth, Copies, Snapshots, Lates

LEMMA TruthStep == IInv /\ [Next]_vars => IInv'
<1> SUFFICES ASSUME IInv, [Next]_vars PROVE Truth'
  BY TypeStep DEF IInv
<1>1. CASE UNCHANGED vars
  BY <1>1 DEF IInv, vars, serverVars, outboxVars, copyVars, Truth, Copies, Snapshots,
              Outboxes, Posts, Lates, Answers, Mine
<1>2. CASE Server
  BY <1>2, ServerStep DEF IInv, Server
<1>3. ASSUME NEW d \in Devices, User(d) PROVE Truth'
  BY <1>3, EditStep, ResolveStep, TroubleStep DEF IInv, User
<1>4. ASSUME NEW d \in Devices, Sync(d) PROVE Truth'
  BY <1>4, PollStep, TroubleStep, AckStep, SnapshotStep DEF IInv, Sync
<1> QED  BY <1>1, <1>2, <1>3, <1>4 DEF Next

\* An operation that leaves the outbox was taken, or given up by the owner.
LEMMA DropsTaken ==
  ASSUME IInv, Next, NEW d \in Devices, NEW r \in Records,
         Queued(d, r), pending'[d][r] = NoOperation
  PROVE  \/ \E n \in DOMAIN history[r] : /\ n > pending[d][r].base
                                         /\ history[r][n] = pending[d][r].value
         \/ Resolve(d, r, "server")
<1>1. /\ TypeOK /\ Truth /\ history[r] \in Seq(Values)
      /\ pending[d][r] \in Op /\ pending[d][r] \in Operation
  <2>1. TypeOK /\ Truth /\ history[r] \in Seq(Values) /\ pending[d][r] \in Op
    BY Shapes DEF IInv, TypeOK
  <2> QED  BY <2>1, OpFields DEF Queued
<1>2. pending[d][r] # NoOperation /\ pending[d][r].base \in Nat
  BY <1>1 DEF Queued, Carries, NoOperation, Operation
<1>3. CASE \E e \in Devices : Ack(e)
  <2>1. PICK e \in Devices : Ack(e)
    BY <1>3
  <2>2. e = d
    BY <1>1, <1>2, <2>1 DEF Ack, TypeOK
  <2>3. pending'[d][r] = AckPending(d)[r]
    BY <1>1, <2>1, <2>2 DEF Ack, TypeOK
  <2> DEFINE sent == post[d].ops[r]  answer == post[d].answers[r]
  <2>4. /\ AnswerIn(history[r], sent, answer) /\ answer \in Answer /\ sent \in Op
        /\ MineIn(r \in post[d].mine, sent, pending[d][r], conflicts[d][r])
    BY <1>1, Shapes DEF Truth, Answers, Mine, TypeOK, Post
  <2>5. answer.result = "version"
    BY <1>2, <2>3 DEF AckPending
  <2>6. r \in post[d].mine
    <3>1. CASE r \notin post[d].mine
      <4>1. AckPending(d)[r] = [pending[d][r] EXCEPT !.base = answer.revision,
                                                     !.over = sent.value]
        BY <2>5, <3>1 DEF AckPending
      <4>2. AckPending(d)[r].value = pending[d][r].value
        BY <1>1, <4>1 DEF Operation
      <4> QED  BY <2>3, <4>2 DEF Queued, Carries, NoOperation
    <3> QED  BY <3>1
  <2>7. pending[d][r] = sent
    BY <1>2, <2>4, <2>6 DEF MineIn
  <2>8. /\ answer.revision \in DOMAIN history[r] /\ answer.revision > sent.base
        /\ history[r][answer.revision] = sent.value
    <3>1. answer.revision \in Nat /\ sent.base \in Nat
      BY <2>4, OpFields DEF Answer
    <3> QED  BY <1>1, <2>4, <2>5, <3>1 DEF AnswerIn
  <2> QED  BY <2>7, <2>8
<1>4. CASE \E e \in Devices : ReceiveSnapshot(e)
  <2>1. PICK e \in Devices : ReceiveSnapshot(e)
    BY <1>4
  <2>2. e = d
    BY <1>1, <1>2, <2>1 DEF ReceiveSnapshot, TypeOK
  <2>3. pending'[d][r] = Unsettled(d)[r]
    BY <1>1, <2>1, <2>2 DEF ReceiveSnapshot, TypeOK
  <2>4. Settled(d, r)
    BY <1>2, <2>3 DEF Unsettled
  <2>5. TrueIn(history[r], poll[d].rows[r]) /\ poll[d].rows[r].revision \in Nat
    BY <1>1 DEF Truth, Snapshots, TypeOK, Poll, Row
  <2> QED  BY <1>1, <1>2, <2>4, <2>5 DEF Settled, TrueIn, At
<1>5. CASE \E e \in Devices, q \in Records, v \in Values : Edit(e, q, v)
  <2>1. PICK e \in Devices, q \in Records, v \in Values : Edit(e, q, v)
    BY <1>5
  <2>2. e = d /\ q = r
    BY <1>1, <1>2, <2>1, Shapes DEF Edit, TypeOK
  <2>3. pending'[d][r] = [pending[d][r] EXCEPT !.value = v]
    BY <1>1, <2>1, <2>2, Shapes DEF Edit, TypeOK
  <2>4. pending'[d][r].value = v
    BY <1>1, <2>3 DEF Operation
  <2> QED  BY <2>4, ValuesAssumption DEF NoOperation
<1>6. CASE \E e \in Devices, q \in Records, keep \in {"server", "local"} :
             Resolve(e, q, keep)
  <2>1. PICK e \in Devices, q \in Records, keep \in {"server", "local"} :
          Resolve(e, q, keep)
    BY <1>6
  <2>2. e = d /\ q = r
    BY <1>1, <1>2, <2>1, Shapes DEF Resolve, TypeOK
  <2>3. CASE keep # "server"
    <3>1. pending'[d][r] = [pending[d][r] EXCEPT !.base = remote[d][r].revision,
                                                 !.over = remote[d][r].value]
      BY <1>1, <2>1, <2>2, <2>3, ResolveLocal
    <3>2. pending'[d][r].value = pending[d][r].value
      BY <1>1, <3>1 DEF Operation
    <3> QED  BY <3>2 DEF Queued, Carries, NoOperation
  <2> QED  BY <2>1, <2>2, <2>3
<1>7. CASE pending' = pending
  BY <1>2, <1>7
<1>8. ASSUME NEW e \in Devices,
             \/ Flush(e) \/ FlushFails(e) \/ FlushRefused(e) \/ Refresh(e) \/ Resume(e)
             \/ PollFails(e) \/ ReceiveUnchanged(e) \/ \E cached \in BOOLEAN : Reload(e, cached)
      PROVE  pending' = pending
  BY <1>8 DEF Flush, FlushFails, FlushRefused, Refresh, Resume, PollFails,
              ReceiveUnchanged, Reload, outboxVars
<1>9. CASE Server
  BY <1>7, <1>9 DEF Server, ServePost, ServeLate, ServePoll, ChangeAccess,
                    outboxVars
<1> QED  BY <1>3, <1>4, <1>5, <1>6, <1>7, <1>8, <1>9 DEF Next, User, Sync

-----------------------------------------------------------------------------
(* The theorems *)

\* The inductive invariant holds of every behaviour of the code.
THEOREM Invariant == Spec => []IInv
<1>1. Init => IInv
  BY TypeInit, TruthInit DEF IInv
<1>2. IInv /\ [Next]_vars => IInv'
  BY TruthStep
<1> QED  BY <1>1, <1>2, PTL DEF Spec

\* Every variable of the server and the devices keeps its type.
THEOREM TypeCorrect == Spec => []TypeOK
<1>1. IInv => TypeOK
  BY DEF IInv
<1> QED  BY <1>1, Invariant, PTL

\* A device's copy of a row is a version the server really had, whatever
\* answers of flushes and refreshes overtake each other.
THEOREM CopiesTrueHolds == Spec => []CopiesTrue
<1>1. IInv => CopiesTrue
  BY DEF IInv, Truth, Copies, TrueIn, At, CopiesTrue, Revision, ValueAt
<1> QED  BY <1>1, Invariant, PTL

\* No row is written over a value the author of the write never saw.
THEOREM NoBlindOverwriteHolds == Spec => NoBlindOverwrite
<1> DEFINE Seen(r) == history'[r] # history[r] =>
             \E ops \in Sent : /\ history'[r] = Append(history[r], ops[r].value)
                               /\ ops[r].over = Current(r)
<1>1. ASSUME IInv, Next, NEW r \in Records PROVE Seen(r)
  <2>1. ASSUME NEW ops \in Operations, ops \in Sent, Write(ops),
               BasedIn(history[r], ops[r])
        PROVE  Seen(r)
    <3>1. CASE history'[r] = history[r]
      BY <3>1
    <3>2. CASE /\ Applies(ops[r], r)
               /\ history'[r] = Append(history[r], ops[r].value)
      <4>1. ops[r].over = Current(r)
        BY <2>1, <3>2 DEF Applies, BasedIn, At, Current, ValueAt, Revision
      <4> QED  BY <2>1, <3>2, <4>1
    <3> QED  BY <1>1, <2>1, <3>1, <3>2, WriteType DEF IInv
  <2>2. ASSUME NEW d \in Devices, ServePost(d) PROVE Seen(r)
    <3>1. post[d].ops \in Operations /\ post[d].ops \in Sent /\ Write(post[d].ops)
      BY <1>1, <2>2 DEF ServePost, Sent, IInv, TypeOK, Post
    <3>2. BasedIn(history[r], post[d].ops[r])
      BY <1>1 DEF IInv, Truth, Posts
    <3> QED  BY <2>1, <3>1, <3>2
  <2>3. ASSUME NEW ops \in late, ServeLate(ops) PROVE Seen(r)
    <3>1. ops \in Operations /\ ops \in Sent /\ Write(ops)
      BY <1>1, <2>3 DEF ServeLate, Sent, IInv, TypeOK
    <3>2. BasedIn(history[r], ops[r])
      BY <1>1 DEF IInv, Truth, Lates
    <3> QED  BY <2>1, <3>1, <3>2
  <2>4. CASE history' = history
    BY <2>4
  <2>5. ASSUME NEW d \in Devices, User(d) \/ Sync(d) PROVE history' = history
    BY <2>5 DEF User, Sync, Edit, Resolve, Reload, Flush, FlushFails, FlushRefused, Ack,
                Refresh, Resume, PollFails, ReceiveUnchanged, ReceiveSnapshot, serverVars
  <2>6. CASE ChangeAccess \/ \E d \in Devices : ServePoll(d)
    BY <2>6 DEF ChangeAccess, ServePoll, serverVars
  <2> QED  BY <1>1, <2>2, <2>3, <2>4, <2>5, <2>6 DEF Next, Server
<1>2. IInv /\ [Next]_vars => [\A r \in Records : Seen(r)]_vars
  BY <1>1
<1> QED  BY <1>2, Invariant, PTL DEF Spec, NoBlindOverwrite

\* The outbox gives up an operation only when the server has taken its value,
\* or when the owner chooses the server's version.
THEOREM DropsOnlyTakenHolds == Spec => DropsOnlyTaken
<1> DEFINE Kept == \A d \in Devices, r \in Records :
             Queued(d, r) /\ pending'[d][r] = NoOperation =>
               \/ \E n \in DOMAIN history[r] : /\ n > pending[d][r].base
                                               /\ history[r][n] = pending[d][r].value
               \/ Resolve(d, r, "server")
<1>1. IInv /\ [Next]_vars => [Kept]_vars
  BY DropsTaken
<1> QED  BY <1>1, Invariant, PTL DEF Spec, DropsOnlyTaken
=============================================================================
