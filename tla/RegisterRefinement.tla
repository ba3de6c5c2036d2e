------------------------- MODULE RegisterRefinement -------------------------
(***************************************************************************)
(* Proofs that SharedStateSync implements SharedRegister: whatever flushes *)
(* and refreshes are lost, late or overtake each other, a device's draft   *)
(* is written only over the version it replaces.                           *)
(***************************************************************************)
EXTENDS SharedStateSyncProofs

-----------------------------------------------------------------------------
(* What SharedRegister sees *)

Drafts == [d \in Devices |-> [r \in Records |-> Draft(pending[d][r])]]
SentDrafts == [r \in Records |-> {Draft(ops[r]) : ops \in {o \in Sent : Carries(o[r])}}]

RegisterStep == [Register!Next]_(Register!registerVars)

\* An operation is a draft when it carries a value.
LEMMA DraftRight ==
  ASSUME NEW op \in Op
  PROVE  /\ Draft(op).base = op.base /\ Draft(op).value = op.value
         /\ Carries(op) <=> Draft(op) # Register!NoDraft
         /\ ~Carries(op) => op = NoOperation
         /\ Draft(NoOperation) = Register!NoDraft
<1>1. /\ ValuesAssumption /\ op.base \in Nat
      /\ op = NoOperation \/ op.value \in Values
  BY ValuesAssumption, OpFields DEF Op, Operation
<1> QED  BY <1>1, ValuesAssumption DEF Draft, Register!NoDraft, NoOperation, Carries

\* A true copy is a version of the record.
LEMMA CopyIsVersion ==
  ASSUME NEW r \in Records, history[r] \in Seq(Values), NEW row \in Row,
         TrueIn(history[r], row)
  PROVE  row \in Register!Versions(r)
<1>1. row.revision \in 0 .. Len(history[r]) /\ row.value = At(history[r], row.revision)
  BY DEF TrueIn, Row
<1>2. row = [revision |-> row.revision, value |-> row.value]
  BY DEF Row
<1> QED  BY <1>1, <1>2 DEF Register!Versions, Register!Version, At

-----------------------------------------------------------------------------
(* What is sent *)

\* Only operations of the outbox come to be sent.
SendsOnly(d) ==
  \A ops \in Sent' : \/ ops \in Sent
                     \/ \A r \in Records : ops[r] \in {pending'[d][r], NoOperation}

LEMMA SendsRight ==
  ASSUME TypeOK', NEW d \in Devices, SendsOnly(d)
  PROVE  Register!Sends(d)
<1>1. SentDrafts' = [r \in Records |-> SentDrafts'[r]]
  BY DEF SentDrafts
<1>2. ASSUME NEW r \in Records, NEW w \in SentDrafts'[r]
      PROVE  w \in SentDrafts[r] \/ (w = Drafts'[d][r] /\ w # Register!NoDraft)
  <2>1. PICK ops \in Sent' : Carries(ops[r]) /\ w = Draft(ops[r])
    BY DEF SentDrafts
  <2>2. CASE ops \in Sent
    BY <2>1, <2>2 DEF SentDrafts
  <2>3. CASE \A q \in Records : ops[q] \in {pending'[d][q], NoOperation}
    <3>1. ops[r] = pending'[d][r]
      BY <2>1, <2>3 DEF Carries, NoOperation
    <3>2. pending'[d][r] \in Op
      BY Shapes DEF TypeOK
    <3> QED  BY <2>1, <3>1, <3>2, DraftRight DEF Drafts
  <2> QED  BY <2>2, <2>3 DEF SendsOnly
<1> QED  BY <1>1, <1>2 DEF Register!Sends, SentDrafts, Drafts

\* A flush that starts sends what is in the outbox.
LEMMA StartSends ==
  ASSUME TypeOK, NEW d \in Devices, NEW ops \in Operations,
         NEW held \in [Records -> Held], StartFlush(d, ops, held), late' = late,
         pending'[d] = ops
  PROVE  SendsOnly(d)
<1> SUFFICES ASSUME NEW o \in Sent', o \notin Sent
             PROVE  \A r \in Records : o[r] \in {ops[r], NoOperation}
  BY DEF SendsOnly
<1>1. /\ \A e \in Devices : e # d => post'[e] = post[e]
      /\ post'[d] = post[d] \/ post'[d] = Request(ops, held)
  BY StartFlushType
<1>2. o = Request(ops, held).ops
  BY <1>1 DEF Sent
<1> QED  BY <1>2, RequestRight

\* A flush that ends, a request given up or served: nothing new is sent.
LEMMA EndSends ==
  ASSUME TypeOK, NEW d \in Devices,
         late' = late \/ Abandon(d),
         \A e \in Devices \ {d} : /\ post'[e].phase = post[e].phase
                                  /\ post'[e].ops = post[e].ops,
         \/ post'[d].phase # "sent"
         \/ post'[d].phase = post[d].phase /\ post'[d].ops = post[d].ops
  PROVE  Sent' \subseteq Sent
<1>1. \A ops \in late' : ops \in late \/ (post[d].phase = "sent" /\ ops = post[d].ops)
  BY DEF Abandon
<1>2. late' \subseteq Sent
  BY <1>1 DEF Sent
<1>3. ASSUME NEW e \in Devices, post'[e].phase = "sent" PROVE post'[e].ops \in Sent
  BY <1>3 DEF Sent
<1> QED  BY <1>2, <1>3 DEF Sent

-----------------------------------------------------------------------------
(* The device's steps *)

\* A device that hears of versions and keeps, settles or re-bases its drafts.
LEMMA Exchanges ==
  ASSUME IInv, IInv', NEW d \in Devices, history' = history, SendsOnly(d),
         \A e \in Devices \ {d} : remote'[e] = remote[e] /\ pending'[e] = pending[e],
         \A r \in Records :
           \/ pending'[d][r] = pending[d][r]
           \/ /\ Queued(d, r) /\ pending'[d][r] = NoOperation
              /\ \E n \in DOMAIN history[r] : /\ n > pending[d][r].base
                                             /\ history[r][n] = pending[d][r].value
           \/ /\ Queued(d, r)
              /\ pending'[d][r].value = pending[d][r].value
              /\ pending'[d][r].base = remote'[d][r].revision
  PROVE  RegisterStep
<1>1. TypeOK /\ TypeOK' /\ Copies'
  BY DEF IInv, Truth
<1>2. remote' = [remote EXCEPT ![d] = [r \in Records |-> remote'[d][r]]]
  BY <1>1 DEF TypeOK
<1>3. Drafts' = [Drafts EXCEPT ![d] = [r \in Records |-> Drafts'[d][r]]]
  BY <1>1 DEF Drafts
<1>4. ASSUME NEW r \in Records PROVE remote'[d][r] \in Register!Versions(r)
  <2>1. /\ remote'[d][r] \in Row /\ history[r] \in Seq(Values)
        /\ TrueIn(history[r], remote'[d][r])
    BY <1>1 DEF TypeOK, Copies
  <2> QED  BY <2>1, CopyIsVersion
<1>5. ASSUME NEW r \in Records
      PROVE  \/ Drafts'[d][r] = Drafts[d][r]
             \/ /\ Drafts'[d][r] = Register!NoDraft
                /\ \E n \in Drafts[d][r].base + 1 .. Len(history[r]) :
                     history[r][n] = Drafts[d][r].value
             \/ /\ Drafts[d][r] # Register!NoDraft
                /\ Drafts'[d][r] = [Drafts[d][r] EXCEPT !.base = remote'[d][r].revision]
  <2>1. /\ pending[d][r] \in Op /\ pending'[d][r] \in Op /\ history[r] \in Seq(Values)
        /\ Drafts[d][r] = Draft(pending[d][r]) /\ Drafts'[d][r] = Draft(pending'[d][r])
    BY <1>1, Shapes DEF TypeOK, Drafts
  <2>2. CASE pending'[d][r] = pending[d][r]
    BY <2>1, <2>2
  <2>3. CASE /\ pending'[d][r] = NoOperation
             /\ \E n \in DOMAIN history[r] : /\ n > pending[d][r].base
                                            /\ history[r][n] = pending[d][r].value
    <3>1. PICK n \in 1 .. Len(history[r]) : /\ n > pending[d][r].base
                                           /\ history[r][n] = pending[d][r].value
      BY <2>1, <2>3
    <3>2. pending[d][r].base \in Nat
      BY <2>1, OpFields
    <3>3. n \in pending[d][r].base + 1 .. Len(history[r])
      BY <2>1, <3>1, <3>2
    <3> QED  BY <2>1, <2>3, <3>1, <3>3, DraftRight
  <2>4. CASE /\ Queued(d, r)
             /\ pending'[d][r].value = pending[d][r].value
             /\ pending'[d][r].base = remote'[d][r].revision
    <3>1. Draft(pending'[d][r]) =
            [Draft(pending[d][r]) EXCEPT !.base = remote'[d][r].revision]
      BY <2>4 DEF Draft
    <3> QED  BY <2>1, <2>4, <3>1, DraftRight DEF Queued
  <2> QED  BY <2>2, <2>3, <2>4
<1>6. Register!Sends(d)
  BY <1>1, SendsRight
<1>7. Register!Exchange(d)
  BY <1>2, <1>3, <1>4, <1>5, <1>6
     DEF Register!Exchange, Register!Taken, Drafts, SentDrafts
<1> QED  BY <1>7 DEF RegisterStep, Register!Next

\* Nothing is seen of a step that touches neither rows, copies, outboxes nor
\* requests.
LEMMA Unseen ==
  ASSUME UNCHANGED <<history, remote, pending>>, Sent' = Sent
  PROVE  RegisterStep
BY DEF RegisterStep, Register!registerVars

\* The cashier edits what the screen shows; a draft that waits keeps its base.
LEMMA EditDrafts ==
  ASSUME IInv, NEW d \in Devices, NEW r \in Records, NEW v \in Values, Edit(d, r, v)
  PROVE  RegisterStep
<1>1. /\ TypeOK /\ UNCHANGED <<history, remote, late>>
      /\ pending[d][r] \in Op
  BY Shapes DEF IInv, Edit, TypeOK, serverVars, copyVars
<1>2. \A e \in Devices : post'[e].phase = post[e].phase /\ post'[e].ops = post[e].ops
  BY <1>1 DEF Edit, TypeOK, Post
<1>3. Sent' = Sent
  BY <1>1, <1>2 DEF Sent
<1>4. \A e \in Devices, q \in Records :
        <<e, q>> # <<d, r>> => pending'[e][q] = pending[e][q]
  BY <1>1, Shapes DEF Edit, TypeOK
<1> DEFINE base == IF Drafts[d][r] = Register!NoDraft THEN remote[d][r].revision
                   ELSE Drafts[d][r].base
<1>5. pending'[d][r].base = base /\ pending'[d][r].value = v
  <2>1. CASE Queued(d, r)
    <3>1. pending[d][r] \in Operation
      BY <1>1, <2>1, OpFields DEF Queued
    <3>2. pending'[d][r] = [pending[d][r] EXCEPT !.value = v]
      BY <1>1, <2>1, Shapes DEF Edit, TypeOK
    <3>3. pending'[d][r].base = pending[d][r].base /\ pending'[d][r].value = v
      BY <3>1, <3>2 DEF Operation
    <3> QED  BY <1>1, <2>1, <3>3, DraftRight DEF Drafts, Queued
  <2>2. CASE ~Queued(d, r)
    <3>1. pending'[d][r] = [base |-> remote[d][r].revision, value |-> v,
                            over |-> remote[d][r].value]
      BY <1>1, <2>2, Shapes DEF Edit, TypeOK
    <3> QED  BY <1>1, <2>2, <3>1, DraftRight DEF Drafts, Queued
  <2> QED  BY <2>1, <2>2
<1>6. Drafts'[d][r] = [base |-> base, value |-> v]
  BY <1>5 DEF Drafts, Draft
<1>7. Drafts' = [Drafts EXCEPT ![d][r] = [base |-> base, value |-> v]]
  <2>1. \A e \in Devices, q \in Records :
          <<e, q>> # <<d, r>> => Drafts'[e][q] = Drafts[e][q]
    BY <1>4 DEF Drafts
  <2>2. /\ DOMAIN Drafts = Devices /\ DOMAIN Drafts' = Devices
        /\ \A e \in Devices : /\ Drafts[e] = [q \in Records |-> Drafts[e][q]]
                              /\ Drafts'[e] = [q \in Records |-> Drafts'[e][q]]
    BY DEF Drafts
  <2>3. Drafts = [e \in Devices |-> Drafts[e]] /\ Drafts' = [e \in Devices |-> Drafts'[e]]
    BY DEF Drafts
  <2> HIDE DEF base
  <2> QED  BY <1>6, <2>1, <2>2, <2>3
<1>8. SentDrafts' = SentDrafts
  BY <1>3 DEF SentDrafts
<1>9. Register!Edit(d, r)
  BY <1>1, <1>7, <1>8 DEF Register!Edit, Drafts, SentDrafts
<1> QED  BY <1>9 DEF RegisterStep, Register!Next

\* The owner's choice: the draft is given up, or goes on from the copy.
LEMMA Resolves ==
  ASSUME IInv, IInv', NEW d \in Devices, NEW r \in Records,
         NEW keep \in {"server", "local"}, Resolve(d, r, keep)
  PROVE  RegisterStep
<1>1. /\ TypeOK /\ TypeOK' /\ UNCHANGED <<history, remote, late>>
      /\ StartFlush(d, pending'[d], conflicts'[d])
      /\ pending'[d] \in Operations /\ conflicts'[d] \in [Records -> Held]
  BY DEF IInv, Resolve, TypeOK, serverVars, copyVars, Held
<1>2. SendsOnly(d)
  BY <1>1, StartSends
<1>3. \A e \in Devices, q \in Records :
        <<e, q>> # <<d, r>> => pending'[e][q] = pending[e][q]
  BY <1>1, Shapes DEF Resolve, TypeOK
<1>4. \A e \in Devices \ {d} : pending'[e] = pending[e]
  BY <1>1 DEF Resolve, TypeOK
<1>5. CASE keep = "server"
  <2>1. pending'[d][r] = NoOperation
    BY <1>1, <1>5, Shapes DEF Resolve, TypeOK
  <2>2. /\ Drafts'[d][r] = Register!NoDraft
        /\ \A e \in Devices, q \in Records :
             <<e, q>> # <<d, r>> => Drafts'[e][q] = Drafts[e][q]
    BY <1>3, <2>1, Shapes, DraftRight DEF Drafts
  <2>3. Drafts' = [Drafts EXCEPT ![d][r] = Register!NoDraft]
    <3>1. /\ DOMAIN Drafts = Devices /\ DOMAIN Drafts' = Devices
          /\ \A e \in Devices : /\ Drafts[e] = [q \in Records |-> Drafts[e][q]]
                                /\ Drafts'[e] = [q \in Records |-> Drafts'[e][q]]
      BY DEF Drafts
    <3>2. Drafts = [e \in Devices |-> Drafts[e]] /\ Drafts' = [e \in Devices |-> Drafts'[e]]
      BY DEF Drafts
    <3> QED  BY <2>2, <3>1, <3>2
  <2>4. Register!Sends(d)
    BY <1>1, <1>2, SendsRight
  <2>5. Register!GiveUp(d, r)
    BY <1>1, <2>3, <2>4 DEF Register!GiveUp, Drafts, SentDrafts
  <2> QED  BY <2>5 DEF RegisterStep, Register!Next
<1>6. CASE keep # "server"
  <2>1. pending'[d][r] = [pending[d][r] EXCEPT !.base = remote[d][r].revision,
                                               !.over = remote[d][r].value]
    BY <1>1, <1>6, ResolveLocal
  <2>2. Queued(d, r) /\ pending[d][r] \in Operation
    BY <1>1, Shapes, OpFields DEF Resolve, Queued, TypeOK
  <2>3. /\ pending'[d][r].value = pending[d][r].value
        /\ pending'[d][r].base = remote'[d][r].revision
    BY <1>1, <2>1, <2>2 DEF Operation
  <2> QED  BY <1>1, <1>2, <1>3, <1>4, <2>2, <2>3, Exchanges
<1> QED  BY <1>5, <1>6

\* An acknowledged draft is settled, or a newer one goes on from its version.
LEMMA AckExchanges ==
  ASSUME IInv, IInv', NEW d \in Devices, Ack(d), \A r \in Records : ~Resolve(d, r, "server")
  PROVE  RegisterStep
<1>1. /\ TypeOK /\ TypeOK' /\ UNCHANGED <<history, late>> /\ Next
      /\ \A e \in Devices \ {d} : /\ remote'[e] = remote[e] /\ pending'[e] = pending[e]
                                  /\ post'[e] = post[e]
      /\ remote'[d] = AckRemote(d) /\ pending'[d] = AckPending(d) /\ post'[d] = NoPost
  BY DEF IInv, Ack, TypeOK, serverVars, Next, Sync
<1>2. SendsOnly(d)
  <2>1. Sent' \subseteq Sent
    BY <1>1, EndSends DEF NoPost
  <2> QED  BY <2>1 DEF SendsOnly
<1>3. ASSUME NEW r \in Records
      PROVE  \/ pending'[d][r] = pending[d][r]
             \/ Queued(d, r) /\ pending'[d][r] = NoOperation
             \/ /\ Queued(d, r)
                /\ pending'[d][r].value = pending[d][r].value
                /\ pending'[d][r].base = remote'[d][r].revision
  <2>1. pending[d][r] \in Op
    BY <1>1, Shapes DEF TypeOK
  <2>2. \/ pending'[d][r] = pending[d][r]
        \/ pending'[d][r] = NoOperation
        \/ /\ Queued(d, r) /\ post[d].answers[r].result = "version"
           /\ pending'[d][r] = [pending[d][r] EXCEPT !.base = post[d].answers[r].revision,
                                                     !.over = post[d].ops[r].value]
    BY <1>1 DEF AckPending
  <2>3. CASE /\ Queued(d, r) /\ post[d].answers[r].result = "version"
             /\ pending'[d][r] = [pending[d][r] EXCEPT !.base = post[d].answers[r].revision,
                                                       !.over = post[d].ops[r].value]
    <3>1. pending[d][r] \in Operation
      BY <2>1, <2>3, OpFields DEF Queued
    <3>2. /\ pending'[d][r].value = pending[d][r].value
          /\ pending'[d][r].base = post[d].answers[r].revision
      BY <2>3, <3>1 DEF Operation
    <3>3. remote'[d][r].revision = post[d].answers[r].revision
      BY <1>1, <2>3 DEF AckRemote
    <3> QED  BY <2>3, <3>2, <3>3
  <2>4. ~Queued(d, r) => pending[d][r] = NoOperation
    BY <2>1, DraftRight DEF Queued
  <2> QED  BY <2>2, <2>3, <2>4
<1>4. ASSUME NEW r \in Records, Queued(d, r), pending'[d][r] = NoOperation
      PROVE  \E n \in DOMAIN history[r] : /\ n > pending[d][r].base
                                          /\ history[r][n] = pending[d][r].value
  BY <1>1, <1>4, DropsTaken
<1> QED  BY <1>1, <1>2, <1>3, <1>4, Exchanges

\* What the server holds at a later version leaves the outbox.
LEMMA SnapshotExchanges ==
  ASSUME IInv, IInv', NEW d \in Devices, ReceiveSnapshot(d),
         \A r \in Records : ~Resolve(d, r, "server")
  PROVE  RegisterStep
<1>1. /\ TypeOK /\ TypeOK' /\ UNCHANGED <<history, late>> /\ Next
      /\ \A e \in Devices \ {d} : remote'[e] = remote[e] /\ pending'[e] = pending[e]
      /\ pending'[d] = Unsettled(d)
      /\ StartFlush(d, Unsettled(d), StillHeld(d))
  BY DEF IInv, ReceiveSnapshot, TypeOK, serverVars, Next, Sync
<1>2. SendsOnly(d)
  BY <1>1, UnsettledType, StartSends
<1>3. \A r \in Records : \/ pending'[d][r] = pending[d][r]
                         \/ Queued(d, r) /\ pending'[d][r] = NoOperation
  BY <1>1 DEF Unsettled, Settled
<1>4. ASSUME NEW r \in Records, Queued(d, r), pending'[d][r] = NoOperation
      PROVE  \E n \in DOMAIN history[r] : /\ n > pending[d][r].base
                                          /\ history[r][n] = pending[d][r].value
  BY <1>1, <1>4, DropsTaken
<1> QED  BY <1>1, <1>2, <1>3, <1>4, Exchanges

\* Flushes that start, fail or are refused, refreshes and reloads leave the outbox as it is.
LEMMA OutboxStands ==
  ASSUME IInv, IInv', NEW d \in Devices,
         \/ Flush(d) \/ FlushFails(d) \/ FlushRefused(d) \/ Refresh(d) \/ Resume(d)
         \/ PollFails(d) \/ ReceiveUnchanged(d) \/ \E cached \in BOOLEAN : Reload(d, cached)
  PROVE  RegisterStep
<1> USE DEF serverVars, outboxVars, copyVars
<1>1. /\ TypeOK /\ TypeOK' /\ history' = history /\ pending' = pending
      /\ \A e \in Devices \ {d} : remote'[e] = remote[e]
  BY DEF IInv, Flush, FlushFails, FlushRefused, Refresh, Resume, PollFails, ReceiveUnchanged, Reload, TypeOK
<1>2. SendsOnly(d)
  <2>1. CASE Flush(d) \/ ReceiveUnchanged(d)
    <3>1. /\ pending[d] \in Operations /\ conflicts[d] \in [Records -> Held]
          /\ StartFlush(d, pending[d], conflicts[d]) /\ late' = late
      BY <1>1, <2>1 DEF Flush, ReceiveUnchanged, TypeOK, Held
    <3> QED  BY <1>1, <3>1, StartSends
  <2>2. CASE FlushFails(d) \/ FlushRefused(d) \/ \E cached \in BOOLEAN : Reload(d, cached)
    <3>1. /\ Abandon(d) \/ late' = late
          /\ post'[d].phase # "sent"
          /\ \A e \in Devices \ {d} : post'[e] = post[e]
      BY <1>1, <2>2 DEF FlushFails, FlushRefused, Reload, TypeOK, NoPost
    <3>2. Sent' \subseteq Sent
      BY <1>1, <3>1, EndSends
    <3> QED  BY <3>2 DEF SendsOnly
  <2>3. CASE Refresh(d) \/ Resume(d) \/ PollFails(d)
    <3>1. post' = post /\ late' = late
      BY <2>3 DEF Refresh, Resume, PollFails
    <3> QED  BY <3>1 DEF SendsOnly, Sent
  <2> QED  BY <2>1, <2>2, <2>3
<1> QED  BY <1>1, <1>2, Exchanges

-----------------------------------------------------------------------------
(* The server's steps *)

\* The server writes what was sent, each over the version it replaces.
LEMMA Writes ==
  ASSUME IInv, NEW ops \in Operations, ops \in Sent, Write(ops), Sent' \subseteq Sent,
         UNCHANGED <<remote, pending>>
  PROVE  RegisterStep
<1>1. TypeOK
  BY DEF IInv
<1>2. history' = [r \in Records |-> history'[r]]
  BY DEF Write
<1>3. ASSUME NEW r \in Records
      PROVE  \/ history'[r] = history[r]
             \/ \E w \in SentDrafts[r] : /\ w.base = Len(history[r])
                                         /\ history'[r] = Append(history[r], w.value)
  <2>1. CASE history'[r] = history[r]
    BY <2>1
  <2>2. CASE Applies(ops[r], r) /\ history'[r] = Append(history[r], ops[r].value)
    <3>1. Carries(ops[r]) /\ ops[r].base = Len(history[r])
      BY <2>2 DEF Applies, Revision
    <3>2. Draft(ops[r]) \in SentDrafts[r]
      BY <3>1 DEF SentDrafts
    <3> QED  BY <2>2, <3>1, <3>2 DEF Draft
  <2> QED  BY <1>1, <2>1, <2>2, WriteType
<1>4. /\ SentDrafts' = [r \in Records |-> SentDrafts'[r]]
      /\ \A r \in Records : SentDrafts'[r] \subseteq SentDrafts[r]
  BY DEF SentDrafts
<1>5. Drafts' = Drafts
  BY DEF Drafts
<1>6. Register!Write
  BY <1>2, <1>3, <1>4, <1>5 DEF Register!Write, Drafts, SentDrafts
<1> QED  BY <1>6 DEF RegisterStep, Register!Next

LEMMA ServerWrites == ASSUME IInv, Server PROVE RegisterStep
<1>1. TypeOK
  BY DEF IInv
<1> USE DEF outboxVars, copyVars, serverVars
<1>2. ASSUME NEW d \in Devices, ServePost(d) PROVE RegisterStep
  <2>1. /\ post[d].ops \in Operations /\ post[d].ops \in Sent /\ Write(post[d].ops)
        /\ UNCHANGED <<remote, pending, late>>
    BY <1>1, <1>2 DEF ServePost, Sent, TypeOK, Post
  <2>2. /\ \A e \in Devices \ {d} : post'[e] = post[e]
        /\ post'[d].phase = "answered"
    BY <1>1, <1>2 DEF ServePost, TypeOK, Post
  <2>3. Sent' \subseteq Sent
    BY <1>1, <2>1, <2>2, EndSends
  <2> QED  BY <2>1, <2>3, Writes
<1>3. ASSUME NEW ops \in late, ServeLate(ops) PROVE RegisterStep
  <2>1. /\ ops \in Operations /\ ops \in Sent /\ Write(ops) /\ Sent' \subseteq Sent
        /\ UNCHANGED <<remote, pending>>
    BY <1>1, <1>3 DEF ServeLate, Sent, TypeOK
  <2> QED  BY <2>1, Writes
<1>4. ASSUME NEW d \in Devices, ServePoll(d) PROVE RegisterStep
  BY <1>4, Unseen DEF ServePoll, Sent
<1>5. CASE ChangeAccess
  BY <1>5, Unseen DEF ChangeAccess, Sent
<1> QED  BY <1>2, <1>3, <1>4, <1>5 DEF Server

-----------------------------------------------------------------------------
(* Theorem *)

LEMMA RegisterSteps ==
  ASSUME IInv, [Next]_vars
  PROVE  RegisterStep
<1>1. IInv'
  BY TruthStep
<1>2. ASSUME NEW d \in Devices, User(d) PROVE RegisterStep
  BY <1>1, <1>2, EditDrafts, Resolves, OutboxStands DEF User
<1>3. ASSUME NEW d \in Devices, Sync(d) PROVE RegisterStep
  <2>1. CASE \E r \in Records : Resolve(d, r, "server")
    BY <1>1, <2>1, Resolves
  <2>2. CASE \A r \in Records : ~Resolve(d, r, "server")
    BY <1>1, <1>3, <2>2, AckExchanges, SnapshotExchanges, OutboxStands DEF Sync
  <2> QED  BY <2>1, <2>2
<1>4. ASSUME UNCHANGED vars PROVE RegisterStep
  BY <1>4, Unseen DEF vars, serverVars, outboxVars, copyVars, Sent
<1> QED  BY <1>2, <1>3, <1>4, ServerWrites DEF Next

\* Every behaviour of outboxes, flushes, refreshes, lost and late requests, reloads
\* and the server's write is a behaviour of SharedRegister: a draft keeps the version
\* its author saw, is written over that very version or not at all, and waits until
\* it is taken or given up.
THEOREM RegisterPromiseHolds == Spec => RegisterPromise
<1>1. Init => Register!Init
  <2> SUFFICES ASSUME Init PROVE Register!Init
    OBVIOUS
  <2>1. \A d \in Devices : remote[d] = [r \in Records |-> Register!Version(r, 0)]
    BY DEF Init, NoCopy, NoRow, Register!Version
  <2>2. \A d \in Devices, r \in Records : Draft(pending[d][r]) = Register!NoDraft
    BY DEF Init, NoOperations, NoOperation, Draft, Register!NoDraft
  <2>3. Sent = {}
    BY DEF Init, Sent, NoPost
  <2> QED  BY <2>1, <2>2, <2>3 DEF Init, Register!Init
<1>2. IInv /\ [Next]_vars => [Register!Next]_(Register!registerVars)
  BY RegisterSteps DEF RegisterStep
<1> QED  BY <1>1, <1>2, Invariant, PTL DEF Spec, RegisterPromise, Register!Spec
=============================================================================
