--------------------------- MODULE SharedStateSync ---------------------------
(***************************************************************************)
(* The operational records the devices of one business share (products,    *)
(* customers, tables ...): the server's versioned rows                     *)
(* (services/pos/sharedState.ts) and the outbox each device keeps for them *)
(* (src/lib/sync/sharedState.ts).                                          *)
(*                                                                         *)
(* A value stands for the whole JSON value of a record, or for its         *)
(* tombstone.  A row's revision is the length of its history; the          *)
(* fingerprint a poll compares is the vector of the revisions, because the *)
(* trigger of migration 0055 changes it with every write.  The pages of a  *)
(* large snapshot are one answer: a client that meets two fingerprints     *)
(* throws the pages away, which is PollFails.                              *)
(***************************************************************************)
EXTENDS Integers, Sequences

CONSTANTS
  Devices,      \* one SharedStateSync each: a browser of the business
  Records,      \* kind and record id
  Values,       \* the contents an edit can give a record
  NoValue,      \* no row, no operation
  Guarded,      \* records that need an active outlet: the products
  Unfit,        \* values the forms of the device let pass and the server does
                \* not: a product or a customer named with blanks only
  MaxEvents     \* bound: edits, lost requests and reloads of each device

ASSUME ValuesAssumption == NoValue \notin Values
ASSUME GuardedAssumption == Guarded \subseteq Records
ASSUME UnfitAssumption == Unfit \subseteq Values
ASSUME MaxEventsAssumption == MaxEvents \in [Devices -> Nat]

VARIABLES
  history,      \* history[r]: the values row r has had, one for each revision
  access,       \* what the plan and the outlets of the business allow
  late,         \* requests no client waits for that the server may still get
  remote,       \* remote[d][r]: the device's copy of the row
  pending,      \* pending[d][r]: the operation in the durable outbox
  conflicts,    \* conflicts[d][r]: why the operation is held back
  ready,        \* ready[d]: a snapshot has been hydrated
  known,        \* known[d]: fingerprint of the last complete snapshot
  post,         \* post[d]: the flush in flight
  poll,         \* poll[d]: the newest refresh in flight
  events        \* events[d] counts towards the bound

serverVars == <<history, access, late>>
outboxVars == <<pending, conflicts>>
copyVars == <<remote, ready, known>>
vars == <<serverVars, outboxVars, copyVars, post, poll, events>>

\* "over" is not in the code: it remembers the value the operation is meant to
\* replace, so that a write over something its author never saw can be told.
Operation == [base : Nat, value : Values, over : Values \union {NoValue}]
NoOperation == [base |-> 0, value |-> NoValue, over |-> NoValue]
Operations == [Records -> Operation \union {NoOperation}]
NoOperations == [r \in Records |-> NoOperation]

Row == [revision : Nat, value : Values \union {NoValue}]
NoRow == [revision |-> 0, value |-> NoValue]
NoCopy == [r \in Records |-> NoRow]

\* An active outlet, none, or a plan that refuses every write: read-only, or a
\* Free plan whose selection is not this business or this outlet.
Access == {"open", "noOutlet", "readOnly"}

Fingerprint == [Records -> Nat]
NoFingerprint == [r \in Records |-> -1]

Answer == [result : {"none", "version", "conflict", "blocked"}, revision : Nat]
NoAnswers == [r \in Records |-> [result |-> "none", revision |-> 0]]

\* "mine" is pending.get(key)===sent: the outbox still holds the object sent.
Post == [phase : {"idle", "sent", "answered"}, ops : Operations,
         mine : SUBSET Records, answers : [Records -> Answer]]
NoPost == [phase |-> "idle", ops |-> NoOperations, mine |-> {},
           answers |-> NoAnswers]

Poll == [phase : {"idle", "asked", "snapshot"},
         known : Fingerprint \union {NoFingerprint}, rows : [Records -> Row]]
NoPoll == [phase |-> "idle", known |-> NoFingerprint, rows |-> NoCopy]

TypeOK ==
  /\ history \in [Records -> Seq(Values)]
  /\ access \in Access
  /\ late \subseteq Operations
  /\ remote \in [Devices -> [Records -> Row]]
  /\ pending \in [Devices -> Operations]
  /\ conflicts \in [Devices -> [Records -> {"none", "conflict", "blocked"}]]
  /\ ready \in [Devices -> BOOLEAN]
  /\ known \in [Devices -> Fingerprint \union {NoFingerprint}]
  /\ post \in [Devices -> Post]
  /\ poll \in [Devices -> Poll]
  /\ events \in [Devices -> Nat]

Init ==
  /\ history = [r \in Records |-> <<>>]
  /\ access \in Access
  /\ late = {}
  /\ remote = [d \in Devices |-> NoCopy]
  /\ pending = [d \in Devices |-> NoOperations]
  /\ conflicts = [d \in Devices |-> [r \in Records |-> "none"]]
  /\ ready = [d \in Devices |-> FALSE]
  /\ known = [d \in Devices |-> NoFingerprint]
  /\ post = [d \in Devices |-> NoPost]
  /\ poll = [d \in Devices |-> NoPoll]
  /\ events = [d \in Devices |-> 0]

-----------------------------------------------------------------------------
(* The server *)

Carries(op) == op.value # NoValue
Revision(r) == Len(history[r])
ValueAt(r, n) == IF n = 0 THEN NoValue ELSE history[r][n]
Current(r) == ValueAt(r, Revision(r))
Version == [r \in Records |-> Revision(r)]
Rows == [r \in Records |-> [revision |-> Revision(r), value |-> Current(r)]]

\* A product without an active outlet: OUTLET_SETUP_REQUIRED, or a FREE_ refusal.
Refused(r) == r \in Guarded /\ access = "noOutlet"

\* Mutant of Applies: the row is written whatever its revision.
AppliesAnyRevision(op, r) == Carries(op) /\ ~Refused(r)

\* INSERT ... ON CONFLICT DO UPDATE ... WHERE revision = baseRevision.
Applies(op, r) == Carries(op) /\ ~Refused(r) /\ op.base = Revision(r)

\* A lost acknowledgement sent again: the row holds exactly this value.
Replays(op, r) ==
  /\ Carries(op) /\ ~Refused(r) /\ op.base # Revision(r)
  /\ op.value = Current(r)

AnswerTo(op, r) ==
  CASE ~Carries(op)   -> [result |-> "none", revision |-> 0]
    [] Carries(op) /\ Refused(r) -> [result |-> "blocked", revision |-> 0]
    [] Applies(op, r) -> [result |-> "version", revision |-> Revision(r) + 1]
    [] Replays(op, r) -> [result |-> "version", revision |-> Revision(r)]
    [] OTHER          -> [result |-> "conflict", revision |-> 0]

\* An unfit product is told before anything is written (validOperations()),
\* another unfit record when it would be written: an error the savepoint's
\* handler throws on.
Breaks(op, r) == op.value \in Unfit /\ (r \in Guarded \/ Applies(op, r))

\* The plan, or one unfit operation, refuses the whole request.
Servable(ops) ==
  access # "readOnly" /\ \A r \in Records : ~Breaks(ops[r], r)

\* Each operation under its own savepoint: where one conflicts or is blocked,
\* the others are written even so.
Write(ops) ==
  history' = [r \in Records |-> IF Servable(ops) /\ Applies(ops[r], r)
                                THEN Append(history[r], ops[r].value)
                                ELSE history[r]]

\* POST /api/v1/sync/state, under the tenant's lock.
ServePost(d) ==
  /\ post[d].phase = "sent"
  /\ Servable(post[d].ops)
  /\ Write(post[d].ops)
  /\ post' = [post EXCEPT ![d].phase = "answered",
                          ![d].answers = [r \in Records |-> AnswerTo(post[d].ops[r], r)]]
  /\ UNCHANGED <<access, late, outboxVars, copyVars, poll, events>>

\* The same for a request whose client has given up or was closed.
ServeLate(ops) ==
  /\ Write(ops)
  /\ late' = late \ {ops}
  /\ UNCHANGED <<access, outboxVars, copyVars, post, poll, events>>

\* GET /api/v1/sync/state: a repeatable-read snapshot, unless the device knows
\* this version of the rows already (ReceiveUnchanged).
ServePoll(d) ==
  /\ poll[d].phase = "asked"
  /\ poll[d].known # Version
  /\ poll' = [poll EXCEPT ![d].phase = "snapshot", ![d].rows = Rows]
  /\ UNCHANGED <<serverVars, outboxVars, copyVars, post, events>>

\* An outlet is opened or closed; the plan runs out, is renewed or changed.
ChangeAccess ==
  /\ access' \in Access \ {access}
  /\ UNCHANGED <<history, late, outboxVars, copyVars, post, poll, events>>

-----------------------------------------------------------------------------
(* The device *)

\* An event the bound counts.
Eventful(d) ==
  /\ events[d] < MaxEvents[d]
  /\ events' = [events EXCEPT ![d] = @ + 1]

Queued(d, r) == Carries(pending[d][r])

\* What the screen shows: the outbox over the copy.
Visible(d, r) == IF Queued(d, r) THEN pending[d][r].value ELSE remote[d][r].value

\* flush() takes every operation that is not held back and starts one request,
\* unless one is in flight already.
Sendable(ops, held) == {r \in Records : Carries(ops[r]) /\ held[r] = "none"}
Request(ops, held) ==
  [phase |-> "sent",
   ops |-> [r \in Records |-> IF r \in Sendable(ops, held) THEN ops[r] ELSE NoOperation],
   mine |-> Sendable(ops, held), answers |-> NoAnswers]
StartFlush(d, ops, held) ==
  post' = [post EXCEPT ![d] =
             IF post[d].phase = "idle" /\ Sendable(ops, held) # {}
             THEN Request(ops, held) ELSE post[d]]

Asked(d) == [phase |-> "asked", known |-> known[d], rows |-> NoCopy]

\* Mutant of Edit: every edit starts again from the copy.
EditRebases(d, r, v) ==
  /\ ready[d]
  /\ Eventful(d)
  /\ v # Visible(d, r)
  /\ pending' = [pending EXCEPT ![d][r] =
       [base |-> remote[d][r].revision, value |-> v, over |-> remote[d][r].value]]
  /\ post' = [post EXCEPT ![d].mine = @ \ {r}]
  /\ UNCHANGED <<serverVars, conflicts, copyVars, poll>>

\* The cashier changes a record: track() and queue().  An edit replaces the
\* operation that waits and keeps its base.
Edit(d, r, v) ==
  /\ ready[d]
  /\ Eventful(d)
  /\ v # Visible(d, r)
  /\ pending' = [pending EXCEPT ![d][r] =
       IF Queued(d, r) THEN [@ EXCEPT !.value = v]
       ELSE [base |-> remote[d][r].revision, value |-> v, over |-> remote[d][r].value]]
  /\ post' = [post EXCEPT ![d].mine = @ \ {r}]
  /\ UNCHANGED <<serverVars, conflicts, copyVars, poll>>

\* The timer of schedule() fires.
Flush(d) ==
  /\ post[d].phase = "idle"
  /\ Sendable(pending[d], conflicts[d]) # {}
  /\ StartFlush(d, pending[d], conflicts[d])
  /\ UNCHANGED <<serverVars, outboxVars, copyVars, poll, events>>

\* Mutant of Abandon: the whole flight is kept, not what was sent.
AbandonWhole(d) == late' \in {late, late \union {post[d]}}

\* A request the server has not seen may still reach it.
Abandon(d) ==
  late' \in {late} \union
            {late \union {post[d].ops} : phase \in {"sent"} \cap {post[d].phase}}

\* After a flush, answered or not, a refresh follows while anything is held back.
RefreshIfHeld(d, held) ==
  poll' = IF \E r \in Records : held[r] # "none"
          THEN [poll EXCEPT ![d] = Asked(d)] ELSE poll

\* The request or its answer is lost, or takes more than 15 seconds.
FlushFails(d) ==
  /\ post[d].phase # "idle"
  /\ Eventful(d)
  /\ Abandon(d)
  /\ post' = [post EXCEPT ![d] = NoPost]
  /\ RefreshIfHeld(d, conflicts[d])
  /\ UNCHANGED <<history, access, outboxVars, copyVars>>

\* The server refuses the request as a whole: only the status shows an error,
\* no operation is held back, and the next refresh sends them all again.  The
\* refusal changes nothing at the server: it is served and received in one step.
FlushRefused(d) ==
  /\ post[d].phase = "sent"
  /\ ~Servable(post[d].ops)
  /\ post' = [post EXCEPT ![d] = NoPost]
  /\ RefreshIfHeld(d, conflicts[d])
  /\ UNCHANGED <<serverVars, outboxVars, copyVars, events>>

\* Mutant of AckRemote: the copy takes what is on the screen by now.
AckRemoteVisible(d) == [r \in Records |->
  IF post[d].answers[r].result = "version"
  THEN [revision |-> post[d].answers[r].revision, value |-> Visible(d, r)]
  ELSE remote[d][r]]

\* Mutant of AckPending: a newer edit of the record goes with the one sent.
AckPendingAll(d) == [r \in Records |->
  IF post[d].answers[r].result = "version" THEN NoOperation ELSE pending[d][r]]

\* Mutant of AckConflicts: what the server refuses is not held back.
AckConflictsOnly(d) == [r \in Records |->
  CASE post[d].answers[r].result = "version"  -> "none"
    [] post[d].answers[r].result = "conflict" -> "conflict"
    [] OTHER -> conflicts[d][r]]

\* The copy, the outbox and the marks after the answer to a flush.
AckRemote(d) == [r \in Records |->
  IF post[d].answers[r].result = "version"
  THEN [revision |-> post[d].answers[r].revision, value |-> post[d].ops[r].value]
  ELSE remote[d][r]]
AckPending(d) == [r \in Records |->
  IF post[d].answers[r].result # "version" THEN pending[d][r]
  ELSE IF r \in post[d].mine THEN NoOperation
  ELSE IF Queued(d, r)
       THEN [pending[d][r] EXCEPT !.base = post[d].answers[r].revision,
                                  !.over = post[d].ops[r].value]
       ELSE NoOperation]
AckConflicts(d) == [r \in Records |->
  CASE post[d].answers[r].result = "version"  -> "none"
    [] post[d].answers[r].result = "conflict" -> "conflict"
    [] post[d].answers[r].result = "blocked" /\ Queued(d, r) -> "blocked"
    [] OTHER -> conflicts[d][r]]

\* The answer to a flush arrives.
Ack(d) ==
  /\ post[d].phase = "answered"
  /\ remote' = [remote EXCEPT ![d] = AckRemote(d)]
  /\ pending' = [pending EXCEPT ![d] = AckPending(d)]
  /\ conflicts' = [conflicts EXCEPT ![d] = AckConflicts(d)]
  /\ post' = [post EXCEPT ![d] = NoPost]
  /\ RefreshIfHeld(d, AckConflicts(d))
  /\ UNCHANGED <<serverVars, ready, known, events>>

\* A refresh starts: on the timer, on focus, after another kind of page is
\* opened.  It supersedes the refresh in flight.
Refresh(d) ==
  /\ poll[d].phase # "asked"
  /\ poll' = [poll EXCEPT ![d] = Asked(d)]
  /\ UNCHANGED <<serverVars, outboxVars, copyVars, post, events>>

\* resumeAfterOutletUpdate(): what the outlet or the plan held back is released.
Resume(d) ==
  /\ conflicts' = [conflicts EXCEPT ![d] = [r \in Records |->
                     IF @[r] = "blocked" THEN "none" ELSE @[r]]]
  /\ poll' = [poll EXCEPT ![d] = Asked(d)]
  /\ UNCHANGED <<serverVars, pending, copyVars, post, events>>

PollFails(d) ==
  /\ poll[d].phase # "idle"
  /\ poll' = [poll EXCEPT ![d] = NoPoll]
  /\ UNCHANGED <<serverVars, outboxVars, copyVars, post, events>>

\* "Unchanged": the copy stands, the outbox is flushed.  The answer carries no
\* rows, so it is served and received in one step: one that arrives after a
\* later write does what PollFails and Flush do.
ReceiveUnchanged(d) ==
  /\ poll[d].phase = "asked"
  /\ poll[d].known = Version
  /\ ready[d]
  /\ poll' = [poll EXCEPT ![d] = NoPoll]
  /\ StartFlush(d, pending[d], conflicts[d])
  /\ UNCHANGED <<serverVars, outboxVars, copyVars, events>>

\* An operation whose value the cloud holds at a later revision is done.
Settled(d, r) ==
  /\ Queued(d, r)
  /\ poll[d].rows[r].revision > pending[d][r].base
  /\ poll[d].rows[r].value = pending[d][r].value
Unsettled(d) == [r \in Records |->
  IF Settled(d, r) THEN NoOperation ELSE pending[d][r]]
StillHeld(d) == [r \in Records |->
  IF Settled(d, r) THEN "none" ELSE conflicts[d][r]]

\* A whole snapshot replaces the copy; settled operations leave the outbox and
\* the others are flushed.
ReceiveSnapshot(d) ==
  /\ poll[d].phase = "snapshot"
  /\ remote' = [remote EXCEPT ![d] = poll[d].rows]
  /\ pending' = [pending EXCEPT ![d] = Unsettled(d)]
  /\ conflicts' = [conflicts EXCEPT ![d] = StillHeld(d)]
  /\ ready' = [ready EXCEPT ![d] = TRUE]
  /\ known' = [known EXCEPT ![d] = [r \in Records |-> poll[d].rows[r].revision]]
  /\ poll' = [poll EXCEPT ![d] = NoPoll]
  /\ StartFlush(d, Unsettled(d), StillHeld(d))
  /\ UNCHANGED <<serverVars, events>>

\* resolveConflict(): the owner keeps one of the two versions, after a refresh
\* of his own that another may have superseded.  It does nothing when that
\* refresh, or the flush after it, ends in an error: he asks again.
Resolve(d, r, keep) ==
  /\ ready[d]
  /\ Queued(d, r)
  /\ conflicts[d][r] # "none"
  /\ pending' = [pending EXCEPT ![d][r] =
       IF keep = "server" THEN NoOperation
       ELSE [@ EXCEPT !.base = remote[d][r].revision, !.over = remote[d][r].value]]
  /\ conflicts' = [conflicts EXCEPT ![d][r] = "none"]
  /\ StartFlush(d, pending'[d], conflicts'[d])
  /\ UNCHANGED <<serverVars, copyVars, poll, events>>

\* The tab is closed or reloaded.  The outbox is durable; without a network the
\* copy is restored from the cached baselines.
Reload(d, cached) ==
  /\ Eventful(d)
  /\ cached => ready[d]
  /\ Abandon(d)
  /\ remote' = [remote EXCEPT ![d] = IF cached THEN @ ELSE NoCopy]
  /\ ready' = [ready EXCEPT ![d] = cached]
  /\ known' = [known EXCEPT ![d] = NoFingerprint]
  /\ conflicts' = [conflicts EXCEPT ![d] = [r \in Records |->
                     IF Queued(d, r) THEN @[r] ELSE "none"]]
  /\ post' = [post EXCEPT ![d] = NoPost]
  /\ poll' = [poll EXCEPT ![d] = NoPoll]
  /\ UNCHANGED <<history, access, pending>>

-----------------------------------------------------------------------------

User(d) ==
  \/ \E r \in Records, v \in Values : Edit(d, r, v)
  \/ \E r \in Records, keep \in {"server", "local"} : Resolve(d, r, keep)
  \/ \E cached \in BOOLEAN : Reload(d, cached)

Sync(d) ==
  \/ Flush(d)
  \/ FlushFails(d)
  \/ FlushRefused(d)
  \/ Ack(d)
  \/ Refresh(d)
  \/ Resume(d)
  \/ ReceiveUnchanged(d)
  \/ ReceiveSnapshot(d)
  \/ PollFails(d)

Server ==
  \/ \E d \in Devices : ServePost(d) \/ ServePoll(d)
  \/ \E ops \in late : ServeLate(ops)
  \/ ChangeAccess

Next ==
  \/ \E d \in Devices : User(d) \/ Sync(d)
  \/ Server

Spec == Init /\ [][Next]_vars

\* A refresh follows 6 seconds after the last one ended, a request is served or
\* refused and answered within its 15 seconds again and again, and what
\* supersedes a refresh does not do so for ever.
Fairness == \A d \in Devices :
  /\ WF_vars(Refresh(d))
  /\ SF_vars(ServePoll(d))
  /\ SF_vars(ReceiveUnchanged(d) \/ ReceiveSnapshot(d))
  /\ WF_vars(ServePost(d) \/ FlushRefused(d))
  /\ WF_vars(Ack(d))

FairSpec == Spec /\ Fairness

-----------------------------------------------------------------------------
(* Safety *)

\* A device's copy of a row is a version the server really had, whatever
\* answers overtake each other: an edit is never based on a row that never was.
CopiesTrue == \A d \in Devices, r \in Records :
  /\ remote[d][r].revision <= Revision(r)
  /\ remote[d][r].value = ValueAt(r, remote[d][r].revision)

\* The requests the server may still get.
Sent == late \union {post[d].ops : d \in {e \in Devices : post[e].phase = "sent"}}

\* No blind overwrite: a row changes only by an operation whose author knew the
\* value it replaces, be it the operation of a late request, of a second
\* device, or of a newer edit re-based on an acknowledgement.
NoBlindOverwrite == [][\A r \in Records : history'[r] # history[r] =>
  \E ops \in Sent : /\ history'[r] = Append(history[r], ops[r].value)
                    /\ ops[r].over = Current(r)]_vars

\* An operation leaves the durable outbox only when the server has taken its
\* value at a revision after its base, or when the owner gives it up for the
\* server's version.
DropsOnlyTaken == [][\A d \in Devices, r \in Records :
  Queued(d, r) /\ pending'[d][r] = NoOperation =>
    \/ \E n \in DOMAIN history[r] : /\ n > pending[d][r].base
                                    /\ history[r][n] = pending[d][r].value
    \/ Resolve(d, r, "server")]_vars

Draft(op) == [base |-> op.base, value |-> op.value]

\* Outboxes, flushes, refreshes, requests that are lost or late, and reloads,
\* implement SharedRegister.
Register == INSTANCE SharedRegister WITH
  copy <- remote,
  drafts <- [d \in Devices |-> [r \in Records |-> Draft(pending[d][r])]],
  sent <- [r \in Records |->
             {Draft(ops[r]) : ops \in {o \in Sent : Carries(o[r])}}]

RegisterPromise == Register!Spec

-----------------------------------------------------------------------------
(* Liveness *)

\* What refuses every request of the device: the plan, or an unfit operation
\* that nothing holds back and every flush takes along.
Stopped(d) ==
  \/ access = "readOnly"
  \/ \E r \in Records : pending[d][r].value \in Unfit /\ conflicts[d][r] = "none"

\* No edit waits in silence: it is at last taken by the server, or shown to the
\* owner as held back, unless whole requests are refused.  Such a refusal marks
\* nothing; it is asked of every later state again, so once the plan is renewed
\* and the unfit record mended for good every edit goes on to settle.
EditSettles == \A d \in Devices, r \in Records :
  Queued(d, r) ~> ~Queued(d, r) \/ conflicts[d][r] # "none" \/ Stopped(d)

\* "Automatic refresh ... fetch server data; propagation is polling-based"
\* (docs/cloud-financial-architecture.md): when all edits are over, every
\* device with nothing to send shows the server's rows.
Converges == \A d \in Devices, r \in Records :
  <>[](~Queued(d, r) => remote[d][r] = Rows[r])
=============================================================================
