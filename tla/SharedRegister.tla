--------------------------- MODULE SharedRegister ---------------------------
(***************************************************************************)
(* What the shared records promise, without requests, answers, polls and   *)
(* reloads: an optimistic register.  A device edits what it has seen; its  *)
(* draft is written only over the very version it replaces, and waits      *)
(* until it is taken or given up.                                          *)
(***************************************************************************)
EXTENDS Integers, Sequences

CONSTANTS Devices, Records, Values, NoValue

VARIABLES
  history,    \* the values each record has had
  copy,       \* the version of each record a device has seen last
  drafts,     \* what it wants to write, and over which version
  sent        \* drafts of each record that may still arrive

registerVars == <<history, copy, drafts, sent>>

NoDraft == [base |-> 0, value |-> NoValue]

Version(r, n) ==
  [revision |-> n, value |-> IF n = 0 THEN NoValue ELSE history[r][n]]
Versions(r) == {Version(r, n) : n \in 0 .. Len(history[r])}

Init ==
  /\ history = [r \in Records |-> <<>>]
  /\ copy = [d \in Devices |-> [r \in Records |-> Version(r, 0)]]
  /\ drafts = [d \in Devices |-> [r \in Records |-> NoDraft]]
  /\ sent = [r \in Records |-> {}]

\* A device edits what it shows.  The version its draft replaces stays the one it
\* saw when it began, whatever it has seen since.
Edit(d, r) == \E v \in Values :
  /\ drafts' = [drafts EXCEPT ![d][r] =
       [base |-> IF @ = NoDraft THEN copy[d][r].revision ELSE @.base, value |-> v]]
  /\ UNCHANGED <<history, copy, sent>>

\* A draft is taken when its value has come after the version it replaces.
Taken(d, r) ==
  \E n \in drafts[d][r].base + 1 .. Len(history[r]) : history[r][n] = drafts[d][r].value

\* Only what is in the outbox is sent; what was sent may be lost.
Sends(d) ==
  /\ sent' = [r \in Records |-> sent'[r]]
  /\ \A r \in Records : sent'[r] \subseteq sent[r] \union ({drafts'[d][r]} \ {NoDraft})

\* The owner takes the server's version.
GiveUp(d, r) ==
  /\ drafts' = [drafts EXCEPT ![d][r] = NoDraft]
  /\ Sends(d)
  /\ UNCHANGED <<history, copy>>

\* The device hears of versions there are or were, in any order.  Its drafts wait,
\* unless they are taken, or go on from the version the device has now.
Exchange(d) ==
  /\ copy' = [copy EXCEPT ![d] = [r \in Records |-> copy'[d][r]]]
  /\ drafts' = [drafts EXCEPT ![d] = [r \in Records |-> drafts'[d][r]]]
  /\ \A r \in Records :
       /\ copy'[d][r] \in {copy[d][r]} \union Versions(r)
       /\ \/ drafts'[d][r] = drafts[d][r]
          \/ drafts'[d][r] = NoDraft /\ Taken(d, r)
          \/ /\ drafts[d][r] # NoDraft
             /\ drafts'[d][r] = [drafts[d][r] EXCEPT !.base = copy'[d][r].revision]
  /\ Sends(d)
  /\ UNCHANGED history

\* Drafts that were sent are written, each over the version it replaces.
Write ==
  /\ history' = [r \in Records |-> history'[r]]
  /\ sent' = [r \in Records |-> sent'[r]]
  /\ \A r \in Records :
       /\ \/ history'[r] = history[r]
          \/ \E w \in sent[r] : /\ w.base = Len(history[r])
                                /\ history'[r] = Append(history[r], w.value)
       /\ sent'[r] \subseteq sent[r]
  /\ UNCHANGED <<copy, drafts>>

Next ==
  \/ \E d \in Devices : Exchange(d) \/ \E r \in Records : Edit(d, r) \/ GiveUp(d, r)
  \/ Write

Spec == Init /\ [][Next]_registerVars
=============================================================================
