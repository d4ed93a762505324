------------------------------ MODULE Messenger ------------------------------
(***************************************************************************)
(* How a node tells its admins what happens to proposals: the messages the *)
(* proposal service writes (service/proposal), the table they wait in      *)
(* (store/message), the worker that sends them (worker/messenger) and the  *)
(* service it calls (service/message).                                     *)
(*                                                                         *)
(* Rows are only appended by the payee and only deleted by this worker, so *)
(* during a round the position of a row stands for its id.                 *)
(***************************************************************************)
EXTENDS Integers, Sequences, FiniteSets, SequencesExt

CONSTANTS
  Admins,        \* system.Admins, in the order of the configuration
  ClientID,      \* the node's own Mixin user
  Limit,         \* rows listed in a round (300 in the code)
  Batch,         \* rows sent in a round (70 in the code)
  MaxNetFaults   \* bound: calls that fail, and restarts, in a behaviour

ASSUME MessengerAssumption ==
  /\ Admins \in Seq({Admins[i] : i \in DOMAIN Admins})
  /\ Limit \in Nat \ {0} /\ Batch \in Nat \ {0} /\ MaxNetFaults \in Nat

VARIABLES
  messages,       \* the messages table, in the order of the ids
  conversations,  \* users met since the process started (an LRU cache)
  phase,          \* where the round is: "idle", "meet" or "sent"
  picked,         \* positions of the rows of the round
  inbox,          \* what every admin was shown, in order
  dropped,        \* rows the messenger service refused as invalid
  netFaults       \* failed calls and restarts so far

worker == <<conversations, phase, picked, dropped, netFaults>>
messengerVars == <<messages, inbox, worker>>

Recipients == ToSet(Admins)

MessengerInit ==
  /\ messages = <<>>
  /\ conversations = {}
  /\ phase = "idle"
  /\ picked = {}
  /\ inbox = [a \in Recipients |-> <<>>]
  /\ dropped = {}
  /\ netFaults = 0

(***************************************************************************)
(* The proposal service.  n.kind is what happened to proposal n.prop and   *)
(* n.by whose vote it was.  A creation is a post and, under it, a button   *)
(* to pay a vote; a vote and the passing quote the post.                   *)
(***************************************************************************)
BuildMessage(kind, n, a) ==
  [kind |-> kind, prop |-> n.prop, fmt |-> n.fmt, to |-> a,
   by |-> IF kind = "approved" THEN n.by ELSE ""]

MessagesFor(n, a) ==
  IF n.kind = "created" THEN <<BuildMessage("post", n, a), BuildMessage("buttons", n, a)>>
  ELSE <<BuildMessage(n.kind, n, a)>>
MessagesOf(n) == FlattenSeq([i \in 1..Len(Admins) |-> MessagesFor(n, Admins[i])])

\* uuid.Modify of the proposal, the node, the admin and what the message says.
MessageID(row) == <<row.kind, row.prop, row.by, row.to>>

\* The items of a proposal that lead somewhere, and the buttons: at most six,
\* in the order of the items, and the vote is the last one.
ListItems(act) ==
  CASE act = "market"   -> <<"asset", "ctoken">>
    [] act = "withdraw" -> <<"asset", "receiver">>
    [] act \in {"open-market", "close-market"} -> <<"asset">>
    [] act = "add-oracle-signer" -> <<"client">>
    [] OTHER -> <<>>
GenerateButtons(items) == SubSeq(items, 1, IF Len(items) < 6 THEN Len(items) ELSE 6)
OffersVote(act) ==
  "vote" \in ToSet(GenerateButtons(<<"creator", "pay">> \o ListItems(act) \o <<"vote">>))

\* messageStore.Create: one transaction.
Create(rows) == messages' = messages \o rows

(***************************************************************************)
(* run: list, meet, send, delete.                                          *)
(***************************************************************************)
Oldest(n) == {k \in 1..Len(messages) : k <= n}

\* The first row of each user among the listed ones, at most Batch of them.
FirstRows == Oldest(IF Batch < Limit THEN Batch ELSE Limit)
Picked ==
  LET first == {k \in Oldest(Limit) :
                  \A j \in 1..k-1 : messages[j].to # messages[k].to}
  IN  {k \in first : Cardinality({j \in first : j <= k}) <= Batch}

Return == phase' = "idle" /\ picked' = {}

Fails == netFaults < MaxNetFaults /\ netFaults' = netFaults + 1

ListMessages ==
  /\ phase = "idle"
  /\ messages # <<>>
  /\ picked' = Picked
  /\ phase' = "meet"
  /\ UNCHANGED <<messages, conversations, inbox, dropped, netFaults>>

Unmet == {k \in picked : messages[k].to \notin conversations}

\* Users are met in the order of the rows, and the first failure ends the round.
\* The node itself needs no conversation, and no call that might fail.
MeetNext(k) ==
  /\ phase = "meet"
  /\ k \in Unmet /\ \A j \in Unmet : k <= j

Meet ==
  /\ \E k \in picked : MeetNext(k) /\ conversations' = conversations \cup {messages[k].to}
  /\ UNCHANGED <<messages, phase, picked, inbox, dropped, netFaults>>

MeetFails ==
  /\ \E k \in picked : MeetNext(k) /\ messages[k].to # ClientID
  /\ Fails /\ Return
  /\ UNCHANGED <<messages, conversations, inbox, dropped>>

\* What the service is asked to deliver: the node does not write to itself.
Raws == {messages[k] : k \in {j \in picked : messages[j].to # ClientID}}

Shown(box) == {MessageID(box[i]) : i \in DOMAIN box}

\* The messenger shows a message id once.  It promises no order in a batch.
Unshown(a) == {r \in Raws : r.to = a /\ MessageID(r) \notin Shown(inbox[a])}
Deliver ==
  \E order \in [Recipients -> UNION {SetToSeqs(Unshown(a)) : a \in Recipients}] :
    /\ \A a \in Recipients : order[a] \in SetToSeqs(Unshown(a))
    /\ inbox' = [a \in Recipients |-> inbox[a] \o order[a]]

ReadyToSend == phase = "meet" /\ Unmet = {}

Send ==
  /\ ReadyToSend
  /\ Deliver
  /\ phase' = "sent"
  /\ UNCHANGED <<messages, conversations, picked, dropped, netFaults>>

\* The call fails, or only its answer is lost.
SendFails ==
  /\ ReadyToSend
  /\ Deliver \/ UNCHANGED inbox
  /\ Fails /\ Return
  /\ UNCHANGED <<messages, conversations, dropped>>

\* Error 10002 (invalid data) counts as sent, for every row of the batch.
SendRefused ==
  /\ ReadyToSend
  /\ Fails
  /\ dropped' = dropped \cup Raws
  /\ phase' = "sent"
  /\ UNCHANGED <<messages, conversations, picked, inbox>>

\* DELETE ... WHERE id IN (the rows of the round).
WithoutIDs(rows) == messages
Without(rows) ==
  LET rest == DOMAIN messages \ rows
      nth(i) == CHOOSE k \in rest : Cardinality({j \in rest : j <= k}) = i
  IN  [i \in 1..Cardinality(rest) |-> messages[nth(i)]]

Delete ==
  /\ phase = "sent"
  /\ messages' = Without(picked)
  /\ Return
  /\ UNCHANGED <<conversations, inbox, dropped, netFaults>>

DeleteFails ==
  /\ phase = "sent"
  /\ Fails /\ Return
  /\ UNCHANGED <<messages, conversations, inbox, dropped>>

\* The process starts again: the cache and the round are gone.
Restart ==
  /\ Fails /\ Return
  /\ conversations' = {}
  /\ UNCHANGED <<messages, inbox, dropped>>

\* Run tries for ever; only a call that fails ends a round early.
Round == ListMessages \/ Meet \/ Send \/ Delete
Mishap == MeetFails \/ SendFails \/ SendRefused \/ DeleteFails

MessengerNext == Round \/ Mishap
=============================================================================
