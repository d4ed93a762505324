------------------------------- MODULE Council -------------------------------
(***************************************************************************)
(* One node and the people who govern it: its payee (module Payee), its    *)
(* messenger (module Messenger) and the memos between them (module Wire).  *)
(*                                                                         *)
(* The payee tells the admins of a proposal; an admin pays a vote with the *)
(* button of the message; the payee sees that the vote is one of its own   *)
(* staff and pays the same vote from the node's wallet; that payment comes *)
(* back as an output of a member and counts.  A proposal made by staff is  *)
(* announced the same way, by a "shout" of the node.                       *)
(***************************************************************************)
EXTENDS PayeeSafety, Messenger, Wire

CONSTANTS
  VoteAsset,    \* system.VoteAsset, of which a proposal or a vote costs
  VoteAmount,   \* system.VoteAmount
  Pressers,     \* bound: the admins who press a button; any other would pay the
                \* same code to the same effect
  MaxPayments   \* bound: payments by people, those of the node not counted

\* Proposals are all traces an output may have, given here to those after the
\* prefix and to the proposals in it.
ASSUME CouncilAssumption ==
  /\ Len(Prefix)+1..MaxOutputs \subseteq Proposals
  /\ \A k \in 1..Len(Prefix) : Prefix[k].act = "make" => k \in Proposals
  /\ Recipients = Staff
  /\ ClientID \in Members \ Staff /\ Pressers \subseteq Staff
  /\ VoteAsset \in Assets /\ VoteAmount \in Nat /\ MaxPayments \in Nat

VARIABLE paid   \* what the node has paid from its own wallet

councilVars == <<vars, messengerVars, paid>>

CouncilInit == Init /\ MessengerInit /\ paid = {}

(***************************************************************************)
(* The payee.  A notify statement writes messages, a forward statement     *)
(* pays.  What the prefix tells the admins has been delivered.             *)
(***************************************************************************)
Issued == IF busy' /\ pc' > pc THEN plan[pc'] ELSE Nop

InPrefix == checkpoint < Len(Prefix)

Announce ==
  IF Issued.t # "notify" THEN UNCHANGED <<messages, inbox>>
  ELSE IF InPrefix
  THEN /\ inbox' = [a \in Recipients |-> inbox[a] \o MessagesFor(Issued.data, a)]
       /\ UNCHANGED messages
  ELSE Create(MessagesOf(Issued.data)) /\ UNCHANGED inbox

\* walletService.HandleTransfer: Mixin pays a trace once.
HandleTransfer ==
  paid' = IF Issued.t = "forward" /\ ~InPrefix
          THEN LET x == Issued.data
               IN  paid \cup {[trace |-> x.trace, act |-> x.act, prop |-> x.prop,
                               memo |-> ProposalMemo(x.fmt, x.act, x.prop)]}
          ELSE paid

PayeeWorks ==
  /\ Worker
  /\ Announce /\ HandleTransfer
  /\ UNCHANGED worker

(***************************************************************************)
(* Payments.  They arrive between attempts (see Receive).                  *)
(***************************************************************************)
With(r, q) == [x \in DOMAIN r \cup DOMAIN q |-> IF x \in DOMAIN r THEN r[x] ELSE q[x]]

Payments(u, memos) ==
  { With([id |-> 0, sender |-> u, cur |-> Currency(VoteAsset), amount |-> VoteAmount,
          time |-> 0], ReadMemo(m)) : m \in memos }

ByPeople == {k \in Len(Prefix)+1..Len(outputs) : "trace" \notin DOMAIN outputs[k]}
MayPay == Cardinality(ByPeople) < MaxPayments

\* A proposal is known to the other nodes' staff once a member announced it.
Announced(p) ==
  \E k \in 1..Len(outputs) :
    /\ outputs[k].sender \in Members
    /\ \/ outputs[k].act = "make" /\ k = p
       \/ outputs[k].act = "shout" /\ outputs[k].prop = p

PayIn(i) ==
  /\ MayPay
  /\ i.act = "vote" => Announced(i.prop)
  /\ Receive(i)
  /\ UNCHANGED <<messengerVars, paid>>

\* The code behind the button is one payment of the node and the proposal, for
\* whichever admin is first.
Used(p) == \E k \in ByPeople : /\ outputs[k].sender \in Staff
                               /\ outputs[k].act = "vote" /\ outputs[k].prop = p

Buttons(a) == {row \in ToSet(inbox[a]) :
                 /\ row.kind = "buttons" /\ ~Used(row.prop)
                 /\ OffersVote(db.proposal[row.prop].content.act)}
PressVote(a) ==
  /\ MayPay
  /\ \E i \in Payments(a, {ProposalMemo(row.fmt, "vote", row.prop) : row \in Buttons(a)}) :
       Receive(i)
  /\ UNCHANGED <<messengerVars, paid>>

Arrived(x) == \E k \in 1..Len(outputs) :
                "trace" \in DOMAIN outputs[k] /\ outputs[k].trace = x.trace

Arrive ==
  /\ \E x \in paid : /\ ~Arrived(x)
                   /\ \E i \in Payments(ClientID, {x.memo}) : Receive(With(i, [trace |-> x.trace]))
  /\ UNCHANGED <<messengerVars, paid>>

\* The process dies and starts again.  (For the payee, a statement that fails is
\* the same; module Payee has it as Fault.  A crash while nothing is in memory
\* would be a stutter.)
Crash ==
  /\ ~InPrefix
  /\ busy \/ batch > checkpoint \/ conversations # {}
  /\ Restart
  /\ Abandon /\ UNCHANGED <<faults, paid>>

CouncilNext ==
  \/ PayeeWorks
  \/ MessengerNext /\ UNCHANGED <<vars, paid>>
  \/ \E i \in Inputs : PayIn(i)
  \/ \E a \in Pressers : PressVote(a)
  \/ Arrive
  \/ Crash

CouncilSpec == CouncilInit /\ [][CouncilNext]_councilVars

\* Both workers loop for ever and the network delivers what was paid, so that
\* nothing stops while there is work; nobody has to make a proposal or to vote.
\* People's payments and faults being bounded, a behaviour with infinitely many
\* steps has infinitely many of the workers and the network.  (This is weaker
\* than a condition for each of them, and TLC checks it faster.)
Idle == ~HasWork /\ messages = <<>> /\ \A x \in paid : Arrived(x)
FairCouncil == CouncilSpec /\ ([]<>Idle \/ []<><<TRUE>>_councilVars)

(***************************************************************************)
(* Properties                                                              *)
(***************************************************************************)
Kept(row) ==
  \/ \E k \in DOMAIN messages : MessageID(messages[k]) = MessageID(row)
  \/ MessageID(row) \in Shown(inbox[row.to])
  \/ \E r \in dropped : MessageID(r) = MessageID(row)

Note(kind, p, u) == [kind |-> kind, prop |-> p, by |-> u, fmt |-> ""]

\* Every vote that counted and every proposal that passed is on its way to
\* every admin, or was shown, or was refused by the messenger: no crash between
\* counting and announcing leaves the admins without it.
EveryDecisionAnnounced ==
  \A p \in Proposals : \A a \in Staff :
    /\ \A u \in settled.proposal[p].votes :
         Kept(BuildMessage("approved", Note("approved", p, u), a))
    /\ settled.proposal[p].passed => Kept(BuildMessage("passed", Note("passed", p, ""), a))

\* An admin sees a button, a vote or a result only below the post it belongs
\* to, which it quotes, in spite of retries and of batches without an order
\* (unless the messenger refused the post).
QuotesFollowPosts ==
  \A a \in Staff : \A i \in DOMAIN inbox[a] :
    LET row == inbox[a][i]
    IN  \/ row.kind = "post"
        \/ \E j \in 1..i-1 : inbox[a][j].kind = "post" /\ inbox[a][j].prop = row.prop
        \/ \E r \in dropped : r.kind = "post" /\ r.prop = row.prop /\ r.to = a

\* What the node pays, and what a button makes an admin pay, is read back by
\* the payee as what it was meant to be: an action number is never taken for
\* another's, though the formats write the same number differently.
MemosReadable ==
  /\ \A x \in paid : ReadMemo(x.memo) = [fmt |-> Format(sysversion), act |-> x.act, prop |-> x.prop]
  /\ \A k \in ByPeople :
       outputs[k].sender \in Staff /\ outputs[k].act \in {"vote", "shout"}
         => /\ outputs[k].act = "vote" /\ outputs[k].prop \in Proposals
            /\ outputs[k].fmt = Format(sysversion)

\* Every vote that counted is eventually told to every admin.  (Once told it
\* stays told, so at some point all of them are.)
Told(kind, p, u, a) ==
  \/ <<kind, p, u, a>> \in Shown(inbox[a])
  \/ \E r \in dropped : MessageID(r) = <<kind, p, u, a>>
EveryVoteTold ==
  []<>(\A p \in Proposals : \A u \in settled.proposal[p].votes : \A a \in Staff :
         Told("approved", p, u, a))

\* The vote of a staff member eventually becomes the vote of the node, unless
\* the proposal passes without it or is no longer valid.
StaffVoted(p) == \E k \in Settled : /\ outputs[k].sender \in Staff
                                    /\ outputs[k].act = "vote" /\ outputs[k].prop = p
StaffVoteCounts ==
  []<>(\A p \in Proposals :
         StaffVoted(p) => LET row == settled.proposal[p]
                          IN  \/ ClientID \in row.votes \/ row.passed
                              \/ ValidateProposal(db.sysversion, row.content) = "refused")
=============================================================================
