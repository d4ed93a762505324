----------------------------- MODULE Governance -----------------------------
(***************************************************************************)
(* What the members decide and what the oracle reports: the proposal       *)
(* handlers of every system version (proposal.go, proposal_v0.go,          *)
(* proposal_v1.go, proposal_v2.go), the passed-proposal handlers, price.go *)
(* and the three dispatchers.                                              *)
(*                                                                         *)
(* A proposal is named by the output that made it.  Its content c has an   *)
(* action and that action's arguments.  A memo has a format (o.fmt): the   *)
(* member memos of version 0, which name the member (o.member); the plain  *)
(* ones of version 1; the packed ones of version 2 and later.              *)
(***************************************************************************)
EXTENDS Lending

CONSTANTS
  UserPages,   \* the users of an older build by id: what userStore.List returns at a
               \* time (500 in the code; the order of the ids is the table's own)
  Members,     \* system.MemberIDs
  Staff,       \* system.Admins
  Threshold,   \* votes that pass a proposal
  SysVersion   \* core.SysVersion: the newest version this build knows

ASSUME GovernanceAssumption ==
  /\ Members \subseteq Users /\ Staff \subseteq Users
  /\ Threshold \in Nat \ {0} /\ SysVersion \in Nat
  /\ UserPages \in Seq(SUBSET Users)
  /\ \A i, j \in 1..Len(UserPages) : i # j => UserPages[i] \cap UserPages[j] = {}

NoProposal == [exists |-> FALSE, votes |-> {}, passed |-> FALSE,
               content |-> [act |-> "none"]]

\* validateNewSysVersion: going back is refused, a version the build does
\* not know stops the node until it is upgraded.
AnyKnownVersion(v, new) == IF new > SysVersion THEN "halt" ELSE "valid"
AnyNewerVersion(v, new) == IF new <= v THEN "refused" ELSE "valid"
OldVersionFails(v, new) == IF new <= v \/ new > SysVersion THEN "halt" ELSE "valid"
ValidateNewSysVersion(v, new) ==
  IF new <= v THEN "refused" ELSE IF new > SysVersion THEN "halt" ELSE "valid"

\* The actions a proposal may have.  Of the others, core.IsProposalAction still
\* knows some ("retired"); the rest ("foreign") were never a proposal's, or could
\* not be scanned at all ("unreadable").
ProposalKinds ==
  {"market", "withdraw", "open-market", "close-market", "add-oracle-signer",
   "rm-oracle-signer", "set-property"}

\* c.ok: the number of a version, or the public key of a signer, can be read.
Malformed(c) ==
  \/ c.act = "set-property" /\ c.key = ""
  \/ c.act = "set-property" /\ c.key = "sysversion" /\ ~c.ok
  \/ c.act = "add-oracle-signer" /\ ~c.ok

ValidateProposal(v, c) ==
  CASE Malformed(c) -> "refused"
    [] ~Malformed(c) /\ c.act = "set-property" /\ c.key = "sysversion" ->
         ValidateNewSysVersion(v, c.value)
    [] OTHER -> "valid"

\* What is assumed of proposals: the number of a version that can be read is a number,
\* a proposal about a market names an asset, and nobody proposes to set the properties
\* in which the workers keep their own place (payee.go:21, syncer.go:13).
WorkerKeys == {"outputs_checkpoint", "sync_checkpoint"}
TypedContent(c) ==
  /\ c.act = "set-property" => c.key \notin WorkerKeys
  /\ c.act = "set-property" /\ c.key = "sysversion" /\ c.ok => c.value \in Int
  /\ c.act \in {"market", "withdraw", "open-market", "close-market"} => c.asset \in Assets

(***************************************************************************)
(* A market proposal: every parameter is taken over only if it is in range.*)
(* (A negative price threshold is meant to clear it, but the update skips  *)
(* zero integers, so the stored threshold stays.)                          *)
(***************************************************************************)
Accepts(n, x) ==
  CASE n \in {"init", "threshold"}       -> x > 0
    [] n \in {"rf", "base", "mult"}      -> 0 < x /\ x < ONE
    [] n \in {"jump", "kink"}            -> 0 <= x /\ x < ONE
    [] n \in {"cap", "maxPledge"}        -> x >= 0
    [] n = "li"    -> ONE <= 100 * x /\ 10 * x <= 9 * ONE
    [] n = "close" -> ONE <= 20 * x /\ 10 * x <= 9 * ONE
    [] n = "cf"    -> 0 <= x /\ 10 * x <= 9 * ONE

HandleMarketEvent(s, o, c) ==
  LET a == c.asset
      m == Loaded(s, a, o)
  IN  IF ~s.market[a].exists /\ NameTaken(s, c.symbol, c.ctoken) THEN <<Halt>>
      ELSE IF ~s.market[a].exists
      THEN << CreateMarket(a,
                [NoMarket EXCEPT !.exists = TRUE, !.symbol = c.symbol,
                   !.ctoken = c.ctoken, !.p = c.p, !.rate = c.p["init"],
                   !.index = ONE, !.price = c.price, !.priceAt = o.time], o.id) >>
      ELSE << UpdateMarket(s, a,
                [m EXCEPT !.p = [n \in ParamNames |->
                                   IF Accepts(n, c.p[n]) THEN c.p[n] ELSE @[n]],
                          !.price = IF c.price > 0 THEN c.price ELSE @], o.id) >>

\* open-market and close-market
HandleMarketStatus(s, o, c) ==
  IF ~s.market[c.asset].exists THEN <<>>
  ELSE << UpdateMarket(s, c.asset,
            [Loaded(s, c.asset, o) EXCEPT !.closed = (c.act = "close-market")], o.id) >>

\* Reserves are paid out of cash; the trace is the proposal's, not the output's.
HandleWithdraw(s, o, p, c) ==
  LET m == FindMarket(s, c.asset)
      amount == Trunc8(c.amount)
  IN  IF ~s.market[c.asset].exists \/ amount > m.reserves THEN <<>>
      ELSE << InsertTransfer([trace |-> <<"prop", p, "withdraw">>,
                              cur |-> Currency(c.asset), amount |-> amount,
                              to |-> c.to]),
              UpdateMarket(s, c.asset,
                AccrueInterest([m EXCEPT !.cash = @ - amount,
                                         !.reserves = @ - amount], o.time), o.id) >>

\* migrateSystem compares the version being left, not the new one.  Every page of
\* users is a transaction of its own.
MigrateSystem(s, v) ==
  IF v < 1 THEN [i \in 1..Len(UserPages) |-> MigrateToV1(UserPages[i] \cap s.legacy)]
           ELSE <<>>

SetPropertyFirst(s, v, c) ==
  CASE ValidateProposal(v, c) = "refused" -> <<>>
    [] ValidateProposal(v, c) = "halt"    -> <<Halt>>
    [] OTHER -> <<SaveProperty(c.key, c.value)>>
                  \o (IF c.key = "sysversion" THEN MigrateSystem(s, v) ELSE <<>>)
SetProperty(s, v, c) ==
  CASE ValidateProposal(v, c) = "refused" -> <<>>
    [] ValidateProposal(v, c) = "halt"    -> <<Halt>>
    [] OTHER -> (IF c.key = "sysversion" THEN MigrateSystem(s, v) ELSE <<>>)
                  \o <<SaveProperty(c.key, c.value)>>

\* add-oracle-signer and rm-oracle-signer
HandleOracleSigner(s, c) ==
  IF Malformed(c) THEN <<>>
  ELSE << SaveSigners(IF c.act = "add-oracle-signer" THEN s.signers \cup {c.signer}
                                                     ELSE s.signers \ {c.signer}) >>

HandlePassedProposal(s, v, o, p, c) ==
  CASE c.act = "market"     -> HandleMarketEvent(s, o, c)
    [] c.act = "withdraw"   -> HandleWithdraw(s, o, p, c)
    [] c.act \in {"open-market", "close-market"} -> HandleMarketStatus(s, o, c)
    [] c.act \in {"add-oracle-signer", "rm-oracle-signer"} -> HandleOracleSigner(s, c)
    [] c.act = "set-property" -> SetProperty(s, v, c)
    [] OTHER -> <<>>

(***************************************************************************)
(* The proposal service: what the admins are told (module Messenger keeps  *)
(* and delivers it), and the payment by which a member's node passes on    *)
(* what a staff member, who is no member, wants.                           *)
(***************************************************************************)
AlwaysPlain(v) == "plain"
Format(v) == IF v < 2 THEN "plain" ELSE "packed"

ProposalCreated(p, u, v)  == Notify([kind |-> "created", prop |-> p, by |-> u,
                                     fmt |-> Format(v)])
ProposalApproved(p, u, v) == Notify([kind |-> "approved", prop |-> p, by |-> u,
                                     fmt |-> Format(v)])
ProposalPassed(p, v)      == Notify([kind |-> "passed", prop |-> p, by |-> "",
                                     fmt |-> Format(v)])
ForwardProposal(v, o, p, act) ==
  Forward([trace |-> <<o.id, p>>, act |-> act, prop |-> p, fmt |-> Format(v)])

(***************************************************************************)
(* Making and voting                                                       *)
(***************************************************************************)
NewProposal(c) == [NoProposal EXCEPT !.exists = TRUE, !.content = c]

HandleMakeProposal(s, v, o) ==
  CASE o.content.act \notin ProposalKinds ->
         IF o.content.act = "unreadable" \/ (v < 2 /\ o.content.act = "foreign")
         THEN <<>> ELSE <<Halt>>
    [] o.content.act \in ProposalKinds /\ ValidateProposal(v, o.content) = "valid" ->
         << CreateProposal(o.id, NewProposal(o.content), o.id) >>
           \o (IF o.sender \in Members THEN <<ProposalCreated(o.id, o.sender, v)>>
               ELSE IF o.sender \in Staff THEN <<ForwardProposal(v, o, o.id, "shout")>>
               ELSE <<>>)
    [] o.content.act \in ProposalKinds /\ ValidateProposal(v, o.content) = "halt" ->
         <<Halt>>
    [] OTHER -> <<>>

\* A member's node announces the proposal of a staff member.
HandleShoutProposal(s, v, o) ==
  IF o.sender \in Members /\ s.proposal[o.prop].exists
  THEN <<ProposalCreated(o.prop, o.sender, v)>>
  ELSE <<>>

AnyoneMayVote(u) == TRUE
MayVote(u) == u \in Members

\* In version 0 the memo, not the sender, says whose vote it is.
Voter(o) == IF o.fmt = "member" THEN o.member ELSE o.sender

\* This output's vote passed the proposal in an earlier attempt.
NeverResumes(s, p, o) == FALSE
AlwaysResumes(s, p, o) == s.proposal[p].passed
Resumes(s, p, o) == s.proposal[p].passed /\ s.ver[<<"proposal", p>>] = o.id

Voted(row, o) ==
  LET votes == row.votes \cup {Voter(o)}
  IN  [row EXCEPT !.votes = votes, !.passed = Cardinality(votes) >= Threshold]

\* The messages are written before the vote is, so a retry writes them again.
CountFirst(s, v, o, p) ==
  LET voted == Voted(s.proposal[p], o)
  IN  <<UpdateProposal(s, p, voted, o.id)>>
        \o <<ProposalApproved(p, Voter(o), v)>>
        \o (IF voted.passed
            THEN <<ProposalPassed(p, v)>>
                   \o HandlePassedProposal(s, v, o, p, voted.content)
            ELSE <<>>)
CountVote(s, v, o, p) ==
  LET voted == Voted(s.proposal[p], o)
  IN  <<ProposalApproved(p, Voter(o), v)>>
        \o (IF voted.passed THEN <<ProposalPassed(p, v)>> ELSE <<>>)
        \o <<UpdateProposal(s, p, voted, o.id)>>
        \o (IF voted.passed THEN HandlePassedProposal(s, v, o, p, voted.content)
                            ELSE <<>>)

\* A staff member's vote is paid on, not counted, even if the staff member is a
\* member too.  A memo whose trace cannot be scanned names no proposal.
HandleVoteProposal(s, v, o) ==
  LET p == o.prop
      row == s.proposal[p]
      handled == row.passed \/ Voter(o) \in row.votes
  IN  IF ~row.exists THEN <<>>
      ELSE IF o.sender \in Staff THEN <<ForwardProposal(v, o, p, "vote")>>
      ELSE IF ~MayVote(o.sender) THEN <<>>
      ELSE IF ValidateProposal(v, row.content) = "refused" THEN <<>>
      ELSE IF ValidateProposal(v, row.content) = "halt" THEN <<Halt>>
      ELSE IF ~handled THEN CountVote(s, v, o, p)
      ELSE IF Resumes(s, p, o) THEN HandlePassedProposal(s, v, o, p, row.content)
      ELSE <<>>

(***************************************************************************)
(* Version 0: the memo names the member, signed or not, and nothing is     *)
(* validated before the vote counts.  The new row's version is 0.          *)
(***************************************************************************)
HandleCreateProposalV0(s, v, o) ==
  IF o.content.act \notin ProposalKinds THEN <<Halt>>
  ELSE IF ~o.ok THEN <<>>
  ELSE << CreateProposal(o.id, NewProposal(o.content), 0),
          ProposalCreated(o.id, o.member, v) >>

HandleVoteProposalV0(s, v, o) ==
  LET p == o.prop
      row == s.proposal[p]
  IN  IF ~row.exists \/ (row.passed /\ s.ver[<<"proposal", p>>] < o.id) THEN <<>>
      ELSE IF row.passed THEN HandlePassedProposal(s, v, o, p, row.content)
      ELSE IF Voter(o) \in row.votes THEN <<>>
      ELSE CountVote(s, v, o, p)

IsMemberAction(o) ==
  /\ o.fmt = "member" /\ o.member \in Members
  /\ \/ o.act = "vote"
     \/ o.act = "make" /\ o.content.act \notin {"foreign", "unreadable"}

HandleProposalActionV0(s, v, o) ==
  IF o.act = "vote" THEN HandleVoteProposalV0(s, v, o) ELSE HandleCreateProposalV0(s, v, o)

(***************************************************************************)
(* The price oracle.  o.signed are the signers in the signature's mask and *)
(* o.ok is whether the aggregate signature verifies (blst, external).      *)
(***************************************************************************)

VerifyAnySigners(s, m, o) == o.ok /\ Cardinality(o.signed) >= m.p["threshold"]
VerifyPriceData(s, m, o) ==
  /\ o.ok
  /\ o.signed \subseteq s.signers
  /\ Cardinality(o.signed) >= m.p["threshold"]

\* Since version 3 a report observed before the stored one is skipped.
NeverStale(v, m, o) == FALSE
Stale(v, m, o) == v >= 3 /\ m.priceAt > o.at

\* The memo is price data this market takes: otherwise the error makes
\* handleOutput go on and treat the payment as a user's.
IsPrice(s, v, o) ==
  /\ o.act = "price"
  /\ s.market[o.asset].exists
  /\ \/ Outdated(s, o.asset, o)
     \/ Stale(v, s.market[o.asset], o)
     \/ VerifyPriceData(s, s.market[o.asset], o)

HandlePriceEvent(s, v, o) ==
  LET a == o.asset
      m == FindMarket(s, a)
      at == IF v < 3 THEN o.time ELSE o.at
  IN  IF Outdated(s, a, o) \/ Stale(v, m, o) THEN <<>>
      ELSE << UpdateMarket(s, a,
                AccrueInterest([m EXCEPT !.price = o.price, !.priceAt = at], o.time),
                o.id) >>

(***************************************************************************)
(* handleOutput: the statements of one attempt at output o.                *)
(***************************************************************************)
NoSender == "none"

EnsureUser(s, o) == IF o.sender \in s.user THEN Nop ELSE CreateUser(o.sender)

\* A payment that is no price report: the members' actions, else a user's.
Dispatch(s, v, o) ==
  CASE o.act = "make"  -> HandleMakeProposal(s, v, o)
    [] o.act = "vote"  -> HandleVoteProposal(s, v, o)
    [] o.act = "shout" -> HandleShoutProposal(s, v, o)
    [] OTHER -> <<EnsureUser(s, o)>> \o HandleUserAction(Apply(s, EnsureUser(s, o)), v, o)

HandleUnknown(s, o) == <<EnsureUser(s, o), RefundV0(o)>>

\* Version 1 ignores a memo it cannot scan; version 2 takes it for a user's
\* unknown action, which is refunded; version 3 knows the memo "deposit".
RouteV1(v, o) ==
  IF v < 1 /\ IsMemberAction(o) THEN "member"
  ELSE IF o.fmt = "plain" THEN "action" ELSE "ignored"
RouteV2(o) == IF o.fmt = "packed" THEN "action" ELSE "unknown"
RouteV3(o) == IF o.act = "deposit" THEN "ignored" ELSE RouteV2(o)
Route(v, o) ==
  IF o.sender = NoSender THEN "ignored"
  ELSE IF v < 2 THEN RouteV1(v, o)
  ELSE IF v = 2 THEN RouteV2(o)
  ELSE RouteV3(o)

HandleOutput(s, v, o) ==
  CASE IsPrice(s, v, o) -> HandlePriceEvent(s, v, o)
    [] ~IsPrice(s, v, o) /\ Route(v, o) = "member"  -> HandleProposalActionV0(s, v, o)
    [] ~IsPrice(s, v, o) /\ Route(v, o) = "action"  -> Dispatch(s, v, o)
    [] ~IsPrice(s, v, o) /\ Route(v, o) = "unknown" -> HandleUnknown(s, o)
    [] OTHER -> <<>>
=============================================================================
