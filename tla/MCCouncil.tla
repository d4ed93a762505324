------------------------------ MODULE MCCouncil ------------------------------
(***************************************************************************)
(* A node of two, with two admins.  bob owes usd against usd, so that his  *)
(* liquidation meets its own lock, and version 5 is up for a vote.         *)
(***************************************************************************)
EXTENDS MCPayee, Council

CouncilUsers  == {"alice", "bob", "mem", "m2", "a1", "a2"}
CouncilAdmins == <<"a1", "a2">>

CouncilPrefix ==
  Numbered(
    << ListMarket("usd", 0, 64), Vote("mem", 1), Vote("m2", 1),
       Make([act |-> "open-market", asset |-> "usd"]), Vote("mem", 4), Vote("m2", 4),
       Pays("bob", Currency("usd"), 20 * Unit, 0, "quick-pledge"),
       Asks("bob", 0, "borrow", "usd", 15 * Unit),
       MakeVersion(5) >>)

\* Proposals of every kind are read by the payee as the command line wrote them.
Contents ==
  { ListMarket("usd", 20, 64).content, ListMarket("usd", 0, 0).content,
    SetTo("key", 1).content, [SetTo("key", 0).content EXCEPT !.ok = FALSE],
    [act |-> "withdraw", asset |-> "usd", amount |-> 3, to |-> "mem"],
    [act |-> "open-market", asset |-> "usd"], [act |-> "close-market", asset |-> "usd"],
    [act |-> "add-oracle-signer", signer |-> "signer2", ok |-> TRUE],
    [act |-> "rm-oracle-signer", signer |-> "signer"] }
ASSUME ContentsReadable ==
  \A c \in Contents : ReadMemo(BuildProposalMemo(c)).content = c

\* The vote is among the buttons of every kind of proposal.
ASSUME VotesOffered == \A act \in ProposalKinds : OffersVote(act)

CouncilInputs ==
  Payments("a1", {BuildProposalMemo(c) : c \in
    { [act |-> "close-market", asset |-> "usd"],
      [act |-> "set-property", key |-> "sysversion", value |-> 4, ok |-> TRUE] }})
  \cup { Vote("m2", 9), Vote("m2", 10),
         Liquidate("alice", "usd", 4 * Unit, "usd", "bob", 1) }
=============================================================================
