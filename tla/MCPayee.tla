------------------------------- MODULE MCPayee -------------------------------
(***************************************************************************)
(* Instances of the payee for TLC.  1.0 is 64 units and an amount is a     *)
(* multiple of 1/8, so that interest, exchange rates and conversions do    *)
(* round.  "cnb" has no market and pays the fees of memo-only actions.     *)
(***************************************************************************)
EXTENDS PayeeSafety, TLC

Unit == 8    \* one QUANTUM

MCAssets == {"usd", "eth", "cnb"}
MCUsers  == {"alice", "bob", "mem"}

\* Nothing but the version of a fresh deployment (v) and the oracle signer.
EmptyTables(v) ==
  [market |-> [a \in Assets |-> NoMarket],
   supply |-> [k \in Positions |-> [exists |-> FALSE, coll |-> 0]],
   borrow |-> [k \in Positions |-> [exists |-> FALSE, principal |-> 0, index |-> 0]],
   tx |-> {}, transfer |-> {}, user |-> {},
   proposal |-> [p \in Proposals |-> NoProposal],
   sysversion |-> v, signers |-> {"signer"}, property |-> {}, legacy |-> {},
   ver |-> [r \in Rows |-> 0]]
Genesis5 == EmptyTables(5)
Genesis3 == EmptyTables(3)
Genesis2 == EmptyTables(2)

(***************************************************************************)
(* Payments.  In a template, time is the blocks since the previous output. *)
(***************************************************************************)
Pays(u, cur, amount, time, act) ==
  [id |-> 0, sender |-> u, cur |-> cur, amount |-> amount, time |-> time, act |-> act,
   fmt |-> "packed"]
Fee(u, time, act) == Pays(u, Currency("cnb"), Unit, time, act)
Asks(u, time, act, a, amt) ==
  Fee(u, time, act) @@ [asset |-> a, amt |-> amt, ok |-> TRUE]

Memo(fmt, o)       == [o EXCEPT !.fmt = fmt]
Make(content)      == Fee("mem", 0, "make") @@ [content |-> content, ok |-> TRUE]
SetTo(key, value)  == Make([act |-> "set-property", key |-> key, value |-> value,
                            ok |-> TRUE])
MakeVersion(v)     == SetTo("sysversion", v)
Vote(u, p)         == Fee(u, 0, "vote") @@ [prop |-> p]
Report(a, price, at, time) ==
  Memo("none", Fee(NoSender, time, "price")) @@
    [asset |-> a, price |-> price, at |-> at, signed |-> {"signer"}, ok |-> TRUE]
Liquidate(u, b, amount, a, seized, time) ==
  Pays(u, Currency(b), amount, time, "liquidate")
    @@ [asset |-> a, user |-> seized, ok |-> TRUE]
QuickBorrow(u, cur, amount, b, amt, time) ==
  Pays(u, cur, amount, time, "quick-borrow")
    @@ [asset |-> b, amt |-> amt, ok |-> TRUE]

\* Initial rate 1, reserve 25%, incentive 12.5%, collateral 75%, close 50%.
Params(max) ==
  [init |-> 64, rf |-> 16, li |-> 8, cap |-> 0, cf |-> 48, close |-> 32,
   base |-> 4, mult |-> 16, jump |-> 32, kink |-> 48, maxPledge |-> max,
   threshold |-> 1]
ListMarket(a, max, price) ==
  Make([act |-> "market", asset |-> a, symbol |-> a, ctoken |-> a,
        p |-> Params(max), price |-> price])

Numbered(seq) == [k \in 1..Len(seq) |-> [seq[k] EXCEPT !.id = k]]

\* usd and eth listed and open.
TwoMarkets ==
  << ListMarket("usd", 0, 64), Vote("mem", 1),
     Make([act |-> "open-market", asset |-> "usd"]), Vote("mem", 3),
     ListMarket("eth", 30 * Unit, 128), Vote("mem", 5),
     Make([act |-> "open-market", asset |-> "eth"]), Vote("mem", 7) >>

(***************************************************************************)
(* Supply side: usd already lent out, so that the exchange rate moves.     *)
(***************************************************************************)
SupplyPrefix ==
  Numbered(TwoMarkets \o
    << Pays("bob", Currency("usd"), 40 * Unit, 0, "supply"),
       Pays("bob", Currency("eth"), 15 * Unit, 0, "supply"),
       QuickBorrow("alice", Currency("eth"), 16 * Unit, "usd", 16 * Unit, 0) >>)

SupplyInputs ==
  { Pays("bob", Currency("usd"), 30 * Unit, 3, "supply"),
    Pays("bob", CToken("usd"), 11 * Unit, 1, "redeem"),
    Pays("bob", CToken("usd"), 7 * Unit, 0, "pledge"),
    Pays("bob", CToken("eth"), 10 * Unit, 0, "pledge"),
    Pays("bob", Currency("eth"), 9 * Unit, 1, "quick-pledge"),
    QuickBorrow("alice", Currency("eth"), 10 * Unit, "usd", Unit, 0),
    Pays("bob", Currency("usd"), 3 * Unit, 1, "quick-pledge"),
    Asks("bob", 0, "unpledge", "usd", 2 * Unit),
    Asks("alice", 1, "unpledge", "eth", 3 * Unit),
    Asks("alice", 0, "quick-redeem", "eth", 6 * Unit),
    Asks("bob", 1, "quick-redeem", "usd", 3 * Unit),
    Pays("alice", Currency("usd"), 20 * Unit, 1, "repay") }

(***************************************************************************)
(* Borrow side: alice owes usd and some of the eth she pledged, so that her*)
(* debt of usd is the limit of what may be seized when the price of eth    *)
(* falls a little, and the close factor when it falls a lot; bob has       *)
(* pledged usd.                                                            *)
(***************************************************************************)
BorrowPrefix ==
  Numbered(TwoMarkets \o
    << Pays("bob", Currency("usd"), 40 * Unit, 0, "quick-pledge"),
       Pays("bob", Currency("eth"), 10 * Unit, 0, "supply"),
       QuickBorrow("alice", Currency("eth"), 16 * Unit, "usd", 7 * Unit, 0),
       Asks("alice", 0, "borrow", "eth", 7 * Unit) >>)

BorrowInputs ==
  { Report("eth", 72, 2, 1),
    Report("eth", 160, 3, 0),
    Report("eth", 32, 3, 1),
    Asks("alice", 1, "borrow", "usd", 2 * Unit),
    Asks("bob", 0, "borrow", "eth", 16 * Unit),
    QuickBorrow("bob", Currency("usd"), 5 * Unit, "eth", 2 * Unit, 1),
    Pays("alice", Currency("usd"), 9 * Unit, 1, "repay"),
    Pays("bob", Currency("eth"), 7 * Unit, 1, "repay"),
    Liquidate("bob", "usd", 5 * Unit, "eth", "alice", 1),
    Liquidate("bob", "usd", 60 * Unit, "eth", "alice", 1),
    Asks("alice", 1, "quick-redeem", "eth", Unit),
    Asks("alice", 0, "unpledge", "eth", Unit),
    Asks("bob", 1, "unpledge", "usd", 20 * Unit) }

(***************************************************************************)
(* Crashes: one payment of every kind, accepted or refused, on tables where*)
(* alice is below water.                                                   *)
(***************************************************************************)
CrashPrefix ==
  Numbered(TwoMarkets \o
    << Pays("bob", Currency("usd"), 40 * Unit, 0, "quick-pledge"),
       QuickBorrow("alice", Currency("eth"), 16 * Unit, "usd", 22 * Unit, 0),
       Pays("bob", Currency("usd"), 9 * Unit, 0, "supply"),
       Make([act |-> "close-market", asset |-> "usd"]),
       Make([act |-> "withdraw", asset |-> "usd", amount |-> Unit, to |-> "mem"]),
       Report("eth", 72, 1, 1) >>)

CrashInputs ==
  { Pays("bob", Currency("usd"), 5 * Unit, 1, "supply"),
    Pays("bob", CToken("usd"), 6 * Unit, 1, "redeem"),
    Pays("bob", CToken("usd"), 7 * Unit, 1, "pledge"),
    Pays("mem", Currency("eth"), 4 * Unit, 1, "quick-pledge"),
    Pays("bob", Currency("eth"), 40 * Unit, 1, "quick-pledge"),
    Asks("bob", 1, "unpledge", "usd", 2 * Unit),
    Asks("bob", 1, "quick-redeem", "usd", 3 * Unit),
    Asks("bob", 1, "borrow", "eth", 14 * Unit),
    QuickBorrow("mem", Currency("usd"), 5 * Unit, "eth", Unit, 1),
    Pays("alice", Currency("usd"), 30 * Unit, 1, "repay"),
    Liquidate("bob", "usd", 15 * Unit, "eth", "alice", 1),
    Report("eth", 96, 2, 1),
    Vote("mem", 12),
    Vote("mem", 13) }

(***************************************************************************)
(* Governance: three members, two votes pass; "st" is staff.  bob pledges  *)
(* and borrows usd so that there are reserves to withdraw.                 *)
(***************************************************************************)
Signed(o, ss) == [o EXCEPT !.signed = ss]

GovPrefix ==
  Numbered(
    << ListMarket("usd", 0, 64), Vote("m1", 1), Vote("m2", 1),
       Make([act |-> "open-market", asset |-> "usd"]), Vote("m1", 4), Vote("m2", 4),
       Pays("bob", Currency("usd"), 20 * Unit, 0, "quick-pledge"),
       Asks("bob", 0, "borrow", "usd", 12 * Unit),
       Make([act |-> "close-market", asset |-> "usd"]), Vote("m1", 9),
       Make([act |-> "open-market", asset |-> "usd"]), Vote("m2", 11),
       Make([act |-> "withdraw", asset |-> "usd", amount |-> Unit, to |-> "m1"]),
       Vote("m3", 13),
       Make([act |-> "add-oracle-signer", signer |-> "signer2", ok |-> TRUE]), Vote("m1", 15),
       MakeVersion(5), Vote("m1", 17),
       MakeVersion(4), Vote("m1", 19),
       Report("usd", 60, 1, 8) >>)

GovInputs ==
  { Vote("m1", 9), Vote("m2", 9), Vote("m1", 11), Vote("m2", 13), Vote("m2", 15),
    Vote("bob", 11), Vote("st", 11), Vote("m3", 17), Vote("m3", 19),
    MakeVersion(6), Make([act |-> "retired"]),
    Report("usd", 72, 5, 1),
    Report("usd", 80, 4, 0),
    Signed(Report("usd", 90, 6, 0), {"signer2"}) }

(***************************************************************************)
(* Upgrades: a deployment of version 0, governed by member memos that      *)
(* anyone may send, with users of an older build; votes for versions 2 and *)
(* 5 in every format between payments that are refused or ignored.         *)
(***************************************************************************)
OnePageEach == << {"alice"}, {"mem"} >>
NoPages == <<>>
Genesis0 == [EmptyTables(0) EXCEPT !.user = {"alice", "mem"}, !.legacy = {"alice", "mem"}]

V0(u, o) == Memo("member", [o EXCEPT !.sender = "bob"]) @@ [member |-> u]
V1(o)    == Memo("plain", o)

UpgradePrefix ==
  Numbered(
    << V0("mem", ListMarket("usd", 20 * Unit, 64)), V0("mem", Vote("mem", 1)),
       V0("mem", Make([act |-> "open-market", asset |-> "usd"])), V0("mem", Vote("mem", 3)),
       V1(Pays("bob", Currency("usd"), 15 * Unit, 0, "quick-pledge")),
       V0("mem", MakeVersion(2)),
       V1(MakeVersion(5)) >>)

UpgradeInputs ==
  { V0("mem", Vote("mem", 6)), V0("mem", Vote("mem", 7)),
    V1(Vote("mem", 6)), Vote("mem", 6), Vote("mem", 7),
    V0("mem", SetTo("key", 1)),
    V1(Make([act |-> "foreign"])),
    V1(Asks("bob", 1, "borrow", "usd", 15 * Unit)),
    V1(Pays("bob", Currency("cnb"), 3 * Unit, 0, "supply")),
    Asks("bob", 1, "borrow", "usd", 15 * Unit),
    Asks("bob", 1, "borrow", "usd", 7 * Unit),
    [Asks("bob", 0, "unpledge", "usd", Unit) EXCEPT !.ok = FALSE],
    Asks("alice", 0, "quick-redeem", "usd", Unit),
    Pays("bob", Currency("usd"), 9 * Unit, 1, "quick-pledge"),
    Memo("none", Pays("alice", Currency("usd"), 2 * Unit, 0, "deposit")),
    Report("usd", 70, 0, 1) }

(***************************************************************************)
(* Downgrade: a deployment of version 2 votes for versions 4 and 5.        *)
(***************************************************************************)
DowngradePrefix ==
  Numbered(
    << ListMarket("usd", 20 * Unit, 64), Vote("mem", 1),
       Make([act |-> "open-market", asset |-> "usd"]), Vote("mem", 3),
       Pays("bob", Currency("usd"), 15 * Unit, 0, "quick-pledge"),
       MakeVersion(5),
       MakeVersion(4) >>)

DowngradeInputs ==
  { Vote("mem", 6), Vote("mem", 7),
    Asks("bob", 1, "borrow", "usd", 7 * Unit),
    Report("usd", 70, 0, 1) }

Genesis4 == EmptyTables(4)

\* bob borrows to the limit against the same asset and interest does the rest.
SameAssetPrefix ==
  Numbered(SubSeq(TwoMarkets, 1, 4) \o
    << Pays("bob", Currency("usd"), 20 * Unit, 0, "quick-pledge"),
       Asks("bob", 0, "borrow", "usd", 15 * Unit) >>)

SameAssetInputs ==
  { Liquidate("alice", "usd", 4 * Unit, "usd", "bob", 1),
    Pays("bob", Currency("usd"), 2 * Unit, 0, "repay") }
=============================================================================
