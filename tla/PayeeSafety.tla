----------------------------- MODULE PayeeSafety -----------------------------
(***************************************************************************)
(* What the payee is expected to keep true.  "Settled" tables are the      *)
(* tables after the checkpoint was saved: what every node of the cluster   *)
(* must agree on.  Properties of db hold in the middle of an attempt too.  *)
(***************************************************************************)
EXTENDS Payee

(***************************************************************************)
(* Type invariant                                                          *)
(***************************************************************************)
MarketRow == [exists : BOOLEAN, cash : Int, borrows : Int, reserves : Int,
              ctokens : Int, rate : Int, index : Int, block : Int, price : Int,
              priceAt : Int, closed : BOOLEAN, symbol : STRING, ctoken : STRING,
              p : [ParamNames -> Int]]
SupplyRow == [exists : BOOLEAN, coll : Int]
BorrowRow == [exists : BOOLEAN, principal : Int, index : Int]

TablesOK(s) ==
  /\ s.market \in [Assets -> MarketRow]
  /\ s.supply \in [Positions -> SupplyRow]
  /\ s.borrow \in [Positions -> BorrowRow]
  /\ s.user \subseteq Users /\ s.legacy \subseteq s.user
  /\ s.sysversion \in 0..SysVersion
  /\ s.ver \in [Rows -> 0..MaxOutputs]
  /\ \A x \in s.tx : x.id \in 1..MaxOutputs
  /\ \A x \in s.transfer : x.amount \in Int /\ x.cur.asset \in Assets

\* The variables of the worker and its tables keep their types.
TypeOK ==
  /\ TablesOK(db) /\ TablesOK(settled)
  /\ \A k \in DOMAIN outputs : outputs[k].id = k
  /\ checkpoint \in 0..Len(outputs)
  /\ batch \in checkpoint..Len(outputs)
  /\ sysversion \in 0..SysVersion
  /\ busy \in BOOLEAN /\ faults \in 0..MaxFaults
  /\ pc \in 0..Len(plan)

(***************************************************************************)
(* Money                                                                   *)
(***************************************************************************)
Settled == 1..checkpoint
Outcomes(s, id) == {x \in s.transfer : x.trace[1] = "out" /\ x.trace[2] = id}

Received(cur) == MapThenSumSet(LAMBDA i : outputs[i].amount,
                               {i \in Settled : outputs[i].cur = cur})
Sent(cur) == MapThenSumSet(LAMBDA x : x.amount,
                           {x \in settled.transfer : x.cur = cur})

\* Payments that neither did anything nor were sent back: fees of governance
\* and of memos the payee does not refund.
Swallowed(cur) ==
  MapThenSumSet(LAMBDA i : outputs[i].amount,
    {i \in Settled : /\ outputs[i].cur = cur
                     /\ ~HasTx(settled, i)
                     /\ Outcomes(settled, i) = {}})
\* The gas a user attaches to a memo-only action stays in the wallet.
MemoOnly == {"unpledge", "quick-redeem", "borrow"}
Fees(cur) ==
  MapThenSumSet(LAMBDA i : outputs[i].amount,
    {i \in Settled : /\ outputs[i].cur = cur
                     /\ HasTx(settled, i)
                     /\ outputs[i].act \in MemoOnly})

Listed == {a \in Assets : settled.market[a].exists}
Count(acts) == Cardinality({x \in settled.tx : x.act \in acts})

\* What the wallet holds of an asset beyond the fees is the market's cash,
\* up to the dust of repayments: a repayment keeps what truncating its change
\* to 8 digits leaves over, a liquidation's change is rounded by the column.
CashConserved ==
  \A a \in Listed :
    LET cur  == Currency(a)
        held == Received(cur) - Sent(cur) - Swallowed(cur) - Fees(cur)
        dust == held - settled.market[a].cash
    IN  /\ -QUANTUM * Count({"liquidate"}) <= 2 * dust
        /\ dust <= QUANTUM * Count({"repay", "liquidate"})

\* Every ctoken a market counts is either pledged or in somebody's hands, and
\* the other way round: nothing is minted, burnt or seized on one side only.
CTokensConserved ==
  \A a \in Listed :
    settled.market[a].ctokens
      = Sent(CToken(a)) - Received(CToken(a)) + Swallowed(CToken(a))
          + Fees(CToken(a)) + SumOfSupplies(settled, a)

\* A market's total borrows are owed by its debtors.  Totals truncate and the
\* index rounds up, so the debtors owe at least the total, up to one unit for
\* every rounding of a principal; and at most the rounding of the index more.
Owed(a) == MapThenSumSet(LAMBDA u :
             BorrowBalance(settled.borrow[<<u, a>>], settled.market[a]), Users)
DebtConserved ==
  \A a \in Listed :
    LET roundings == Count({"borrow", "quick-borrow", "repay", "liquidate"})
                       + Cardinality(Users)
        drift == outputs[checkpoint].time * (1 + Owed(a) \div ONE)
    IN  /\ settled.market[a].borrows <= Owed(a) + roundings
        /\ Owed(a) <= settled.market[a].borrows + roundings + drift

\* Nobody's collateral or debt is ever negative, nor is a market's cash, its
\* supply of ctokens or its total of borrows.
NonNegative ==
  /\ \A k \in Positions : settled.supply[k].coll >= 0 /\ settled.borrow[k].principal >= 0
  /\ \A a \in Assets : LET m == settled.market[a]
                        IN  m.cash >= 0 /\ m.ctokens >= 0 /\ m.borrows >= 0

\* The collateral pledged in a market never exceeds its MaxPledge.
PledgeCapped ==
  \A a \in Listed :
    LET max == settled.market[a].p["maxPledge"]
    IN  max <= 0 \/ SumOfSupplies(settled, a) <= max

\* A redeemer never gets more than the ctokens were worth, nor a supplier more
\* ctokens than the payment was worth: the exchange rate never falls, up to
\* the rounding of one division.
RateNeverFalls ==
  [][\A a \in Listed : settled'.market[a].rate >= settled.market[a].rate - 1]_settled

(***************************************************************************)
(* Accounts                                                                *)
(***************************************************************************)

\* Right after a user's borrow, unpledge or quick redeem the account is not
\* below water, whatever crash and retry the handling went through.  A quick
\* borrow may miss it by the fraction of a ctoken that minting truncates.
NoMarkets == [x \in {} |-> NoMarket]
Slack(s, o) ==
  IF o.act # "quick-borrow" THEN 0
  ELSE LET m == FindMarket(s, o.cur.asset)
       IN  CollateralValue(QUANTUM, m)
             + (s.supply[<<o.sender, o.cur.asset>>].coll + 1) * m.p["cf"] * m.price
SettledSafely(s, o) ==
  HasTx(s, o.id) /\ o.act \in {"borrow", "unpledge", "quick-redeem", "quick-borrow"}
    => CalculateAccountLiquidity(s, o.sender, NoMarkets) + Slack(s, o) >= 0
LiquidityKept ==
  [][checkpoint' > checkpoint => SettledSafely(settled', Current)]_vars

\* A liquidation, whatever crash and retry the handling went through, takes at most the
\* close factor's share of the collateral, and no more than it pays for: the debt,
\* interest included, falls by what the liquidator was not given back, up to the
\* rounding of his change, and never below zero, and what is seized, at the discounted
\* price, is worth no more than that, up to the rounding of three divisions.  So a debt
\* smaller than the payment and than what may be seized is the limit of both.
Liquidated == checkpoint' > checkpoint /\ Current.act = "liquidate" /\ HasTx(settled', checkpoint')
SeizedTokens ==
  settled.supply[<<Current.user, Current.asset>>].coll
    - settled'.supply[<<Current.user, Current.asset>>].coll
WithinCloseFactor ==
  LET m == settled.market[Current.asset]
      pledged == settled.supply[<<Current.user, Current.asset>>].coll
  IN  /\ 0 <= SeizedTokens
      /\ SeizedTokens * ONE <= pledged * m.p["close"] + ONE * QUANTUM
DebtOf(s, o) ==
  BorrowBalance(s.borrow[<<o.user, o.cur.asset>>], Loaded(s, o.cur.asset, o))
GivenBack(s, o) ==
  MapThenSumSet(LAMBDA x : x.amount, {x \in Outcomes(s, o.id) : x.cur = o.cur})
SeizurePaid ==
  LET sm == Loaded(settled, Current.asset, Current)
      bm == Loaded(settled, Current.cur.asset, Current)
      repaid == DebtOf(settled, Current) - DebtOf(settled', Current)
      kept   == Current.amount - GivenBack(settled', Current)
      price  == SeizedPrice(sm)
  IN  /\ 0 <= repaid /\ repaid <= DebtOf(settled, Current)
      /\ kept - QUANTUM <= repaid /\ repaid <= kept + QUANTUM
      /\ 2 * SeizedTokens * CurExchangeRate(sm) * price
           <= 2 * repaid * bm.price * ONE
                + bm.price * ONE + price * (ONE + CurExchangeRate(sm))
SeizureBounded == [][Liquidated => WithinCloseFactor /\ SeizurePaid]_vars

(***************************************************************************)
(* Attempts                                                                *)
(***************************************************************************)
RowData(s, r) ==
  CASE r[1] = "market"   -> s.market[r[2]]
    [] r[1] = "supply"   -> s.supply[r[2]].coll
    [] r[1] = "borrow"   -> <<s.borrow[r[2]].principal, s.borrow[r[2]].index>>
    [] r[1] = "proposal" -> s.proposal[r[2]]

\* An output changes a row at most once, however often it is attempted: the
\* row was last written by an earlier output and now carries this one's id.  (A
\* proposal of version 0 is inserted without one; it did not exist before.)
InsertedByV0(r) ==
  r[1] = "proposal" /\ ~db.proposal[r[2]].exists /\ db'.ver[r] = 0
AppliedOnce ==
  [][\A r \in Rows :
       RowData(db', r) # RowData(db, r)
         => /\ db.ver[r] <= checkpoint
            /\ db'.ver[r] = checkpoint + 1 \/ InsertedByV0(r)]_db

\* No row is newer than the output being handled, and a settled one not even
\* that.  A row that were ahead of the log would make the handlers skip, with
\* `if output.ID > row.Version`, an output that never changed it.
VersionsBounded ==
  \A r \in Rows : db.ver[r] <= checkpoint + 1 /\ settled.ver[r] <= checkpoint

\* An output has one outcome: it is never both carried out and refunded, and
\* never refunded twice, not even between a crash and the retry.
Kinds == {"mint", "redeem", "unpledge", "quick-redeem", "borrow", "repay-refund",
          "quick-borrow", "liquidate", "liquidate-refund"}
Refunds(s, id) == {x \in Outcomes(s, id) : x.trace[3] \notin Kinds}
OneOutcome ==
  \A i \in 1..checkpoint+1 :
    /\ Cardinality(Refunds(db, i)) <= 1
    /\ Refunds(db, i) = {} \/ ~HasTx(db, i)

\* Outputs take effect exactly once, in order and as a whole, crashes or not.
Atomic == INSTANCE AtomicLedger WITH log <- outputs, tables <- settled,
                                     done <- checkpoint
EffectsAreAtomic == Atomic!AtomicSpec

\* A vote may deploy the version under which its own retry is handled, and that
\* version may read its memo differently.  Even then an output takes effect as
\* a whole, at most once under the version before and once under its own.
AppliedInWhole ==
  [][checkpoint' > checkpoint =>
       \E v \in 0..settled.sysversion :
         LET once  == ApplyAll(settled, HandleOutput(settled, v, Current))
             again == ApplyAll(once, HandleOutput(once, once.sysversion, Current))
         IN  settled' \in {once, again}]_vars

(***************************************************************************)
(* Governance                                                              *)
(***************************************************************************)

\* A proposal passes with the votes of Threshold different members, each of
\* whom really sent a vote for it: as the sender, and then not as staff, or
\* in a memo of version 0.
VotesBacked ==
  \A p \in Proposals :
    LET row == settled.proposal[p]
    IN  /\ row.passed = (Cardinality(row.votes) >= Threshold)
        /\ \A u \in row.votes :
             /\ u \in Members
             /\ \E i \in Settled :
                  /\ outputs[i].act = "vote" /\ outputs[i].prop = p
                  /\ Voter(outputs[i]) = u
                  /\ outputs[i].fmt = "member" \/ u \notin Staff

\* What the votes decided of a market: the last open or close proposal to pass on
\* it once it was listed.
PassedAt(s, p) == s.ver[<<"proposal", p>>]
PassedOn(s, a, acts) ==
  {p \in Proposals : LET row == s.proposal[p]
                     IN  row.passed /\ row.content.act \in acts /\ row.content.asset = a}
ListedBefore(s, a, p) ==
  Genesis.market[a].exists \/ \E q \in PassedOn(s, a, {"market"}) : PassedAt(s, q) < PassedAt(s, p)
Decisions(s, a) ==
  {p \in PassedOn(s, a, {"open-market", "close-market"}) : ListedBefore(s, a, p)}
ClosedAtFirst(a) == IF Genesis.market[a].exists THEN Genesis.market[a].closed ELSE TRUE
ClosedByVotes(s, a) ==
  LET ds == Decisions(s, a)
  IN  IF ds = {} THEN ClosedAtFirst(a)
      ELSE \A p \in ds : (\A q \in ds : PassedAt(s, q) <= PassedAt(s, p))
                           => s.proposal[p].content.act = "close-market"

\* A passed proposal takes effect, once, when it passes, even if the node stopped
\* between counting the vote and carrying it out.  A market is listed if it was
\* deployed or a vote listed it; it is open if the last open or close proposal to pass
\* on it since was an open one, and before any as it was deployed, or closed.
StatusFollowsVotes ==
  /\ \A a \in Assets :
       a \in Listed <=> Genesis.market[a].exists \/ PassedOn(settled, a, {"market"}) # {}
  /\ \A a \in Listed : settled.market[a].closed = ClosedByVotes(settled, a)

\* No payment is handled under an older version than one before it, whatever the
\* members vote for, however many such votes are in one batch, which is handled under
\* the version that was in force when it was listed, and wherever the node stops.
RulesNeverGoBack == [][sysversion' >= sysversion]_vars

\* payee/sysversion-too-low: the deployed version never goes back.
VersionNeverBack == [][settled'.sysversion >= settled.sysversion]_settled

\* No user is left with the address of version 0 once the system has moved on,
\* wherever the vote that moved it was interrupted.
AddressesMigrated == settled.sysversion >= 1 => settled.legacy = {}

\* A node never gets past a proposal for a version, or with an action, that its
\* build does not know: it waits there for an upgrade of its own.  (Only what
\* the node cannot read at all, an action or the number of a version, it skips.)
Known(o) ==
  o.act = "make" /\ o.fmt = "packed" /\ o.sender # NoSender /\ o.content.act # "unreadable"
    => LET c == o.content
       IN  /\ c.act \in ProposalKinds
           /\ c.act = "set-property" /\ c.key = "sysversion" /\ c.ok => c.value <= SysVersion
KnownVersionsOnly == \A i \in Settled : Known(outputs[i])

\* The price of a market changes by a report of enough registered signers, or
\* by a vote, and by nothing else.
PriceIsSigned ==
  [][checkpoint' > checkpoint
       => \A a \in Listed :
            \/ settled'.market[a].price = settled.market[a].price
            \/ Current.act = "vote"
            \/ /\ Current.act = "price" /\ Current.asset = a
               /\ Current.signed \subseteq settled.signers
               /\ Cardinality(Current.signed) >= settled.market[a].p["threshold"]]_vars

\* Reports may arrive in any order and the price is still the one observed
\* last: no report of the genesis signers is newer than the stored price, and
\* the last of those observed at its time is the one stored.
Reports(a) ==
  {i \in Settled : /\ outputs[i].act = "price" /\ outputs[i].asset = a
                   /\ outputs[i].ok /\ outputs[i].signed = Genesis.signers}
PriceIsFresh ==
  \A a \in Listed : \A i \in Reports(a) :
    /\ outputs[i].at <= settled.market[a].priceAt
    /\ \/ outputs[i].at < settled.market[a].priceAt
       \/ outputs[i].price = settled.market[a].price
       \/ \E j \in Reports(a) : j > i /\ outputs[j].at = outputs[i].at

(***************************************************************************)
(* What a comment says, where the code differs.                            *)
(***************************************************************************)

\* liquidation.go, "update borrow market": what a liquidator repaid is in the
\* cash of the market of the repaid asset.
LiquidationReachesBorrowMarket ==
  [][checkpoint' > checkpoint /\ Current.act = "liquidate" /\ HasTx(settled', checkpoint')
       => settled'.market[Current.cur.asset].cash
            = settled.market[Current.cur.asset].cash + FindTx(settled', checkpoint').repay]_vars

(***************************************************************************)
(* Progress                                                                *)
(***************************************************************************)

\* Every output on chain is eventually handled: refused payments, lock
\* conflicts and crashes delay the log and never stop it.
EveryOutputHandled == []<>(checkpoint = Len(outputs))
=============================================================================
