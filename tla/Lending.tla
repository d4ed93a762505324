------------------------------- MODULE Lending -------------------------------
(***************************************************************************)
(* The ten user actions of worker/payee, each as the tuple of statements   *)
(* its handler issues when it runs on tables s, under system version v, on *)
(* output o.                                                               *)
(*                                                                         *)
(* An output is a payment of o.amount of currency o.cur by o.sender with a *)
(* decoded memo: o.act, and where the action has them an asset, an amount  *)
(* o.amt and a user; o.ok is whether the memo body scans.  o.id orders the *)
(* outputs and o.time is the 15-second block of its creation time.         *)
(*                                                                         *)
(* The payee is the only writer of these tables and handles one output at  *)
(* a time, so reading everything at the start of an attempt reads what the *)
(* code reads as it goes along.                                            *)
(***************************************************************************)
EXTENDS Store

(***************************************************************************)
(* Outcomes: money sent back, and money sent.                              *)
(***************************************************************************)

\* transferOut: the trace is derived from the output, so a retry finds it.
Transfer(o, kind, cur, amount) ==
  InsertTransfer([trace |-> <<"out", o.id, kind>>, cur |-> cur,
                  amount |-> Column8(amount), to |-> o.sender])

\* handleRefundEventV0
RefundV0(o) == Transfer(o, "compound_refund", o.cur, o.amount)

\* A compound.Error that reaches handleOutput: its message is part of the
\* refund's trace; without FlagRefund it is dropped and the payment kept.
Raise(o, msg, flagged) ==
  IF flagged THEN Transfer(o, msg, o.cur, o.amount) ELSE Nop

\* returnOrRefundError
Reject(v, o, msg, flagged) ==
  IF v < 3 THEN RefundV0(o) ELSE Raise(o, msg, flagged)

\* "if tx.ID == 0": nothing has been decided about this output yet.
FirstAlways(s, o) == TRUE
First(s, o) == ~HasTx(s, o.id)

\* What was decided on the first attempt is kept by the later ones.
Record(s, o, tx) == IF HasTx(s, o.id) THEN Nop ELSE InsertTx(tx)
DecidedAgain(s, o, tx) == tx
Decided(s, o, tx) == IF HasTx(s, o.id) THEN FindTx(s, o.id) ELSE tx
Tx(o, ctokens, repay) ==
  [id |-> o.id, act |-> o.act, ctokens |-> ctokens, repay |-> repay]

\* The row is there before anything else is read of it: the handlers go on with
\* the tables Apply(s, create).
GetOrCreateSupply(s, u, a) ==
  IF s.supply[<<u, a>>].exists THEN Nop ELSE CreateSupply(u, a)
GetOrCreateBorrow(s, u, a) ==
  IF s.borrow[<<u, a>>].exists THEN Nop ELSE CreateBorrow(u, a)

Outdated(s, a, o) == s.ver[<<"market", a>>] >= o.id

Loaded(s, a, o) == AccrueInterest(FindMarket(s, a), o.time)

(***************************************************************************)
(* service/account: liquidity of a user, markets given in ms replacing the *)
(* stored rows.  Scale ONE^4.                                              *)
(***************************************************************************)
CollateralValue(coll, m) == coll * m.rate * m.p.cf * m.price
BorrowValue(balance, m)  == balance * m.price * ONE * ONE

Liquidity(markets, supplies, borrows, u, ms) ==
  LET market(a) == IF a \in DOMAIN ms THEN ms[a] ELSE AfterFind(markets[a])
      supplied  == {a \in Assets : supplies[<<u, a>>].exists}
      borrowed  == {a \in Assets : borrows[<<u, a>>].exists}
  IN  MapThenSumSet(LAMBDA a :
          CollateralValue(supplies[<<u, a>>].coll, market(a)), supplied)
      - MapThenSumSet(LAMBDA a :
          BorrowValue(BorrowBalance(borrows[<<u, a>>], market(a)), market(a)),
          borrowed)
CalculateAccountLiquidity(s, u, ms) == Liquidity(s.market, s.supply, s.borrow, u, ms)

SeizeTokenAllowed(liquidity) == liquidity < 0

HasClosedMarkets(s, u) ==
  \E a \in Assets : /\ s.market[a].exists /\ s.market[a].closed
                    /\ s.borrow[<<u, a>>].exists \/ s.supply[<<u, a>>].exists

PledgeFitsAlone(s, a, m, ctokens) ==
  m.p.maxPledge <= 0 \/ ctokens <= m.p.maxPledge
PledgeFits(s, a, m, ctokens) ==
  m.p.maxPledge <= 0 \/ SumOfSupplies(s, a) + ctokens <= m.p.maxPledge

(***************************************************************************)
(* Supply side                                                             *)
(***************************************************************************)

\* A supply row after ctokens were pledged or released, and a market after
\* they were minted for, or redeemed into, an amount of the underlying.
Pledged(row, n) == [row EXCEPT !.exists = TRUE, !.coll = @ + n]
ReleasedNothing(row, n) == row
Released(row, n) == [row EXCEPT !.coll = @ - n]
MintedUncounted(m, n, amount) == [m EXCEPT !.cash = @ + amount]
Minted(m, n, amount) == [m EXCEPT !.ctokens = @ + n, !.cash = @ + amount]
RedeemedUnpaid(m, n, amount) == [m EXCEPT !.ctokens = @ - n]
Redeemed(m, n, amount) == [m EXCEPT !.cash = @ - amount, !.ctokens = @ - n]

HandleSupply(s, v, o) ==
  LET a == o.cur.asset
      m == Loaded(s, a, o)
      ctokens == Trunc8(Div16(o.amount, CurExchangeRate(m)))
  IN  IF ~HasMarket(s, o.cur) THEN <<Reject(v, o, "market-not-found", FALSE)>>
      ELSE IF Outdated(s, a, o) THEN <<>>
      ELSE IF m.closed THEN <<Reject(v, o, "market-closed", TRUE)>>
      ELSE IF CurExchangeRate(m) = 0 THEN <<Halt>>
      ELSE IF ctokens <= 0 THEN <<Reject(v, o, "amount-too-small", TRUE)>>
      ELSE << Record(s, o, Tx(o, ctokens, 0)),
              Transfer(o, "mint", CToken(a), ctokens),
              UpdateMarket(s, a, Minted(m, ctokens, o.amount), o.id) >>

HandlePledge(s, v, o) ==
  LET u == o.sender
      a == o.cur.asset
      m == Loaded(s, a, o)
      create == GetOrCreateSupply(s, u, a)
      t == Apply(s, create)
      first == First(s, o)
  IN  IF ~HasCToken(s, o.cur) THEN <<Raise(o, "market-not-found", FALSE)>>
      ELSE IF Outdated(s, a, o) THEN <<>>
      ELSE IF m.closed THEN <<Reject(v, o, "market-closed", TRUE)>>
      ELSE IF first /\ ~(o.amount <= m.ctokens /\ m.p.cf > 0)
        THEN <<create, Reject(v, o, "pledge-denied", TRUE)>>
      ELSE IF first /\ ~PledgeFits(t, a, m, o.amount)
        THEN <<create, Raise(o, "max-pledge-exceeded", TRUE)>>
      ELSE << create,
              Record(s, o, Tx(o, o.amount, 0)),
              UpdateSupply(s, u, a, Pledged(t.supply[<<u, a>>], o.amount), o.id),
              UpdateMarket(s, a, m, o.id) >>

HandleRedeem(s, v, o) ==
  LET a == o.cur.asset
      m == Loaded(s, a, o)
      amount == Trunc8(Mul16(CurExchangeRate(m), o.amount))
  IN  IF ~HasCToken(s, o.cur) THEN <<Reject(v, o, "market-not-found", FALSE)>>
      ELSE IF Outdated(s, a, o) THEN <<>>
      ELSE IF m.closed THEN <<Reject(v, o, "market-closed", TRUE)>>
      ELSE IF First(s, o) /\ ~(o.amount <= m.ctokens /\ RedeemAllowed(m, o.amount))
        THEN <<Reject(v, o, "pledge-denied", TRUE)>>
      ELSE << Record(s, o, Tx(o, o.amount, 0)),
              Transfer(o, "redeem", Currency(a), amount),
              UpdateMarket(s, a, Redeemed(m, o.amount, amount), o.id) >>

HandleUnpledge(s, v, o) ==
  LET u == o.sender
      a == o.asset
      amt == Trunc8(o.amt)
      m == Loaded(s, a, o)
      row == s.supply[<<u, a>>]
      first == First(s, o)
      liquidity == CalculateAccountLiquidity(s, u, [x \in {a} |-> m])
  IN  IF ~o.ok THEN <<Reject(v, o, "mtgscan", FALSE)>>
      ELSE IF ~HasCToken(s, CToken(a)) THEN <<Raise(o, "market-not-found", FALSE)>>
      ELSE IF Outdated(s, a, o) THEN <<>>
      ELSE IF m.closed THEN <<Reject(v, o, "market-closed", TRUE)>>
      ELSE IF ~row.exists THEN <<Reject(v, o, "supply-not-found", v >= 5)>>
      ELSE IF first /\ amt > row.coll
        THEN <<Reject(v, o, "insufficient-collaterals", TRUE)>>
      ELSE IF first /\ CollateralValue(amt, m) > liquidity
        THEN <<Reject(v, o, "insufficient-borrow-balance", TRUE)>>
      ELSE << Record(s, o, Tx(o, amt, 0)),
              UpdateSupply(s, u, a, Released(row, amt), o.id),
              Transfer(o, "unpledge", CToken(a), amt),
              UpdateMarket(s, a, m, o.id) >>

HandleQuickPledge(s, v, o) ==
  LET u == o.sender
      a == o.cur.asset
      m == Loaded(s, a, o)
      create == GetOrCreateSupply(s, u, a)
      t == Apply(s, create)
      ctokens == Trunc8(Div16(o.amount, CurExchangeRate(m)))
  IN  IF ~HasMarket(s, o.cur) THEN <<Reject(v, o, "market-not-found", FALSE)>>
      ELSE IF Outdated(s, a, o) THEN <<>>
      ELSE IF m.closed THEN <<Reject(v, o, "market-closed", TRUE)>>
      ELSE IF m.p.cf <= 0 THEN <<Reject(v, o, "pledge-disallowed", TRUE)>>
      ELSE IF CurExchangeRate(m) = 0 THEN <<create, Halt>>
      ELSE IF ctokens <= 0
        THEN <<create, Reject(v, o, "ctoken-too-small", TRUE)>>
      ELSE IF First(s, o) /\ ~PledgeFits(t, a, m, ctokens)
        THEN <<create, Raise(o, "max-pledge-exceeded", TRUE)>>
      ELSE << create,
              Record(s, o, Tx(o, ctokens, 0)),
              UpdateSupply(s, u, a, Pledged(t.supply[<<u, a>>], ctokens), o.id),
              UpdateMarket(s, a, Minted(m, ctokens, o.amount), o.id) >>

\* The one handler that does not skip an outdated output.
HandleQuickRedeem(s, v, o) ==
  LET u == o.sender
      a == o.asset
      tokens == Trunc8(o.amt)
      m == Loaded(s, a, o)
      row == s.supply[<<u, a>>]
      first == First(s, o)
      amount == Trunc8(Mul16(tokens, CurExchangeRate(m)))
      liquidity == CalculateAccountLiquidity(s, u, [x \in {a} |-> m])
  IN  IF ~o.ok THEN <<Reject(v, o, "mtgscan", FALSE)>>
      ELSE IF ~HasCToken(s, CToken(a)) THEN <<Reject(v, o, "market-not-found", FALSE)>>
      ELSE IF m.closed THEN <<Reject(v, o, "market-closed", TRUE)>>
      ELSE IF ~row.exists THEN <<Reject(v, o, "supply-not-found", v >= 5)>>
      ELSE IF first /\ ~(tokens <= m.ctokens /\ RedeemAllowed(m, tokens))
        THEN <<Reject(v, o, "redeem-disallowed", TRUE)>>
      ELSE IF first /\ tokens > row.coll
        THEN <<Reject(v, o, "insufficient-collaterals", TRUE)>>
      ELSE IF first /\ tokens * CurExchangeRate(m) * m.p.cf * m.price > liquidity
        THEN <<RefundV0(o)>>
      ELSE << Record(s, o, Tx(o, tokens, 0)),
              UpdateSupply(s, u, a, Released(row, tokens), o.id),
              Transfer(o, "quick-redeem", Currency(a), amount),
              UpdateMarket(s, a, Redeemed(m, tokens, amount), o.id) >>

(***************************************************************************)
(* Borrow side                                                             *)
(***************************************************************************)

\* The market can lend amt and the account can carry it.
CanBorrow(m, amt, liquidity) ==
  BorrowAllowed(m, amt) /\ BorrowValue(amt, m) <= liquidity

\* A debtor's row and a market after a loan of amt.
LentOnPrincipal(row, m, amt) == [row EXCEPT !.exists = TRUE, !.principal = @ + amt,
                                            !.index = m.index]
Lent(row, m, amt) == [row EXCEPT !.exists = TRUE,
                                 !.principal = BorrowBalance(row, m) + amt,
                                 !.index = m.index]
LentFromNothing(m, amt, time) == AccrueInterest([m EXCEPT !.borrows = @ + amt], time)
LentMarket(m, amt, time) ==
  AccrueInterest([m EXCEPT !.cash = @ - amt, !.borrows = @ + amt], time)

\* The same after a repayment; version 0 let total borrows go below zero.
Repaid(row, m, amt) == [row EXCEPT !.principal = BorrowBalance(row, m) - amt,
                                   !.index = m.index]
RepaidMarket(m, amt, v, time) ==
  AccrueInterest([m EXCEPT !.cash = @ + amt,
                           !.borrows = IF v > 0 /\ @ < amt THEN 0 ELSE @ - amt],
                 time)

HandleBorrow(s, v, o) ==
  LET u == o.sender
      a == o.asset
      amt == Trunc8(o.amt)
      m == Loaded(s, a, o)
      create == GetOrCreateBorrow(s, u, a)
      t == Apply(s, create)
      liquidity == CalculateAccountLiquidity(t, u, [x \in {a} |-> m])
  IN  IF ~o.ok THEN <<Reject(v, o, "mtgscan", FALSE)>>
      ELSE IF ~HasMarket(s, Currency(a)) THEN <<Reject(v, o, "market-not-found", FALSE)>>
      ELSE IF Outdated(s, a, o) THEN <<>>
      ELSE IF m.closed THEN <<Reject(v, o, "market-closed", TRUE)>>
      ELSE IF First(s, o) /\ ~CanBorrow(m, amt, liquidity)
        THEN <<create, Reject(v, o, "borrow-denied", TRUE)>>
      ELSE << create,
              Record(s, o, Tx(o, 0, 0)),
              UpdateBorrow(s, u, a, Lent(t.borrow[<<u, a>>], m, amt), o.id),
              Transfer(o, "borrow", Currency(a), amt),
              UpdateMarket(s, a, LentMarket(m, amt, o.time), o.id) >>

\* Repaying does not look at the market's status.
HandleRepay(s, v, o) ==
  LET u == o.sender
      a == o.cur.asset
      m == Loaded(s, a, o)
      row == s.borrow[<<u, a>>]
      tx == Decided(s, o, Tx(o, 0, Lesser(o.amount, BorrowBalance(row, m))))
      back == Trunc8(o.amount - tx.repay)
  IN  IF ~HasMarket(s, o.cur) THEN <<Reject(v, o, "market-not-found", FALSE)>>
      ELSE IF Outdated(s, a, o) THEN <<>>
      ELSE IF ~row.exists THEN <<Reject(v, o, "borrow-not-found", v >= 5)>>
      ELSE << Record(s, o, tx),
              IF back > 0 THEN Transfer(o, "repay-refund", o.cur, back) ELSE Nop,
              UpdateBorrow(s, u, a, Repaid(row, m, tx.repay), o.id),
              UpdateMarket(s, a, RepaidMarket(m, tx.repay, v, o.time), o.id) >>

\* Supply (underlying or ctoken), pledge and borrow in one payment.
HandleQuickBorrow(s, v, o) ==
  LET u == o.sender
      a == o.cur.asset     \* supply market
      b == o.asset         \* borrow market
      amt == Trunc8(o.amt)
      sm == Loaded(s, a, o)
      bm == Loaded(s, b, o)
      newS == GetOrCreateSupply(s, u, a)
      newB == GetOrCreateBorrow(s, u, b)
      t == Apply(Apply(s, newS), newB)
      first == First(s, o)
      \* newMarkets lists the supply market first, so it is the one found
      liquidity ==
        CalculateAccountLiquidity(t, u, [x \in {a, b} |-> IF x = a THEN sm ELSE bm])
          + (IF o.cur.ctoken THEN CollateralValue(o.amount, sm)
                             ELSE o.amount * sm.p.cf * sm.price * ONE)
      minted == IF o.cur.ctoken THEN o.amount
                ELSE Trunc8(Div16(o.amount, CurExchangeRate(sm)))
      tx == Decided(s, o, Tx(o, minted, 0))
      deposited == IF o.cur.ctoken THEN sm
                   ELSE Minted(sm, tx.ctokens, o.amount)
  IN  IF ~o.ok THEN <<Reject(v, o, "mtgscan", FALSE)>>
      ELSE IF ~HasMarket(s, Currency(b)) THEN <<Reject(v, o, "market-not-found", FALSE)>>
      ELSE IF Outdated(s, b, o) THEN <<>>
      ELSE IF ~s.market[a].exists THEN <<Reject(v, o, "market-not-found", FALSE)>>
      ELSE IF v > 3 /\ a = b THEN <<Raise(o, "same-supply-and-borrow-asset", TRUE)>>
      ELSE IF sm.closed \/ bm.closed THEN <<Reject(v, o, "market-closed", TRUE)>>
      ELSE IF sm.p.cf <= 0 THEN <<Reject(v, o, "pledge-disallowed", TRUE)>>
      ELSE IF first /\ ~CanBorrow(bm, amt, liquidity)
        THEN <<newS, newB, Reject(v, o, "borrow-denied", TRUE)>>
      ELSE IF first /\ ~o.cur.ctoken /\ CurExchangeRate(sm) = 0 THEN <<newS, newB, Halt>>
      ELSE IF first /\ minted <= 0
        THEN <<newS, newB, Reject(v, o, "ctokens-too-small", TRUE)>>
      ELSE IF first /\ ~PledgeFits(t, a, sm, minted)
        THEN <<newS, newB, Raise(o, "max-pledge-exceeded", TRUE)>>
      ELSE << newS, newB,
              Record(s, o, tx),
              UpdateSupply(s, u, a, Pledged(t.supply[<<u, a>>], tx.ctokens), o.id),
              UpdateBorrow(s, u, b, Lent(t.borrow[<<u, b>>], bm, amt), o.id),
              Transfer(o, "quick-borrow", Currency(b), amt),
              UpdateMarket(s, a, AccrueInterest(deposited, o.time), o.id),
              UpdateMarket(s, b, LentMarket(bm, amt, o.time), o.id) >>

(***************************************************************************)
(* Liquidation: o.sender repays o.cur for o.user and takes part of o.user's*)
(* collateral in the market of o.asset at a discount.                      *)
(***************************************************************************)

SeizedPrice(sm) == Trunc(sm.price * ONE - sm.price * sm.p.li, ONE)

\* A division by a price or a rate that is zero panics, and so does every retry.
Unpriced(sm, bm) == SeizedPrice(sm) = 0 \/ bm.price = 0 \/ CurExchangeRate(sm) = 0

\* Value repaid: capped by the close factor and then by the debt.
RepayValueOverDebt(supply, borrow, sm, bm, amount) ==
  Lesser(Mul16(amount, bm.price),
         Trunc(supply.coll * CurExchangeRate(sm) * sm.p.close * SeizedPrice(sm),
               ONE * ONE * ONE))
RepayValue(supply, borrow, sm, bm, amount) ==
  LET maxSeizeValue == Trunc(supply.coll * CurExchangeRate(sm) * sm.p.close
                               * SeizedPrice(sm), ONE * ONE * ONE)
      balanceValue  == Mul16(BorrowBalance(borrow, bm), bm.price)
  IN  Lesser(Lesser(Mul16(amount, bm.price), maxSeizeValue), balanceValue)

SeizeTx(o, supply, borrow, sm, bm) ==
  LET value == RepayValue(supply, borrow, sm, bm, o.amount)
      seizedAmount == Div16(value, SeizedPrice(sm))
  IN  Tx(o, Trunc8(Div16(seizedAmount, CurExchangeRate(sm))),
            Lesser(Div16(value, bm.price), BorrowBalance(borrow, bm)))

HandleLiquidation(s, v, o) ==
  LET u == o.user
      a == o.asset         \* supply market
      b == o.cur.asset     \* borrow market
      sm == Loaded(s, a, o)
      bm == Loaded(s, b, o)
      supply == s.supply[<<u, a>>]
      borrow == s.borrow[<<u, b>>]
      first == First(s, o)
      liquidity ==
        CalculateAccountLiquidity(s, u, [x \in {a, b} |-> IF x = b THEN bm ELSE sm])
      tx == Decided(s, o, SeizeTx(o, supply, borrow, sm, bm))
      back == o.amount - tx.repay
  IN  IF ~o.ok THEN <<Reject(v, o, "mtgscan", FALSE)>>
      ELSE IF u \notin s.user THEN <<Reject(v, o, "invalid-seized-address", FALSE)>>
      ELSE IF ~HasCToken(s, CToken(a)) THEN <<Reject(v, o, "market-not-found", FALSE)>>
      ELSE IF ~HasMarket(s, o.cur) THEN <<Reject(v, o, "market-not-found", FALSE)>>
      ELSE IF Outdated(s, b, o) THEN <<>>
      ELSE IF ~supply.exists THEN <<Reject(v, o, "supply-not-found", v >= 5)>>
      ELSE IF ~borrow.exists THEN <<Reject(v, o, "borrow-not-found", v >= 5)>>
      ELSE IF first /\ HasClosedMarkets(s, u) THEN <<Reject(v, o, "market-closed", TRUE)>>
      ELSE IF first /\ ~SeizeTokenAllowed(liquidity)
        THEN <<Reject(v, o, "seize-denied", TRUE)>>
      ELSE IF first /\ Unpriced(sm, bm) THEN <<Halt>>
      ELSE << Record(s, o, tx),
              UpdateSupply(s, u, a, Released(supply, tx.ctokens), o.id),
              UpdateBorrow(s, u, b, Repaid(borrow, bm, tx.repay), o.id),
              Transfer(o, "liquidate", CToken(a), tx.ctokens),
              IF back > 0 THEN Transfer(o, "liquidate-refund", o.cur, back) ELSE Nop,
              UpdateMarket(s, a, AccrueInterest(sm, o.time), o.id),
              UpdateMarket(s, b, RepaidMarket(bm, tx.repay, v, o.time), o.id) >>

(***************************************************************************)
(* handleUserAction                                                        *)
(***************************************************************************)
HandleUserAction(s, v, o) ==
  CASE o.act = "supply"       -> HandleSupply(s, v, o)
    [] o.act = "borrow"       -> HandleBorrow(s, v, o)
    [] o.act = "redeem"       -> HandleRedeem(s, v, o)
    [] o.act = "repay"        -> HandleRepay(s, v, o)
    [] o.act = "pledge"       -> HandlePledge(s, v, o)
    [] o.act = "unpledge"     -> HandleUnpledge(s, v, o)
    [] o.act = "quick-pledge" -> HandleQuickPledge(s, v, o)
    [] o.act = "quick-borrow" -> HandleQuickBorrow(s, v, o)
    [] o.act = "quick-redeem" -> HandleQuickRedeem(s, v, o)
    [] o.act = "liquidate"    -> HandleLiquidation(s, v, o)
    [] OTHER                  -> <<RefundV0(o)>>
=============================================================================
