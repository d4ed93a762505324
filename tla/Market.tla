------------------------------- MODULE Market -------------------------------
(***************************************************************************)
(* One market's row and the interest model (core/market.go,                *)
(* pkg/compound/interestrate.go, pkg/compound/borrow.go and                *)
(* worker/payee/utils_market.go).                                          *)
(*                                                                         *)
(* The columns that only views read (utilization and per-block rates,      *)
(* symbol, timestamps) are left out: no handler reads them back.           *)
(***************************************************************************)
EXTENDS FixedPoint

CONSTANT BlocksPerYear

ASSUME BlocksPerYearAssumption == BlocksPerYear \in Nat \ {0}

\* The parameters a market proposal sets.
ParamNames == {"init", "rf", "li", "cap", "cf", "close", "base", "mult",
               "jump", "kink", "maxPledge", "threshold"}

UtilizationRate(m) ==
  LET total == m.cash + m.borrows - m.reserves
  IN  IF total <= 0 THEN 0 ELSE Div16(m.borrows, total)

GetExchangeRate(m) ==
  IF m.ctokens > 0 THEN Div16(m.cash + m.borrows - m.reserves, m.ctokens)
                   ELSE m.p.init

PerBlock(yearly) == DivRound(yearly, BlocksPerYear)

GetBorrowRatePerBlock(m) ==
  LET u      == UtilizationRate(m)
      low    == IF m.p.kink = 0 \/ u <= m.p.kink THEN u ELSE m.p.kink
      excess == u - low
  IN  Trunc(low * PerBlock(m.p.mult) + excess * PerBlock(m.p.jump)
              + PerBlock(m.p.base) * ONE, ONE)

AccrueInterest(m, block) ==
  LET times    == GetBorrowRatePerBlock(m) * (block - m.block)
      interest == Mul16(m.borrows, times)
      accrued  == IF block > m.block
                  THEN [m EXCEPT !.block    = block,
                                 !.borrows  = @ + interest,
                                 !.reserves = @ + Mul16(interest, m.p.rf),
                                 !.index    = @ + CeilDiv(times * @, ONE)]
                  ELSE m
  IN  [accrued EXCEPT !.rate = GetExchangeRate(accrued)]

\* store/market afterFind: a loaded row never shows a rate or index <= 0.
AfterFind(m) == [m EXCEPT !.rate  = IF @ > 0 THEN @ ELSE ONE,
                          !.index = IF @ > 0 THEN @ ELSE ONE]

InitialRate(m) == m.p.init
CurExchangeRate(m) == IF m.rate > 0 THEN m.rate ELSE m.p.init

\* A loan above the capital reserve line BorrowCap is refused.
BorrowAllowed(m, amount) ==
  LET balance == m.cash - m.reserves
  IN  /\ amount > 0
      /\ balance >= m.p.cap
      /\ amount <= balance - m.p.cap

RedeemAllowed(m, tokens) == (m.cash - m.reserves) * ONE > tokens * m.rate

\* A row that never accrued takes the market's index.  (The Ceil of the code
\* has nothing left to round: Div already rounded to 16 digits.)
BorrowBalance(b, m) ==
  DivRound(b.principal * m.index, IF b.index > 0 THEN b.index ELSE m.index)
=============================================================================
