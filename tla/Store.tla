-------------------------------- MODULE Store --------------------------------
(***************************************************************************)
(* The tables the payee writes and how one statement changes them          *)
(* (store/market, store/supply, store/borrow, store/proposal,              *)
(* store/transaction, store/user, store/oracle, the properties and         *)
(* walletStore.CreateTransfers).                                           *)
(*                                                                         *)
(* A handler is not one database transaction.  It is a sequence of         *)
(* statements, each committed on its own: inserts that do nothing when the *)
(* key is taken (FirstOrCreate), and updates that carry the version the    *)
(* row had when it was read (WHERE version = old) and the id of the output *)
(* as the new version.  Here a statement is a record, a handler's          *)
(* statements a tuple of such records.                                     *)
(***************************************************************************)
EXTENDS Market, Sequences, FiniteSets, FiniteSetsExt

CONSTANTS
  Assets,     \* underlying assets; a market may or may not exist for each
  Users,      \* mixin users
  Proposals   \* proposal trace ids

\* A currency is an asset or the ctoken of its market.
Currency(a) == [asset |-> a, ctoken |-> FALSE]
CToken(a)   == [asset |-> a, ctoken |-> TRUE]

\* Rows under optimistic locking.
Positions == Users \X Assets
Rows == ({"market"} \X Assets) \cup ({"supply", "borrow"} \X Positions)
          \cup ({"proposal"} \X Proposals)

(***************************************************************************)
(* The tables, as far as a statement relies on them: their keys and the    *)
(* columns of their rows.                                                  *)
(***************************************************************************)
Tables == {"market", "supply", "borrow", "tx", "transfer", "user", "proposal",
           "sysversion", "signers", "property", "legacy", "ver"}

TablesShape(s) ==
  /\ Tables \subseteq DOMAIN s
  /\ s.ver \in [Rows -> Nat]
  /\ DOMAIN s.market = Assets /\ DOMAIN s.supply = Positions
  /\ DOMAIN s.borrow = Positions /\ DOMAIN s.proposal = Proposals
  /\ \A a \in Assets : {"exists", "price", "priceAt", "closed", "p"} \subseteq DOMAIN s.market[a]
  /\ \A k \in Positions : /\ {"exists", "coll"} \subseteq DOMAIN s.supply[k]
                          /\ {"exists", "principal", "index"} \subseteq DOMAIN s.borrow[k]
  /\ \A p \in Proposals :
       {"exists", "votes", "passed", "content"} \subseteq DOMAIN s.proposal[p]

(***************************************************************************)
(* Statements                                                              *)
(***************************************************************************)

Nop  == [t |-> "nop"]
\* An error that is no compound.Error: the whole output is tried again.
Halt == [t |-> "halt"]

\* INSERT ... unless the key exists.
InsertTx(tx)       == [t |-> "tx", data |-> tx]
InsertTransfer(tr) == [t |-> "transfer", data |-> tr]
CreateUser(u)      == [t |-> "user", data |-> u]
CreateSupply(u, a) == [t |-> "newsupply", key |-> <<u, a>>]
CreateBorrow(u, a) == [t |-> "newborrow", key |-> <<u, a>>]
CreateMarket(a, m, id) ==
  [t |-> "newmarket", key |-> a, data |-> m, new |-> id]
CreateProposal(p, r, id) ==
  [t |-> "newproposal", key |-> p, data |-> r, new |-> id]
SaveProperty(k, x) ==
  IF k = "sysversion" THEN [t |-> "sysversion", data |-> x]
  ELSE [t |-> "property", key |-> k, data |-> [key |-> k, value |-> x]]
SaveSigners(ss)    == [t |-> "signers", data |-> ss]

\* Users whose address is still the one of version 0, one page in a transaction.
MigrateToV1(us)    == [t |-> "migrate", data |-> us]

\* Not tables of the payee: messages for the admins (module Messenger), and a
\* payment from the node's own wallet (module Council).
Notify(m)  == [t |-> "notify", data |-> m]
Forward(x) == [t |-> "forward", data |-> x]

UpdateAgain(s, table, key, data, id) ==
  [t |-> table, key |-> key, data |-> data, old |-> s.ver[<<table, key>>], new |-> id]

UpdateAhead(s, table, key, data, id) ==
  LET old == s.ver[<<table, key>>]
  IN  IF id > old
      THEN [t |-> table, key |-> key, data |-> data, old |-> old, new |-> id + 1]
      ELSE Nop

\* UPDATE ... WHERE version = old, only issued when the output is newer than
\* the row: `if output.ID > row.Version` in the handlers and in Update itself.
Update(s, table, key, data, id) ==
  LET old == s.ver[<<table, key>>]
  IN  IF id > old
      THEN [t |-> table, key |-> key, data |-> data, old |-> old, new |-> id]
      ELSE Nop

UpdateMarket(s, a, m, id)    == Update(s, "market", a, m, id)
UpdateSupply(s, u, a, r, id) == Update(s, "supply", <<u, a>>, r, id)
UpdateBorrow(s, u, a, r, id) == Update(s, "borrow", <<u, a>>, r, id)

\* proposalStore.Update does not compare versions first.
UpdateProposal(s, p, r, id) ==
  [t |-> "proposal", key |-> p, data |-> r,
   old |-> s.ver[<<"proposal", p>>], new |-> id]

Versioned == {"market", "supply", "borrow", "proposal"}

\* RowsAffected = 0 is ErrOptimisticLock.
LockHeld(s, w) ==
  /\ w.t \in Versioned => s.ver[<<w.t, w.key>>] = w.old
  /\ w.t = "migrate" => w.data \subseteq s.legacy

(***************************************************************************)
(* What a committed statement does to the tables.                          *)
(***************************************************************************)

Apply(s, w) ==
  CASE w.t = "tx" ->
         IF \E x \in s.tx : x.id = w.data.id THEN s
         ELSE [s EXCEPT !.tx = @ \cup {w.data}]
    [] w.t = "transfer" ->
         IF \E x \in s.transfer : x.trace = w.data.trace THEN s
         ELSE [s EXCEPT !.transfer = @ \cup {w.data}]
    [] w.t = "user"      -> [s EXCEPT !.user = @ \cup {w.data}]
    [] w.t = "newsupply" -> [s EXCEPT !.supply[w.key].exists = TRUE]
    [] w.t = "newborrow" -> [s EXCEPT !.borrow[w.key].exists = TRUE]
    [] w.t = "newproposal" ->
         IF s.proposal[w.key].exists THEN s
         ELSE [s EXCEPT !.proposal[w.key] = w.data,
                        !.ver[<<"proposal", w.key>>] = w.new]
    [] w.t = "newmarket" ->
         IF s.market[w.key].exists THEN s
         ELSE [s EXCEPT !.market[w.key] = w.data,
                        !.ver[<<"market", w.key>>] = w.new]
    [] w.t = "sysversion" -> [s EXCEPT !.sysversion = w.data]
    [] w.t = "signers"  -> [s EXCEPT !.signers = w.data]
    [] w.t = "property" -> [s EXCEPT !.property = {x \in @ : x.key # w.key} \cup {w.data}]
    [] w.t = "migrate"  -> [s EXCEPT !.legacy = @ \ w.data]
    [] w.t = "market"   -> [s EXCEPT !.market[w.key] = w.data,
                                     !.ver[<<"market", w.key>>] = w.new]
    [] w.t = "supply"   -> [s EXCEPT !.supply[w.key] = w.data,
                                     !.ver[<<"supply", w.key>>] = w.new]
    [] w.t = "borrow"   -> [s EXCEPT !.borrow[w.key] = w.data,
                                     !.ver[<<"borrow", w.key>>] = w.new]
    [] w.t = "proposal" -> [s EXCEPT !.proposal[w.key] = w.data,
                                     !.ver[<<"proposal", w.key>>] = w.new]
    [] OTHER -> s

\* All statements of a handler at once.
ApplyAll(s, plan) ==
  LET run[i \in 0..Len(plan)] == IF i = 0 THEN s ELSE Apply(run[i-1], plan[i])
  IN  run[Len(plan)]

(***************************************************************************)
(* Reads                                                                   *)
(***************************************************************************)

\* mustGetMarket and mustGetMarketWithCToken.
HasMarket(s, cur)  == s.market[cur.asset].exists /\ ~cur.ctoken
HasCToken(s, cur)  == s.market[cur.asset].exists /\ cur.ctoken
FindMarket(s, a)   == AfterFind(s.market[a])

\* The unique indices on a market's symbol and ctoken: to insert another is an error.
NameTaken(s, symbol, ctoken) ==
  \E a \in Assets : /\ s.market[a].exists
                    /\ s.market[a].symbol = symbol \/ s.market[a].ctoken = ctoken

HasTx(s, id)  == \E x \in s.tx : x.id = id
FindTx(s, id) == CHOOSE x \in s.tx : x.id = id

\* SumOfSupplies: every pledge path creates the row before it sums, so the
\* SUM never ranges over no row.
SumOfColumn(supplies, a) == MapThenSumSet(LAMBDA u : supplies[<<u, a>>].coll, Users)
SumOfSupplies(s, a) == SumOfColumn(s.supply, a)

(***************************************************************************)
(* The tables before the first output.                                     *)
(***************************************************************************)
NoMarket == [exists |-> FALSE, cash |-> 0, borrows |-> 0, reserves |-> 0,
             ctokens |-> 0, rate |-> 0, index |-> 0, block |-> 0, price |-> 0,
             priceAt |-> 0, closed |-> TRUE, symbol |-> "", ctoken |-> "",
             p |-> [n \in ParamNames |-> 0]]
=============================================================================
