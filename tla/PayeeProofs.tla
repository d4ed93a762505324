---------------------------- MODULE PayeeProofs ----------------------------
(***************************************************************************)
(* For every set of assets, users, proposals and payments, every batch     *)
(* limit and any number of crashes: an output changes a row at most once   *)
(* (AppliedOnce), and no row carries the id of an output to come           *)
(* (VersionsBounded).                                                      *)
(*                                                                         *)
(* The argument.  A handler builds its statements from the versions it     *)
(* reads, and every update it issues replaces a version below the output's *)
(* id by that id (Sound).  The lock makes the update fail unless the row   *)
(* still has the version that was read.  So the row's version was below    *)
(* the output's id and is that id afterwards, and what the retry reads is  *)
(* not below it any more.  Two statements carry no such test: the insert   *)
(* of a market or a proposal, which does nothing if the row exists, and    *)
(* the update of a proposal, which a member's second vote never reaches,   *)
(* whether the vote came from the member or, in version 0, in the memo of  *)
(* anybody's payment.                                                      *)
(***************************************************************************)
EXTENDS PayeeSafety, FiniteSetTheorems, TLAPS

\* Rows with the columns their readers rely on.
Live(m)       == {"exists", "price", "priceAt", "closed", "p"} \subseteq DOMAIN m /\ m.exists = TRUE
SupplyCols(r) == {"exists", "coll"} \subseteq DOMAIN r
BorrowCols(r) == {"exists", "principal", "index"} \subseteq DOMAIN r
Counted(r)    == r.passed = (Cardinality(r.votes) >= Threshold)
VotesCols(r)  == /\ {"exists", "votes", "passed", "content"} \subseteq DOMAIN r
                 /\ r.exists = TRUE /\ Counted(r) /\ TypedContent(r.content)

(***************************************************************************)
(* What an attempt at output o may change of the tables old that were      *)
(* settled before it.                                                      *)
(***************************************************************************)

\* A price report by registered signers, as many as market a asks for.
SignedFor(old, a, o) ==
  /\ o.act = "price" /\ o.asset = a
  /\ o.signed \subseteq old.signers
  /\ Cardinality(o.signed) >= old.market[a].p["threshold"]

\* Only a vote changes a market's parameters or opens or closes it; only a vote or a
\* report changes its price.
PriceKept(m, old, a, o) ==
  \/ o.act = "vote"
  \/ /\ m.p = old.market[a].p
     /\ m.exists = old.market[a].exists /\ m.closed = old.market[a].closed
     /\ m.price = old.market[a].price \/ SignedFor(old, a, o)

Priced(m, old, a, o) == Live(m) /\ PriceKept(m, old, a, o)

\* A member's vote: as the sender and not as staff, or in a memo of version 0.
Entitled(o) == /\ o.act = "vote" /\ Voter(o) \in Members
               /\ o.fmt = "member" \/ Voter(o) \notin Staff

\* The votes of a proposal are those it had and the one that o carries.
Ballots(r, old, p, o) ==
  \A u \in r.votes : \/ u \in old.proposal[p].votes
                     \/ Entitled(o) /\ o.prop = p /\ Voter(o) = u

Agrees(s, old, o) ==
  /\ o.act = "vote" \/ s.signers = old.signers
  /\ \A a \in Assets : PriceKept(s.market[a], old, a, o)
  /\ \A p \in Proposals : Ballots(s.proposal[p], old, p, o)

\* What a handler relies on when it reads s.
Reads(s, old, o) ==
  /\ TablesShape(s) /\ Agrees(s, old, o)
  /\ \A p \in Proposals : TypedContent(s.proposal[p].content)

\* What is announced or paid on is about a proposal, in one of the two formats.
Names(x, o) ==
  /\ x.fmt \in {"plain", "packed"}
  /\ x.prop \in Proposals \/ (o.act = "make" /\ x.prop = o.id)

\* A statement an attempt at output o may issue.
Sound(w, old, o) ==
  /\ w.t \in Versioned =>
       /\ w.new = o.id
       /\ <<w.t, w.key>> \in Rows => w.old \in Nat /\ w.old < o.id
  /\ w.t = "market" /\ w.key \in Assets => Priced(w.data, old, w.key, o)
  /\ w.t = "supply" /\ w.key \in Positions => SupplyCols(w.data)
  /\ w.t = "borrow" /\ w.key \in Positions => BorrowCols(w.data)
  /\ w.t = "proposal" /\ w.key \in Proposals =>
       /\ VotesCols(w.data) /\ Voter(o) \in w.data.votes
       /\ Ballots(w.data, old, w.key, o)
  /\ w.t = "newmarket" => w.new = o.id /\ Live(w.data)
  /\ w.t = "newproposal" => /\ w.new \in {0, o.id} /\ o.act = "make"
                            /\ VotesCols(w.data) /\ w.data.votes = {}
  /\ w.t \in {"newmarket", "signers", "sysversion", "migrate", "proposal"} => o.act = "vote"
  /\ w.t \in {"notify", "forward"} => Names(w.data, o)
  /\ w.t = "forward" => w.data.act \in {"vote", "shout"}
  /\ w.t = "nop" => w = Nop
  /\ w.t = "halt" => w = Halt

SoundPlan(p, old, o) == \E S : p \in Seq(S) /\ \A w \in S : Sound(w, old, o)

(***************************************************************************)
(* Plans                                                                   *)
(***************************************************************************)

\* The empty plan of a skipped output is sound.
LEMMA Plan0 == ASSUME NEW old, NEW o PROVE SoundPlan(<<>>, old, o)
<1> DEFINE S == {}
<1>1. <<>> \in Seq(S) /\ \A w \in S : Sound(w, old, o)
  OBVIOUS
<1> HIDE DEF S
<1> QED BY <1>1 DEF SoundPlan

\* A plan of one sound statement is sound.
LEMMA Plan1 == ASSUME NEW old, NEW o, NEW a, Sound(a, old, o) PROVE SoundPlan(<<a>>, old, o)
<1> DEFINE S == {a}
<1>1. <<a>> \in Seq(S) /\ \A w \in S : Sound(w, old, o)
  OBVIOUS
<1> HIDE DEF S
<1> QED BY <1>1 DEF SoundPlan

\* Sound statements followed by sound statements: a vote and what it executes.
LEMMA PlanJoin ==
  ASSUME NEW old, NEW o, NEW p, NEW q, SoundPlan(p, old, o), SoundPlan(q, old, o)
  PROVE  SoundPlan(p \o q, old, o)
<1>1. PICK S : p \in Seq(S) /\ \A w \in S : Sound(w, old, o)
  BY DEF SoundPlan
<1>2. PICK T : q \in Seq(T) /\ \A w \in T : Sound(w, old, o)
  BY DEF SoundPlan
<1>3. p \in Seq(S \cup T) /\ q \in Seq(S \cup T)
  BY <1>1, <1>2
<1>4. p \o q \in Seq(S \cup T)
  BY <1>3
<1>5. \A w \in S \cup T : Sound(w, old, o)
  BY <1>1, <1>2
<1> QED BY <1>4, <1>5 DEF SoundPlan

\* Two sound statements.
LEMMA Plan2 ==
  ASSUME NEW old, NEW o, NEW a, NEW b, Sound(a, old, o), Sound(b, old, o) PROVE SoundPlan(<<a, b>>, old, o)
<1> DEFINE S == {a, b}
<1>1. <<a, b>> \in Seq(S) /\ \A w \in S : Sound(w, old, o)
  OBVIOUS
<1> HIDE DEF S
<1> QED BY <1>1 DEF SoundPlan

\* Three sound statements.
LEMMA Plan3 ==
  ASSUME NEW old, NEW o, NEW a, NEW b, NEW c, Sound(a, old, o), Sound(b, old, o), Sound(c, old, o)
  PROVE  SoundPlan(<<a, b, c>>, old, o)
<1> DEFINE S == {a, b, c}
<1>1. <<a, b, c>> \in Seq(S) /\ \A w \in S : Sound(w, old, o)
  OBVIOUS
<1> HIDE DEF S
<1> QED BY <1>1 DEF SoundPlan

\* Four sound statements.
LEMMA Plan4 ==
  ASSUME NEW old, NEW o, NEW a, NEW b, NEW c, NEW d,
         Sound(a, old, o), Sound(b, old, o), Sound(c, old, o), Sound(d, old, o)
  PROVE  SoundPlan(<<a, b, c, d>>, old, o)
<1> DEFINE S == {a, b, c, d}
<1>1. <<a, b, c, d>> \in Seq(S) /\ \A w \in S : Sound(w, old, o)
  OBVIOUS
<1> HIDE DEF S
<1> QED BY <1>1 DEF SoundPlan

\* Five sound statements.
LEMMA Plan5 ==
  ASSUME NEW old, NEW o, NEW a, NEW b, NEW c, NEW d, NEW e,
         Sound(a, old, o), Sound(b, old, o), Sound(c, old, o), Sound(d, old, o), Sound(e, old, o)
  PROVE  SoundPlan(<<a, b, c, d, e>>, old, o)
<1> DEFINE S == {a, b, c, d, e}
<1>1. <<a, b, c, d, e>> \in Seq(S) /\ \A w \in S : Sound(w, old, o)
  OBVIOUS
<1> HIDE DEF S
<1> QED BY <1>1 DEF SoundPlan

\* Seven sound statements.
LEMMA Plan7 ==
  ASSUME NEW old, NEW o, NEW a, NEW b, NEW c, NEW d, NEW e, NEW f, NEW g,
         Sound(a, old, o), Sound(b, old, o), Sound(c, old, o), Sound(d, old, o), Sound(e, old, o),
         Sound(f, old, o), Sound(g, old, o)
  PROVE  SoundPlan(<<a, b, c, d, e, f, g>>, old, o)
<1> DEFINE S == {a, b, c, d, e, f, g}
<1>1. <<a, b, c, d, e, f, g>> \in Seq(S) /\ \A w \in S : Sound(w, old, o)
  OBVIOUS
<1> HIDE DEF S
<1> QED BY <1>1 DEF SoundPlan

\* Eight sound statements.
LEMMA Plan8 ==
  ASSUME NEW old, NEW o, NEW a, NEW b, NEW c, NEW d, NEW e, NEW f, NEW g, NEW h,
         Sound(a, old, o), Sound(b, old, o), Sound(c, old, o), Sound(d, old, o), Sound(e, old, o),
         Sound(f, old, o), Sound(g, old, o), Sound(h, old, o)
  PROVE  SoundPlan(<<a, b, c, d, e, f, g, h>>, old, o)
<1> DEFINE S == {a, b, c, d, e, f, g, h}
<1>1. <<a, b, c, d, e, f, g, h>> \in Seq(S) /\ \A w \in S : Sound(w, old, o)
  OBVIOUS
<1> HIDE DEF S
<1> QED BY <1>1 DEF SoundPlan

(***************************************************************************)
(* Statements                                                              *)
(***************************************************************************)

\* Statements that write no versioned row are sound for every output.
LEMMA SoundOutcomes ==
  ASSUME NEW old, NEW o
  PROVE  /\ Sound(Nop, old, o)
         /\ Sound(Halt, old, o)
         /\ Sound(RefundV0(o), old, o)
         /\ \A kind, cur, amount : Sound(Transfer(o, kind, cur, amount), old, o)
         /\ \A msg, fl : Sound(Raise(o, msg, fl), old, o)
         /\ \A v, msg, fl : Sound(Reject(v, o, msg, fl), old, o)
         /\ \A x : Sound(InsertTransfer(x), old, o)
         /\ \A s, x : Sound(Record(s, o, x), old, o)
         /\ \A s, u, a : Sound(GetOrCreateSupply(s, u, a), old, o)
         /\ \A s, u, a : Sound(GetOrCreateBorrow(s, u, a), old, o)
         /\ \A u : Sound(CreateUser(u), old, o)
         /\ \A k, x : o.act = "vote" => Sound(SaveProperty(k, x), old, o)
         /\ \A x : o.act = "vote" => /\ Sound(SaveSigners(x), old, o)
                                    /\ Sound(MigrateToV1(x), old, o)
<1>1. ASSUME NEW w, w.t \notin Versioned \cup {"newmarket", "newproposal", "notify", "forward"},
             w.t \in {"signers", "sysversion", "migrate"} => o.act = "vote",
             w.t \in {"nop", "halt"} => w \in {Nop, Halt}
      PROVE  Sound(w, old, o)
  BY <1>1 DEF Sound, Versioned, Nop, Halt
<1>2. Sound(Nop, old, o) /\ Sound(Halt, old, o)
  BY <1>1 DEF Nop, Halt, Versioned
<1>3. \A x : Sound(InsertTransfer(x), old, o)
  BY <1>1 DEF InsertTransfer, Versioned
<1>4. \A x : Sound(InsertTx(x), old, o)
  BY <1>1 DEF InsertTx, Versioned
<1>5. \A kind, cur, amount : Sound(Transfer(o, kind, cur, amount), old, o)
  BY <1>3 DEF Transfer
<1>6. Sound(RefundV0(o), old, o)
  BY <1>5 DEF RefundV0
<1>7. \A msg, fl : Sound(Raise(o, msg, fl), old, o)
  BY <1>5, <1>2 DEF Raise
<1>8. \A v, msg, fl : Sound(Reject(v, o, msg, fl), old, o)
  BY <1>6, <1>7 DEF Reject
<1>9. \A s, x : Sound(Record(s, o, x), old, o)
  BY <1>2, <1>4 DEF Record
<1>10. \A u, a : Sound(CreateSupply(u, a), old, o) /\ Sound(CreateBorrow(u, a), old, o)
  BY <1>1 DEF CreateSupply, CreateBorrow, Versioned
<1>11. /\ \A s, u, a : Sound(GetOrCreateSupply(s, u, a), old, o)
       /\ \A s, u, a : Sound(GetOrCreateBorrow(s, u, a), old, o)
  BY <1>2, <1>10 DEF GetOrCreateSupply, GetOrCreateBorrow
<1>12. \A u : Sound(CreateUser(u), old, o)
  BY <1>1 DEF CreateUser, Versioned
<1>13. ASSUME o.act = "vote", NEW x
       PROVE  Sound(SaveSigners(x), old, o) /\ Sound(MigrateToV1(x), old, o)
  BY <1>1, <1>13 DEF SaveSigners, MigrateToV1, Versioned
<1>14. ASSUME o.act = "vote", NEW k, NEW x PROVE Sound(SaveProperty(k, x), old, o)
  <2>1. SaveProperty(k, x).t \in {"sysversion", "property"}
    BY DEF SaveProperty
  <2> QED BY <1>1, <1>14, <2>1 DEF Versioned
<1> QED BY <1>2, <1>3, <1>5, <1>6, <1>7, <1>8, <1>9, <1>11, <1>12, <1>13, <1>14

\* What is told of a proposal, and paid on for it, is sound.
LEMMA SoundNews ==
  ASSUME NEW old, NEW o, NEW v, NEW p, p \in Proposals \/ (o.act = "make" /\ p = o.id)
  PROVE  /\ \A u : Sound(ProposalCreated(p, u, v), old, o)
         /\ \A u : Sound(ProposalApproved(p, u, v), old, o)
         /\ Sound(ProposalPassed(p, v), old, o)
         /\ \A act \in {"vote", "shout"} : Sound(ForwardProposal(v, o, p, act), old, o)
<1>1. Format(v) \in {"plain", "packed"}
  BY DEF Format
<1>2. ASSUME NEW x, x.fmt = Format(v), x.prop = p PROVE Sound(Notify(x), old, o)
  BY <1>1, <1>2 DEF Sound, Notify, Names, Versioned
<1>3. ASSUME NEW x, x.fmt = Format(v), x.prop = p, x.act \in {"vote", "shout"}
      PROVE  Sound(Forward(x), old, o)
  BY <1>1, <1>3 DEF Sound, Forward, Names, Versioned
<1> QED BY <1>2, <1>3 DEF ProposalCreated, ProposalApproved, ProposalPassed, ForwardProposal

\* An update built from the versions the handler read.
LEMMA SoundUpdates ==
  ASSUME NEW s, TablesShape(s), NEW old, NEW o
  PROVE  /\ \A a, m : (a \in Assets => Priced(m, old, a, o))
                       => Sound(UpdateMarket(s, a, m, o.id), old, o)
         /\ \A u, a, r : (<<u, a>> \in Positions => SupplyCols(r))
                          => Sound(UpdateSupply(s, u, a, r, o.id), old, o)
         /\ \A u, a, r : (<<u, a>> \in Positions => BorrowCols(r))
                          => Sound(UpdateBorrow(s, u, a, r, o.id), old, o)
<1>1. ASSUME NEW t \in {"market", "supply", "borrow"}, NEW key, NEW data,
             t = "market" /\ key \in Assets => Priced(data, old, key, o),
             t = "supply" /\ key \in Positions => SupplyCols(data),
             t = "borrow" /\ key \in Positions => BorrowCols(data)
      PROVE  Sound(Update(s, t, key, data, o.id), old, o)
  <2> DEFINE w == [t |-> t, key |-> key, data |-> data,
                   old |-> s.ver[<<t, key>>], new |-> o.id]
  <2>1. CASE o.id > s.ver[<<t, key>>]
    <3>1. Update(s, t, key, data, o.id) = w
      BY <2>1 DEF Update
    <3>2. w.t = t /\ w.key = key /\ w.data = data /\ w.new = o.id
          /\ w.old = s.ver[<<t, key>>]
      OBVIOUS
    <3>3. <<t, key>> \in Rows => w.old \in Nat
      BY <3>2 DEF TablesShape
    <3>4. w.old < o.id
      BY <2>1, <3>2
    <3> HIDE DEF w
    <3>5. Sound(w, old, o)
      BY <1>1, <3>2, <3>3, <3>4 DEF Sound
    <3> QED BY <3>1, <3>5
  <2>2. CASE ~(o.id > s.ver[<<t, key>>])
    BY <2>2, SoundOutcomes DEF Update
  <2> QED BY <2>1, <2>2
<1>2. ASSUME NEW a, NEW m, a \in Assets => Priced(m, old, a, o)
      PROVE  Sound(UpdateMarket(s, a, m, o.id), old, o)
  BY <1>1, <1>2 DEF UpdateMarket
<1>3. ASSUME NEW u, NEW a, NEW r, <<u, a>> \in Positions => SupplyCols(r)
      PROVE  Sound(UpdateSupply(s, u, a, r, o.id), old, o)
  BY <1>1, <1>3 DEF UpdateSupply
<1>4. ASSUME NEW u, NEW a, NEW r, <<u, a>> \in Positions => BorrowCols(r)
      PROVE  Sound(UpdateBorrow(s, u, a, r, o.id), old, o)
  BY <1>1, <1>4 DEF UpdateBorrow
<1> QED BY <1>2, <1>3, <1>4

(***************************************************************************)
(* Rows                                                                    *)
(***************************************************************************)

\* What the handlers do to a market keeps it listed and its price and parameters.
LEMMA PricedMarkets ==
  ASSUME NEW old, NEW a, NEW o, NEW m, Priced(m, old, a, o)
  PROVE  /\ Priced(AfterFind(m), old, a, o)
         /\ \A t : Priced(AccrueInterest(m, t), old, a, o)
         /\ \A n, x : Priced(Minted(m, n, x), old, a, o) /\ Priced(Redeemed(m, n, x), old, a, o)
         /\ \A x, t : Priced(LentMarket(m, x, t), old, a, o)
         /\ \A x, v, t : Priced(RepaidMarket(m, x, v, t), old, a, o)
<1> DEFINE Same(k, l) == Live(l) => Live(k) /\ k.p = l.p /\ k.price = l.price /\ k.closed = l.closed
<1>0. ASSUME NEW k, NEW l, Priced(l, old, a, o), Same(k, l) PROVE Priced(k, old, a, o)
  BY <1>0 DEF Priced, PriceKept, Live
<1>1. Same(AfterFind(m), m)
  BY DEF Live, AfterFind
<1>2. ASSUME NEW k, NEW t PROVE Same(AccrueInterest(k, t), k)
  BY DEF Live, AccrueInterest
<1>3. \A n, x : Same(Minted(m, n, x), m) /\ Same(Redeemed(m, n, x), m)
  BY DEF Live, Minted, Redeemed
<1>4. ASSUME NEW x, NEW t PROVE Same(LentMarket(m, x, t), m)
  <2> DEFINE k == [m EXCEPT !.cash = @ - x, !.borrows = @ + x]
  <2>1. Same(k, m)
    BY DEF Live
  <2>2. Same(AccrueInterest(k, t), k)
    BY <1>2
  <2> QED BY <2>1, <2>2 DEF LentMarket
<1>5. ASSUME NEW x, NEW v, NEW t PROVE Same(RepaidMarket(m, x, v, t), m)
  <2> DEFINE k == [m EXCEPT !.cash = @ + x,
                            !.borrows = IF v > 0 /\ @ < x THEN 0 ELSE @ - x]
  <2>1. \A c, b : Same([m EXCEPT !.cash = c, !.borrows = b], m)
    BY DEF Live
  <2> DEFINE b == IF v > 0 /\ m.borrows < x THEN 0 ELSE m.borrows - x
  <2>2. k = [m EXCEPT !.cash = m.cash + x, !.borrows = b]
    OBVIOUS
  <2>3. Same(k, m)
    <3> HIDE DEF k, b, Same
    <3> QED BY <2>1, <2>2
  <2>4. Same(AccrueInterest(k, t), k)
    <3> HIDE DEF k, b, Same
    <3> QED BY <1>2
  <2> QED BY <2>3, <2>4 DEF RepaidMarket
<1> HIDE DEF Same
<1> QED BY <1>0, <1>1, <1>2, <1>3, <1>4, <1>5

\* A market a handler loads (mustGetMarket, then AccrueInterest) is listed.
LEMMA PricedLoaded ==
  ASSUME NEW s, NEW old, NEW o, Reads(s, old, o), NEW a \in Assets, s.market[a].exists = TRUE
  PROVE  Priced(FindMarket(s, a), old, a, o) /\ Priced(Loaded(s, a, o), old, a, o)
<1>1. Priced(s.market[a], old, a, o)
  BY DEF Reads, Agrees, TablesShape, Live, Priced
<1>2. Priced(FindMarket(s, a), old, a, o)
  BY <1>1, PricedMarkets DEF FindMarket
<1> QED BY <1>2, PricedMarkets DEF Loaded

\* What the handlers do to a supply or borrow row keeps its columns.
LEMMA ColsKept ==
  /\ \A r, n : SupplyCols(r) => SupplyCols(Pledged(r, n)) /\ SupplyCols(Released(r, n))
  /\ \A r, m, n : BorrowCols(r) => BorrowCols(Lent(r, m, n)) /\ BorrowCols(Repaid(r, m, n))
BY DEF SupplyCols, BorrowCols, Pledged, Released, Lent, Repaid

\* The position a handler loads has the columns it reads.
LEMMA ColsRead ==
  ASSUME NEW s, TablesShape(s), NEW k \in Positions
  PROVE  SupplyCols(s.supply[k]) /\ BorrowCols(s.borrow[k])
BY DEF TablesShape, SupplyCols, BorrowCols

\* The row a handler gets or creates first leaves the tables in shape.
LEMMA Creates ==
  ASSUME NEW s, TablesShape(s)
  PROVE  /\ Apply(s, Nop) = s
         /\ \A u, a : TablesShape(Apply(s, CreateSupply(u, a)))
         /\ \A u, a : TablesShape(Apply(s, CreateBorrow(u, a)))
         /\ \A w, u, a : w = GetOrCreateSupply(s, u, a) => TablesShape(Apply(s, w))
         /\ \A w, u, a : w = GetOrCreateBorrow(s, u, a) => TablesShape(Apply(s, w))
<1>1. Apply(s, Nop) = s
  BY DEF Apply, Nop
<1>2. ASSUME NEW u, NEW a PROVE TablesShape(Apply(s, CreateSupply(u, a)))
  <2> DEFINE t == Apply(s, CreateSupply(u, a))
             k == <<u, a>>
             rows == [s.supply EXCEPT ![k] = [s.supply[k] EXCEPT !.exists = TRUE]]
  <2>1. t = [s EXCEPT !.supply = rows]
    BY DEF Apply, CreateSupply, TablesShape, Tables
  <2>2. /\ DOMAIN t = DOMAIN s /\ t.supply = rows /\ t.market = s.market
        /\ t.borrow = s.borrow /\ t.proposal = s.proposal /\ t.ver = s.ver
    BY <2>1 DEF TablesShape, Tables
  <2>3. \A l \in Positions : {"exists", "coll"} \subseteq DOMAIN rows[l]
    BY DEF TablesShape
  <2> HIDE DEF t, rows
  <2>4. DOMAIN rows = Positions
    BY DEF TablesShape, rows
  <2> QED BY <2>2, <2>3, <2>4 DEF TablesShape, t
<1>3. ASSUME NEW u, NEW a PROVE TablesShape(Apply(s, CreateBorrow(u, a)))
  <2> DEFINE t == Apply(s, CreateBorrow(u, a))
             k == <<u, a>>
             rows == [s.borrow EXCEPT ![k] = [s.borrow[k] EXCEPT !.exists = TRUE]]
  <2>1. t = [s EXCEPT !.borrow = rows]
    BY DEF Apply, CreateBorrow, TablesShape, Tables
  <2>2. /\ DOMAIN t = DOMAIN s /\ t.borrow = rows /\ t.market = s.market
        /\ t.supply = s.supply /\ t.proposal = s.proposal /\ t.ver = s.ver
    BY <2>1 DEF TablesShape, Tables
  <2>3. \A l \in Positions : {"exists", "principal", "index"} \subseteq DOMAIN rows[l]
    BY DEF TablesShape
  <2> HIDE DEF t, rows
  <2>4. DOMAIN rows = Positions
    BY DEF TablesShape, rows
  <2> QED BY <2>2, <2>3, <2>4 DEF TablesShape, t
<1> QED BY <1>1, <1>2, <1>3 DEF GetOrCreateSupply, GetOrCreateBorrow

\* The same for the user, before a user's action is handled.
LEMMA CreatesUser ==
  ASSUME NEW s, NEW old, NEW o, Reads(s, old, o)
  PROVE  Reads(Apply(s, EnsureUser(s, o)), old, o)
<1>1. CASE o.sender \in s.user
  BY <1>1, Creates DEF EnsureUser, Reads
<1>2. CASE o.sender \notin s.user
  <2> DEFINE t == Apply(s, EnsureUser(s, o))
  <2>1. t = [s EXCEPT !.user = @ \cup {o.sender}]
    BY <1>2 DEF EnsureUser, Apply, CreateUser
  <2>2. /\ DOMAIN t = DOMAIN s /\ t.supply = s.supply /\ t.market = s.market
        /\ t.borrow = s.borrow /\ t.proposal = s.proposal /\ t.ver = s.ver
        /\ t.signers = s.signers
    BY <2>1 DEF Reads, TablesShape, Tables
  <2> HIDE DEF t
  <2> QED BY <2>2 DEF Reads, TablesShape, Agrees, t
<1> QED BY <1>1, <1>2

(***************************************************************************)
(* Handlers: every statement of every handler is sound.                    *)
(***************************************************************************)

\* The plans of refused and skipped outputs.
LEMMA ShortPlans ==
  ASSUME NEW old, NEW o
  PROVE  /\ SoundPlan(<<>>, old, o)
         /\ SoundPlan(<<RefundV0(o)>>, old, o)
         /\ SoundPlan(<<Halt>>, old, o)
         /\ \A msg, fl : SoundPlan(<<Raise(o, msg, fl)>>, old, o)
         /\ \A v, msg, fl : SoundPlan(<<Reject(v, o, msg, fl)>>, old, o)
         /\ \A s, u, a : SoundPlan(<<GetOrCreateSupply(s, u, a), Halt>>, old, o)
         /\ \A s, u, a, b : SoundPlan(<<GetOrCreateSupply(s, u, a),
                                       GetOrCreateBorrow(s, u, b), Halt>>, old, o)
         /\ \A s, u, a, v, msg, fl :
              /\ SoundPlan(<<GetOrCreateSupply(s, u, a), Reject(v, o, msg, fl)>>, old, o)
              /\ SoundPlan(<<GetOrCreateSupply(s, u, a), Raise(o, msg, fl)>>, old, o)
              /\ SoundPlan(<<GetOrCreateBorrow(s, u, a), Reject(v, o, msg, fl)>>, old, o)
         /\ \A s, u, a, b, v, msg, fl :
              /\ SoundPlan(<<GetOrCreateSupply(s, u, a), GetOrCreateBorrow(s, u, b),
                             Reject(v, o, msg, fl)>>, old, o)
              /\ SoundPlan(<<GetOrCreateSupply(s, u, a), GetOrCreateBorrow(s, u, b),
                             Raise(o, msg, fl)>>, old, o)
<1>1. SoundPlan(<<>>, old, o)
  BY Plan0
<1>2. /\ SoundPlan(<<RefundV0(o)>>, old, o)
      /\ SoundPlan(<<Halt>>, old, o)
      /\ \A msg, fl : SoundPlan(<<Raise(o, msg, fl)>>, old, o)
      /\ \A v, msg, fl : SoundPlan(<<Reject(v, o, msg, fl)>>, old, o)
  BY Plan1, SoundOutcomes
<1>3. \A s, u, a, v, msg, fl :
        /\ SoundPlan(<<GetOrCreateSupply(s, u, a), Reject(v, o, msg, fl)>>, old, o)
        /\ SoundPlan(<<GetOrCreateSupply(s, u, a), Raise(o, msg, fl)>>, old, o)
        /\ SoundPlan(<<GetOrCreateBorrow(s, u, a), Reject(v, o, msg, fl)>>, old, o)
  BY Plan2, SoundOutcomes
<1>4. \A s, u, a, b, v, msg, fl :
        /\ SoundPlan(<<GetOrCreateSupply(s, u, a), GetOrCreateBorrow(s, u, b),
                       Reject(v, o, msg, fl)>>, old, o)
        /\ SoundPlan(<<GetOrCreateSupply(s, u, a), GetOrCreateBorrow(s, u, b),
                       Raise(o, msg, fl)>>, old, o)
  BY Plan3, SoundOutcomes
<1>5. /\ \A s, u, a : SoundPlan(<<GetOrCreateSupply(s, u, a), Halt>>, old, o)
      /\ \A s, u, a, b : SoundPlan(<<GetOrCreateSupply(s, u, a),
                                    GetOrCreateBorrow(s, u, b), Halt>>, old, o)
  BY Plan2, Plan3, SoundOutcomes
<1> QED BY <1>1, <1>2, <1>3, <1>4, <1>5

\* handleSupplyEvent mints against a market version below the output.
LEMMA SupplyPlan ==
  ASSUME NEW s, NEW old, NEW o, Reads(s, old, o), NEW v
  PROVE  SoundPlan(HandleSupply(s, v, o), old, o)
<1> DEFINE a == o.cur.asset
           m == Loaded(s, a, o)
           ctokens == Trunc8(Div16(o.amount, CurExchangeRate(m)))
           w1 == Record(s, o, Tx(o, ctokens, 0))
           w2 == Transfer(o, "mint", CToken(a), ctokens)
           w3 == UpdateMarket(s, a, Minted(m, ctokens, o.amount), o.id)
<1>1. ASSUME HasMarket(s, o.cur)
      PROVE  SoundPlan(<<w1, w2, w3>>, old, o)
  <2>1. a \in Assets => Priced(Minted(m, ctokens, o.amount), old, a, o)
    BY <1>1, PricedLoaded, PricedMarkets DEF HasMarket
  <2>2. Sound(w1, old, o) /\ Sound(w2, old, o) /\ Sound(w3, old, o)
    BY <2>1, SoundOutcomes, SoundUpdates DEF Reads
  <2> HIDE DEF w1, w2, w3
  <2> QED BY <2>2, Plan3
<1> QED BY <1>1, ShortPlans DEF HandleSupply

\* handlePledgeEvent updates the position only if the output is newer.
LEMMA PledgePlan ==
  ASSUME NEW s, NEW old, NEW o, Reads(s, old, o), NEW v
  PROVE  SoundPlan(HandlePledge(s, v, o), old, o)
<1> DEFINE u == o.sender
           a == o.cur.asset
           m == Loaded(s, a, o)
           w1 == GetOrCreateSupply(s, u, a)
           row == Apply(s, w1).supply[<<u, a>>]
           w2 == Record(s, o, Tx(o, o.amount, 0))
           w3 == UpdateSupply(s, u, a, Pledged(row, o.amount), o.id)
           w4 == UpdateMarket(s, a, m, o.id)
<1>1. ASSUME HasCToken(s, o.cur)
      PROVE  SoundPlan(<<w1, w2, w3, w4>>, old, o)
  <2>1. a \in Assets => Priced(m, old, a, o)
    BY <1>1, PricedLoaded DEF HasCToken
  <2>2. <<u, a>> \in Positions => SupplyCols(Pledged(row, o.amount))
    BY Creates, ColsRead, ColsKept DEF Reads
  <2>3. Sound(w1, old, o) /\ Sound(w2, old, o) /\ Sound(w3, old, o) /\ Sound(w4, old, o)
    BY <2>1, <2>2, SoundOutcomes, SoundUpdates DEF Reads
  <2> HIDE DEF w1, w2, w3, w4
  <2> QED BY <2>3, Plan4
<1> QED BY <1>1, ShortPlans DEF HandlePledge

\* handleRedeemEvent burns against a market version below the output.
LEMMA RedeemPlan ==
  ASSUME NEW s, NEW old, NEW o, Reads(s, old, o), NEW v
  PROVE  SoundPlan(HandleRedeem(s, v, o), old, o)
<1> DEFINE a == o.cur.asset
           m == Loaded(s, a, o)
           amount == Trunc8(Mul16(CurExchangeRate(m), o.amount))
           w1 == Record(s, o, Tx(o, o.amount, 0))
           w2 == Transfer(o, "redeem", Currency(a), amount)
           w3 == UpdateMarket(s, a, Redeemed(m, o.amount, amount), o.id)
<1>1. ASSUME HasCToken(s, o.cur)
      PROVE  SoundPlan(<<w1, w2, w3>>, old, o)
  <2>1. a \in Assets => Priced(Redeemed(m, o.amount, amount), old, a, o)
    BY <1>1, PricedLoaded, PricedMarkets DEF HasCToken
  <2>2. Sound(w1, old, o) /\ Sound(w2, old, o) /\ Sound(w3, old, o)
    BY <2>1, SoundOutcomes, SoundUpdates DEF Reads
  <2> HIDE DEF w1, w2, w3
  <2> QED BY <2>2, Plan3
<1> QED BY <1>1, ShortPlans DEF HandleRedeem

\* handleUnpledgeEvent releases collateral only if the output is newer.
LEMMA UnpledgePlan ==
  ASSUME NEW s, NEW old, NEW o, Reads(s, old, o), NEW v
  PROVE  SoundPlan(HandleUnpledge(s, v, o), old, o)
<1> DEFINE u == o.sender
           a == o.asset
           amt == Trunc8(o.amt)
           m == Loaded(s, a, o)
           row == s.supply[<<u, a>>]
           w1 == Record(s, o, Tx(o, amt, 0))
           w2 == UpdateSupply(s, u, a, Released(row, amt), o.id)
           w3 == Transfer(o, "unpledge", CToken(a), amt)
           w4 == UpdateMarket(s, a, m, o.id)
<1>1. ASSUME HasCToken(s, CToken(a))
      PROVE  SoundPlan(<<w1, w2, w3, w4>>, old, o)
  <2>1. a \in Assets => Priced(m, old, a, o)
    BY <1>1, PricedLoaded DEF HasCToken, CToken
  <2>2. <<u, a>> \in Positions => SupplyCols(Released(row, amt))
    BY ColsRead, ColsKept DEF Reads
  <2>3. Sound(w1, old, o) /\ Sound(w2, old, o) /\ Sound(w3, old, o) /\ Sound(w4, old, o)
    BY <2>1, <2>2, SoundOutcomes, SoundUpdates DEF Reads
  <2> HIDE DEF w1, w2, w3, w4
  <2> QED BY <2>3, Plan4
<1> QED BY <1>1, ShortPlans DEF HandleUnpledge

\* handleQuickPledgeEvent: the market and the position, each by its version.
LEMMA QuickPledgePlan ==
  ASSUME NEW s, NEW old, NEW o, Reads(s, old, o), NEW v
  PROVE  SoundPlan(HandleQuickPledge(s, v, o), old, o)
<1> DEFINE u == o.sender
           a == o.cur.asset
           m == Loaded(s, a, o)
           ctokens == Trunc8(Div16(o.amount, CurExchangeRate(m)))
           w1 == GetOrCreateSupply(s, u, a)
           row == Apply(s, w1).supply[<<u, a>>]
           w2 == Record(s, o, Tx(o, ctokens, 0))
           w3 == UpdateSupply(s, u, a, Pledged(row, ctokens), o.id)
           w4 == UpdateMarket(s, a, Minted(m, ctokens, o.amount), o.id)
<1>1. ASSUME HasMarket(s, o.cur)
      PROVE  SoundPlan(<<w1, w2, w3, w4>>, old, o)
  <2>1. a \in Assets => Priced(Minted(m, ctokens, o.amount), old, a, o)
    BY <1>1, PricedLoaded, PricedMarkets DEF HasMarket
  <2>2. <<u, a>> \in Positions => SupplyCols(Pledged(row, ctokens))
    BY Creates, ColsRead, ColsKept DEF Reads
  <2>3. Sound(w1, old, o) /\ Sound(w2, old, o) /\ Sound(w3, old, o) /\ Sound(w4, old, o)
    BY <2>1, <2>2, SoundOutcomes, SoundUpdates DEF Reads
  <2> HIDE DEF w1, w2, w3, w4
  <2> QED BY <2>3, Plan4
<1> QED BY <1>1, ShortPlans DEF HandleQuickPledge

\* handleQuickRedeemEvent: the position and the market, each by its version.
LEMMA QuickRedeemPlan ==
  ASSUME NEW s, NEW old, NEW o, Reads(s, old, o), NEW v
  PROVE  SoundPlan(HandleQuickRedeem(s, v, o), old, o)
<1> DEFINE u == o.sender
           a == o.asset
           tokens == Trunc8(o.amt)
           m == Loaded(s, a, o)
           row == s.supply[<<u, a>>]
           amount == Trunc8(Mul16(tokens, CurExchangeRate(m)))
           w1 == Record(s, o, Tx(o, tokens, 0))
           w2 == UpdateSupply(s, u, a, Released(row, tokens), o.id)
           w3 == Transfer(o, "quick-redeem", Currency(a), amount)
           w4 == UpdateMarket(s, a, Redeemed(m, tokens, amount), o.id)
<1>1. ASSUME HasCToken(s, CToken(a))
      PROVE  SoundPlan(<<w1, w2, w3, w4>>, old, o)
  <2>1. a \in Assets => Priced(Redeemed(m, tokens, amount), old, a, o)
    BY <1>1, PricedLoaded, PricedMarkets DEF HasCToken, CToken
  <2>2. <<u, a>> \in Positions => SupplyCols(Released(row, tokens))
    BY ColsRead, ColsKept DEF Reads
  <2>3. Sound(w1, old, o) /\ Sound(w2, old, o) /\ Sound(w3, old, o) /\ Sound(w4, old, o)
    BY <2>1, <2>2, SoundOutcomes, SoundUpdates DEF Reads
  <2> HIDE DEF w1, w2, w3, w4
  <2> QED BY <2>3, Plan4
<1> QED BY <1>1, ShortPlans DEF HandleQuickRedeem

\* handleBorrowEvent: the borrow and the market, each by its version.
LEMMA BorrowPlan ==
  ASSUME NEW s, NEW old, NEW o, Reads(s, old, o), NEW v
  PROVE  SoundPlan(HandleBorrow(s, v, o), old, o)
<1> DEFINE u == o.sender
           a == o.asset
           amt == Trunc8(o.amt)
           m == Loaded(s, a, o)
           w1 == GetOrCreateBorrow(s, u, a)
           w2 == Record(s, o, Tx(o, 0, 0))
           w3 == UpdateBorrow(s, u, a, Lent(Apply(s, w1).borrow[<<u, a>>], m, amt), o.id)
           w4 == Transfer(o, "borrow", Currency(a), amt)
           w5 == UpdateMarket(s, a, LentMarket(m, amt, o.time), o.id)
<1>1. ASSUME HasMarket(s, Currency(a))
      PROVE  SoundPlan(<<w1, w2, w3, w4, w5>>, old, o)
  <2>1. a \in Assets => Priced(LentMarket(m, amt, o.time), old, a, o)
    BY <1>1, PricedLoaded, PricedMarkets DEF HasMarket, Currency
  <2>2. <<u, a>> \in Positions => BorrowCols(Lent(Apply(s, w1).borrow[<<u, a>>], m, amt))
    BY Creates, ColsRead, ColsKept DEF Reads
  <2>3. Sound(w1, old, o) /\ Sound(w2, old, o) /\ Sound(w3, old, o) /\ Sound(w4, old, o) /\ Sound(w5, old, o)
    BY <2>1, <2>2, SoundOutcomes, SoundUpdates DEF Reads
  <2> HIDE DEF w1, w2, w3, w4, w5
  <2> QED BY <2>3, Plan5
<1> QED BY <1>1, ShortPlans DEF HandleBorrow

\* handleRepayEvent: the borrow and the market, each by its version.
LEMMA RepayPlan ==
  ASSUME NEW s, NEW old, NEW o, Reads(s, old, o), NEW v
  PROVE  SoundPlan(HandleRepay(s, v, o), old, o)
<1> DEFINE u == o.sender
           a == o.cur.asset
           m == Loaded(s, a, o)
           row == s.borrow[<<u, a>>]
           tx == Decided(s, o, Tx(o, 0, Lesser(o.amount, BorrowBalance(row, m))))
           back == Trunc8(o.amount - tx.repay)
           w1 == Record(s, o, tx)
           w2 == IF back > 0 THEN Transfer(o, "repay-refund", o.cur, back) ELSE Nop
           w3 == UpdateBorrow(s, u, a, Repaid(row, m, tx.repay), o.id)
           w4 == UpdateMarket(s, a, RepaidMarket(m, tx.repay, v, o.time), o.id)
<1>1. ASSUME HasMarket(s, o.cur)
      PROVE  SoundPlan(<<w1, w2, w3, w4>>, old, o)
  <2>1. a \in Assets => Priced(RepaidMarket(m, tx.repay, v, o.time), old, a, o)
    BY <1>1, PricedLoaded, PricedMarkets DEF HasMarket
  <2>2. <<u, a>> \in Positions => BorrowCols(Repaid(row, m, tx.repay))
    BY ColsRead, ColsKept DEF Reads
  <2>3. Sound(w1, old, o) /\ Sound(w2, old, o) /\ Sound(w3, old, o) /\ Sound(w4, old, o)
    BY <2>1, <2>2, SoundOutcomes, SoundUpdates DEF Reads
  <2> HIDE DEF w1, w2, w3, w4
  <2> QED BY <2>3, Plan4
<1> QED BY <1>1, ShortPlans DEF HandleRepay

\* handleQuickBorrowEvent: four rows, each by its version.
LEMMA QuickBorrowPlan ==
  ASSUME NEW s, NEW old, NEW o, Reads(s, old, o), NEW v
  PROVE  SoundPlan(HandleQuickBorrow(s, v, o), old, o)
<1> DEFINE u == o.sender
           a == o.cur.asset
           b == o.asset
           amt == Trunc8(o.amt)
           sm == Loaded(s, a, o)
           bm == Loaded(s, b, o)
           minted == IF o.cur.ctoken THEN o.amount
                     ELSE Trunc8(Div16(o.amount, CurExchangeRate(sm)))
           tx == Decided(s, o, Tx(o, minted, 0))
           deposited == IF o.cur.ctoken THEN sm
                        ELSE Minted(sm, tx.ctokens, o.amount)
           w1 == GetOrCreateSupply(s, u, a)
           w2 == GetOrCreateBorrow(s, u, b)
           t == Apply(Apply(s, w1), w2)
           row == t.supply[<<u, a>>]
           w3 == Record(s, o, tx)
           w4 == UpdateSupply(s, u, a, Pledged(row, tx.ctokens), o.id)
           w5 == UpdateBorrow(s, u, b, Lent(t.borrow[<<u, b>>], bm, amt), o.id)
           w6 == Transfer(o, "quick-borrow", Currency(b), amt)
           w7 == UpdateMarket(s, a, AccrueInterest(deposited, o.time), o.id)
           w8 == UpdateMarket(s, b, LentMarket(bm, amt, o.time), o.id)
<1>1. ASSUME HasMarket(s, Currency(b)), s.market[a].exists
      PROVE  SoundPlan(<<w1, w2, w3, w4, w5, w6, w7, w8>>, old, o)
  <2>1. b \in Assets => Priced(LentMarket(bm, amt, o.time), old, b, o)
    BY <1>1, PricedLoaded, PricedMarkets DEF HasMarket, Currency
  <2>2. a \in Assets => Priced(deposited, old, a, o)
    BY <1>1, PricedLoaded, PricedMarkets
  <2>3. a \in Assets => Priced(AccrueInterest(deposited, o.time), old, a, o)
    BY <2>2, PricedMarkets
  <2>0. TablesShape(t)
    <3>1. TablesShape(Apply(s, w1))
      BY Creates DEF Reads
    <3> HIDE DEF w1
    <3> QED BY <3>1, Creates DEF GetOrCreateBorrow
  <2>4. <<u, a>> \in Positions => SupplyCols(Pledged(row, tx.ctokens))
    BY <2>0, ColsRead, ColsKept
  <2>5. <<u, b>> \in Positions => BorrowCols(Lent(t.borrow[<<u, b>>], bm, amt))
    BY <2>0, ColsRead, ColsKept
  <2>6. Sound(w1, old, o) /\ Sound(w2, old, o) /\ Sound(w3, old, o) /\ Sound(w4, old, o) /\ Sound(w5, old, o) /\ Sound(w6, old, o) /\ Sound(w7, old, o) /\ Sound(w8, old, o)
    BY <2>1, <2>2, <2>3, <2>4, <2>5, SoundOutcomes, SoundUpdates DEF Reads
  <2> HIDE DEF w1, w2, w3, w4, w5, w6, w7, w8
  <2> QED BY <2>6, Plan8
<1> QED BY <1>1, ShortPlans DEF HandleQuickBorrow

\* handleLiquidationEvent: two positions and two markets, each by its version.
LEMMA LiquidationPlan ==
  ASSUME NEW s, NEW old, NEW o, Reads(s, old, o), NEW v
  PROVE  SoundPlan(HandleLiquidation(s, v, o), old, o)
<1> DEFINE u == o.user
           a == o.asset
           b == o.cur.asset
           sm == Loaded(s, a, o)
           bm == Loaded(s, b, o)
           supply == s.supply[<<u, a>>]
           borrow == s.borrow[<<u, b>>]
           tx == Decided(s, o, SeizeTx(o, supply, borrow, sm, bm))
           back == o.amount - tx.repay
           w1 == Record(s, o, tx)
           w2 == UpdateSupply(s, u, a, Released(supply, tx.ctokens), o.id)
           w3 == UpdateBorrow(s, u, b, Repaid(borrow, bm, tx.repay), o.id)
           w4 == Transfer(o, "liquidate", CToken(a), tx.ctokens)
           w5 == IF back > 0 THEN Transfer(o, "liquidate-refund", o.cur, back) ELSE Nop
           w6 == UpdateMarket(s, a, AccrueInterest(sm, o.time), o.id)
           w7 == UpdateMarket(s, b, RepaidMarket(bm, tx.repay, v, o.time), o.id)
<1>1. ASSUME HasCToken(s, CToken(a)), HasMarket(s, o.cur)
      PROVE  SoundPlan(<<w1, w2, w3, w4, w5, w6, w7>>, old, o)
  <2>1. a \in Assets => Priced(AccrueInterest(sm, o.time), old, a, o)
    BY <1>1, PricedLoaded, PricedMarkets DEF HasCToken, CToken
  <2>2. b \in Assets => Priced(RepaidMarket(bm, tx.repay, v, o.time), old, b, o)
    BY <1>1, PricedLoaded, PricedMarkets DEF HasMarket
  <2>3. <<u, a>> \in Positions => SupplyCols(Released(supply, tx.ctokens))
    BY ColsRead, ColsKept DEF Reads
  <2>4. <<u, b>> \in Positions => BorrowCols(Repaid(borrow, bm, tx.repay))
    BY ColsRead, ColsKept DEF Reads
  <2>5. Sound(w1, old, o) /\ Sound(w2, old, o) /\ Sound(w3, old, o) /\ Sound(w4, old, o) /\ Sound(w5, old, o) /\ Sound(w6, old, o) /\ Sound(w7, old, o)
    BY <2>1, <2>2, <2>3, <2>4, SoundOutcomes, SoundUpdates DEF Reads
  <2> HIDE DEF w1, w2, w3, w4, w5, w6, w7
  <2> QED BY <2>5, Plan7
<1> QED BY <1>1, ShortPlans DEF HandleLiquidation

\* handleUserAction dispatches to one of the ten handlers above.
LEMMA UserActionPlan ==
  ASSUME NEW s, NEW old, NEW o, Reads(s, old, o), NEW v
  PROVE  SoundPlan(HandleUserAction(s, v, o), old, o)
BY SupplyPlan, PledgePlan, RedeemPlan, UnpledgePlan, QuickPledgePlan, QuickRedeemPlan,
   BorrowPlan, RepayPlan, QuickBorrowPlan, LiquidationPlan, ShortPlans
   DEF HandleUserAction

\* migrateV1: the statements, one a page, only give users their address.
LEMMA Pages ==
  ASSUME NEW s, NEW v
  PROVE  \E S : /\ MigrateSystem(s, v) \in Seq(S)
               /\ \A w \in S : \E us : w = MigrateToV1(us)
<1> DEFINE pages == [i \in 1..Len(UserPages) |-> MigrateToV1(UserPages[i] \cap s.legacy)]
           S == {pages[i] : i \in 1..Len(UserPages)}
<1>1. Len(UserPages) \in Nat
  BY GovernanceAssumption
<1>2. pages \in [1..Len(UserPages) -> S]
  OBVIOUS
<1>3. \A w \in S : \E us : w = MigrateToV1(us)
  OBVIOUS
<1> HIDE DEF S, pages
<1>4. pages \in Seq(S)
  BY <1>1, <1>2
<1>5. MigrateSystem(s, v) \in {pages, <<>>}
  BY DEF MigrateSystem, pages
<1>6. <<>> \in Seq(S)
  OBVIOUS
<1> QED BY <1>3, <1>4, <1>5, <1>6

\* handlePassedProposal: what a passed proposal writes, market rows by version.
LEMMA PassedPlan ==
  ASSUME NEW s, NEW old, NEW o, Reads(s, old, o), NEW v, NEW p, NEW c,
         o.act = "vote"
  PROVE  SoundPlan(HandlePassedProposal(s, v, o, p, c), old, o)
<1> DEFINE a == c.asset
           m == Loaded(s, a, o)
           f == FindMarket(s, a)
<1>1. ASSUME s.market[a].exists
      PROVE  a \in Assets => Priced(m, old, a, o) /\ Priced(f, old, a, o)
  BY <1>1, PricedLoaded
<1>2. SoundPlan(HandleMarketEvent(s, o, c), old, o)
  <2> DEFINE new == [NoMarket EXCEPT !.exists = TRUE, !.symbol = c.symbol,
                       !.ctoken = c.ctoken, !.p = c.p, !.rate = c.p["init"],
                       !.index = ONE, !.price = c.price, !.priceAt = o.time]
             changed == [m EXCEPT !.p = [n \in ParamNames |->
                                           IF Accepts(n, c.p[n]) THEN c.p[n] ELSE @[n]],
                                  !.price = IF c.price > 0 THEN c.price ELSE @]
  <2>1. Sound(CreateMarket(a, new, o.id), old, o)
    BY DEF Sound, CreateMarket, Versioned, Live, NoMarket
  <2>2. ASSUME s.market[a].exists PROVE Sound(UpdateMarket(s, a, changed, o.id), old, o)
    <3>1. a \in Assets => Priced(changed, old, a, o)
      BY <1>1, <2>2 DEF Live, Priced, PriceKept
    <3> QED BY <3>1, SoundUpdates DEF Reads
  <2>3. SoundPlan(<<Halt>>, old, o)
    BY ShortPlans
  <2> QED BY <2>1, <2>2, <2>3, Plan1 DEF HandleMarketEvent
<1>3. SoundPlan(HandleMarketStatus(s, o, c), old, o)
  <2> DEFINE changed == [m EXCEPT !.closed = (c.act = "close-market")]
  <2>1. ASSUME s.market[a].exists PROVE Sound(UpdateMarket(s, a, changed, o.id), old, o)
    <3>1. a \in Assets => Priced(changed, old, a, o)
      BY <1>1, <2>1 DEF Live, Priced, PriceKept
    <3> QED BY <3>1, SoundUpdates DEF Reads
  <2> QED BY <2>1, Plan0, Plan1 DEF HandleMarketStatus
<1>4. SoundPlan(HandleWithdraw(s, o, p, c), old, o)
  <2> DEFINE amount == Trunc8(c.amount)
             paid == [f EXCEPT !.cash = @ - amount, !.reserves = @ - amount]
             w1 == InsertTransfer([trace |-> <<"prop", p, "withdraw">>,
                              cur |-> Currency(c.asset), amount |-> amount,
                              to |-> c.to])
             w2 == UpdateMarket(s, a, AccrueInterest(paid, o.time), o.id)
  <2>1. ASSUME s.market[a].exists PROVE SoundPlan(<<w1, w2>>, old, o)
    <3>1. a \in Assets => Priced(paid, old, a, o)
      BY <1>1, <2>1 DEF Live, Priced, PriceKept
    <3>2. a \in Assets => Priced(AccrueInterest(paid, o.time), old, a, o)
      BY <3>1, PricedMarkets
    <3>3. Sound(w1, old, o) /\ Sound(w2, old, o)
      BY <3>2, SoundOutcomes, SoundUpdates DEF Reads
    <3> QED BY <3>3, Plan2
  <2> QED BY <2>1, Plan0 DEF HandleWithdraw
<1>5. SoundPlan(SetProperty(s, v, c), old, o)
  <2> DEFINE first == IF c.key = "sysversion" THEN MigrateSystem(s, v) ELSE <<>>
  <2>0. SoundPlan(MigrateSystem(s, v), old, o)
    <3>1. PICK S : MigrateSystem(s, v) \in Seq(S) /\ \A w \in S : \E us : w = MigrateToV1(us)
      BY Pages
    <3>2. \A us : Sound(MigrateToV1(us), old, o)
      BY SoundOutcomes
    <3> QED BY <3>1, <3>2 DEF SoundPlan
  <2>1. SoundPlan(first, old, o)
    BY <2>0, Plan0
  <2>2. SoundPlan(<<SaveProperty(c.key, c.value)>>, old, o)
    BY Plan1, SoundOutcomes
  <2> HIDE DEF first
  <2>3. SoundPlan(first \o <<SaveProperty(c.key, c.value)>>, old, o)
    BY <2>1, <2>2, PlanJoin
  <2> QED BY <2>3, ShortPlans DEF SetProperty, first
<1>6. SoundPlan(HandleOracleSigner(s, c), old, o)
  BY Plan0, Plan1, SoundOutcomes DEF HandleOracleSigner
<1> QED BY <1>2, <1>3, <1>4, <1>5, <1>6, Plan0 DEF HandlePassedProposal

\* The vote is written over a row this output has not voted on yet.
Unvoted(s, o) ==
  o.act = "vote" /\ o.prop \in Proposals
    => \/ s.ver[<<"proposal", o.prop>>] < o.id
       \/ Voter(o) \in s.proposal[o.prop].votes

\* A vote that is not in the row yet was not saved by this output, so the row's
\* version is below the output: counting it is sound.
LEMMA CountPlan ==
  ASSUME NEW s, NEW old, NEW o, Reads(s, old, o), NEW v, Entitled(o), Unvoted(s, o),
         o.prop \in Proposals, s.proposal[o.prop].exists, Voter(o) \notin s.proposal[o.prop].votes
  PROVE  SoundPlan(CountVote(s, v, o, o.prop), old, o)
<1> DEFINE p == o.prop
           row == s.proposal[p]
           voted == Voted(row, o)
           w == UpdateProposal(s, p, voted, o.id)
           told == <<ProposalApproved(p, Voter(o), v)>>
           decided == IF voted.passed THEN <<ProposalPassed(p, v)>> ELSE <<>>
           execute == IF voted.passed THEN HandlePassedProposal(s, v, o, p, voted.content)
                                      ELSE <<>>
<1>1. Sound(w, old, o)
  <2>1. p \in Proposals => VotesCols(voted) /\ Voter(o) \in voted.votes
    BY DEF Reads, TablesShape, VotesCols, Voted, Counted
  <2>6. p \in Proposals => Ballots(voted, old, p, o)
    BY DEF Reads, Agrees, TablesShape, Ballots, Voted
  <2>2. <<"proposal", p>> \in Rows => p \in Proposals
    BY DEF Rows
  <2>3. p \in Proposals => <<"proposal", p>> \in Rows
    BY DEF Rows
  <2>4. p \in Proposals => s.ver[<<"proposal", p>>] \in Nat
                           /\ s.ver[<<"proposal", p>>] < o.id
    BY <2>3 DEF Unvoted, Reads, TablesShape, Entitled
  <2>7. o.act = "vote"
    BY DEF Entitled
  <2>5. /\ w.t = "proposal" /\ w.key = p /\ w.data = voted /\ w.new = o.id
        /\ w.old = s.ver[<<"proposal", p>>]
    BY DEF UpdateProposal
  <2> HIDE DEF w, voted
  <2> QED BY <2>1, <2>2, <2>4, <2>5, <2>6, <2>7 DEF Sound, Versioned
<1>2. SoundPlan(<<w>>, old, o)
  BY <1>1, Plan1
<1>3. SoundPlan(told, old, o) /\ SoundPlan(decided, old, o)
  BY Plan0, Plan1, SoundNews
<1>4. SoundPlan(execute, old, o)
  BY PassedPlan, Plan0 DEF Entitled
<1> HIDE DEF w, told, decided, execute
<1>5. SoundPlan(told \o decided, old, o)
  BY <1>3, PlanJoin
<1>6. SoundPlan((told \o decided) \o <<w>>, old, o)
  BY <1>2, <1>5, PlanJoin
<1>7. SoundPlan(((told \o decided) \o <<w>>) \o execute, old, o)
  BY <1>4, <1>6, PlanJoin
<1> QED BY <1>7 DEF CountVote, w, told, decided, execute

\* handleVoteProposal, handleVoteProposalV1 and handleVoteProposalEventV0 count a
\* vote only if it is not in the row yet.
LEMMA VotePlan ==
  ASSUME NEW s, NEW old, NEW o, Reads(s, old, o), NEW v, o.act = "vote", Unvoted(s, o),
         TypedOutput(o)
  PROVE  /\ o.fmt # "member" => SoundPlan(HandleVoteProposal(s, v, o), old, o)
         /\ IsMemberAction(o) => SoundPlan(HandleVoteProposalV0(s, v, o), old, o)
<1> DEFINE p == o.prop
           row == s.proposal[p]
           count == CountVote(s, v, o, p)
           execute == HandlePassedProposal(s, v, o, p, row.content)
<1>0. p \in Proposals
  BY DEF TypedOutput
<1>1. Entitled(o) /\ row.exists /\ Voter(o) \notin row.votes => SoundPlan(count, old, o)
  BY <1>0, CountPlan
<1>2. SoundPlan(execute, old, o)
  BY PassedPlan
<1>3. SoundPlan(<<ForwardProposal(v, o, p, "vote")>>, old, o)
  BY <1>0, Plan1, SoundNews
<1> HIDE DEF count, execute
<1>4. ASSUME o.fmt # "member" PROVE SoundPlan(HandleVoteProposal(s, v, o), old, o)
  <2>1. o.sender \in Members /\ o.sender \notin Staff => Entitled(o)
    BY <1>4 DEF Entitled, Voter
  <2> QED BY <1>1, <1>2, <1>3, <2>1, ShortPlans
          DEF HandleVoteProposal, MayVote, count, execute
<1>5. ASSUME IsMemberAction(o) PROVE SoundPlan(HandleVoteProposalV0(s, v, o), old, o)
  <2>1. Entitled(o)
    BY <1>5 DEF Entitled, Voter, IsMemberAction
  <2> QED BY <1>1, <1>2, <2>1, ShortPlans DEF HandleVoteProposalV0, count, execute
<1> QED BY <1>4, <1>5

\* handleMakeProposal, buildProposalV1 and handleCreateProposalEventV0 insert a row
\* with the version of the output, or with none.
LEMMA MakePlan ==
  ASSUME NEW s, NEW old, NEW v, NEW o, o.act = "make", TypedOutput(o)
  PROVE  /\ SoundPlan(HandleMakeProposal(s, v, o), old, o)
         /\ SoundPlan(HandleCreateProposalV0(s, v, o), old, o)
<1> DEFINE new == NewProposal(o.content)
           told == IF o.sender \in Members THEN <<ProposalCreated(o.id, o.sender, v)>>
                   ELSE IF o.sender \in Staff THEN <<ForwardProposal(v, o, o.id, "shout")>>
                   ELSE <<>>
<1>1. ASSUME NEW n \in {0, o.id} PROVE Sound(CreateProposal(o.id, new, n), old, o)
  <2>1. VotesCols(new) /\ new.votes = {}
    <3>1. /\ {"exists", "votes", "passed", "content"} \subseteq DOMAIN new
          /\ new.exists = TRUE /\ new.votes = {} /\ new.passed = FALSE
          /\ new.content = o.content
      BY DEF NoProposal, NewProposal
    <3>2. (Cardinality({}) >= Threshold) = FALSE
      BY FS_EmptySet, GovernanceAssumption
    <3> HIDE DEF new
    <3> QED BY <3>1, <3>2 DEF VotesCols, Counted, TypedOutput
  <2> HIDE DEF new
  <2> QED BY <1>1, <2>1 DEF Sound, CreateProposal, Versioned
<1>2. SoundPlan(told, old, o)
  BY Plan0, Plan1, SoundNews
<1>3. SoundPlan(<<CreateProposal(o.id, new, o.id)>>, old, o)
  BY <1>1, Plan1
<1>4. Sound(ProposalCreated(o.id, o.member, v), old, o)
  BY SoundNews
<1>5. SoundPlan(<<CreateProposal(o.id, new, 0), ProposalCreated(o.id, o.member, v)>>, old, o)
  BY <1>1, <1>4, Plan2
<1> HIDE DEF told, new
<1>6. SoundPlan(<<CreateProposal(o.id, new, o.id)>> \o told, old, o)
  BY <1>2, <1>3, PlanJoin
<1>7. SoundPlan(HandleMakeProposal(s, v, o), old, o)
  BY <1>6, ShortPlans DEF HandleMakeProposal, told, new
<1>8. SoundPlan(HandleCreateProposalV0(s, v, o), old, o)
  BY <1>5, ShortPlans DEF HandleCreateProposalV0, new
<1> QED BY <1>7, <1>8

\* Every statement an attempt at an output issues is sound.
LEMMA OutputPlan ==
  ASSUME NEW s, NEW old, NEW o, Reads(s, old, o), NEW v, Unvoted(s, o),
         TypedOutput(o)
  PROVE  SoundPlan(HandleOutput(s, v, o), old, o)
<1>1. IsPrice(s, v, o) => SoundPlan(HandlePriceEvent(s, v, o), old, o)
  <2> DEFINE a == o.asset
             f == FindMarket(s, a)
             at == IF v < 3 THEN o.time ELSE o.at
             changed == [f EXCEPT !.price = o.price, !.priceAt = at]
  <2>1. ASSUME IsPrice(s, v, o), ~Outdated(s, a, o), ~Stale(v, f, o)
        PROVE  Sound(UpdateMarket(s, a, AccrueInterest(changed, o.time), o.id), old, o)
    <3>1. a \in Assets => Priced(f, old, a, o)
      BY <2>1, PricedLoaded DEF IsPrice
    <3>2. a \in Assets => SignedFor(old, a, o) /\ s.market[a].p = old.market[a].p
      <4>1. a \in Assets => f.priceAt = s.market[a].priceAt
        BY DEF Reads, TablesShape, FindMarket, AfterFind
      <4>2. a \in Assets => VerifyPriceData(s, s.market[a], o)
        BY <2>1, <4>1 DEF IsPrice, Stale
      <4>3. o.act = "price" /\ s.signers = old.signers
        BY <2>1 DEF IsPrice, Reads, Agrees
      <4>4. a \in Assets => s.market[a].p = old.market[a].p
        BY <4>3 DEF Reads, Agrees, PriceKept
      <4> QED BY <4>2, <4>3, <4>4 DEF VerifyPriceData, SignedFor
    <3>3. a \in Assets => Priced(changed, old, a, o)
      BY <3>1, <3>2 DEF Live, Priced, PriceKept
    <3>4. a \in Assets => Priced(AccrueInterest(changed, o.time), old, a, o)
      BY <3>3, PricedMarkets
    <3> QED BY <3>4, SoundUpdates DEF Reads
  <2> QED BY <2>1, Plan0, Plan1 DEF HandlePriceEvent
<1>2. o.act = "shout" => SoundPlan(HandleShoutProposal(s, v, o), old, o)
  BY Plan0, Plan1, SoundNews DEF HandleShoutProposal, TypedOutput
<1>3. Sound(EnsureUser(s, o), old, o)
  BY SoundOutcomes DEF EnsureUser
<1>4. SoundPlan(<<EnsureUser(s, o)>> \o HandleUserAction(Apply(s, EnsureUser(s, o)), v, o), old, o)
  BY <1>3, Plan1, CreatesUser, UserActionPlan, PlanJoin
<1>5. SoundPlan(HandleUnknown(s, o), old, o)
  BY <1>3, Plan2, SoundOutcomes DEF HandleUnknown
<1>6. o.fmt # "member" => SoundPlan(Dispatch(s, v, o), old, o)
  BY <1>2, <1>4, MakePlan, VotePlan DEF Dispatch
<1>7. IsMemberAction(o) => SoundPlan(HandleProposalActionV0(s, v, o), old, o)
  BY MakePlan, VotePlan DEF IsMemberAction, HandleProposalActionV0
<1>8. /\ Route(v, o) = "member" => IsMemberAction(o)
      /\ Route(v, o) = "action" => o.fmt # "member"
  BY DEF Route, RouteV1, RouteV2, RouteV3
<1> QED BY <1>1, <1>5, <1>6, <1>7, <1>8, Plan0 DEF HandleOutput

(***************************************************************************)
(* Statements on the tables                                                *)
(***************************************************************************)

\* Tables that only outputs up to n have written.
Past(s, n) ==
  /\ TablesShape(s)
  /\ \A r \in Rows : s.ver[r] <= n
  /\ \A a \in Assets : s.ver[<<"market", a>>] # 0 => s.market[a].exists = TRUE
  /\ \A p \in Proposals : /\ s.ver[<<"proposal", p>>] # 0 => s.proposal[p].exists = TRUE
                          /\ Counted(s.proposal[p]) /\ TypedContent(s.proposal[p].content)

\* Tables in the middle of an attempt at o: a proposal o has written was made
\* by o or has the vote o carries.
During(s, old, o) ==
  /\ Past(s, o.id) /\ Agrees(s, old, o)
  /\ \A p \in Proposals : s.ver[<<"proposal", p>>] = o.id
       => o.act = "make" \/ Voter(o) \in s.proposal[p].votes

Once(s, t, o) ==
  \A r \in Rows : RowData(t, r) # RowData(s, r) =>
    /\ s.ver[r] < o.id
    /\ \/ t.ver[r] = o.id
       \/ r[1] = "proposal" /\ ~s.proposal[r[2]].exists /\ t.ver[r] = 0

\* A row is a market, a supply, a borrow or a proposal.
LEMMA RowKinds ==
  /\ \A a \in Assets : <<"market", a>> \in Rows
  /\ \A k \in Positions : <<"supply", k>> \in Rows /\ <<"borrow", k>> \in Rows
  /\ \A p \in Proposals : <<"proposal", p>> \in Rows
  /\ \A r \in Rows : \/ r[1] = "market" /\ r[2] \in Assets /\ r = <<"market", r[2]>>
                     \/ r[1] = "supply" /\ r[2] \in Positions /\ r = <<"supply", r[2]>>
                     \/ r[1] = "borrow" /\ r[2] \in Positions /\ r = <<"borrow", r[2]>>
                     \/ r[1] = "proposal" /\ r[2] \in Proposals /\ r = <<"proposal", r[2]>>
BY DEF Rows

\* Writing a market row that this output has not written yet.
LEMMA WriteMarket ==
  ASSUME NEW s, NEW old, NEW o, o.id \in Nat \ {0}, During(s, old, o), NEW key, NEW data,
         key \in Assets => Priced(data, old, key, o) /\ s.ver[<<"market", key>>] < o.id,
         NEW t
  PROVE  t = [s EXCEPT !.market[key] = data, !.ver[<<"market", key>>] = o.id]
           => During(t, old, o) /\ Once(s, t, o)
<1>1. ASSUME t = [s EXCEPT !.market[key] = data, !.ver[<<"market", key>>] = o.id]
      PROVE  During(t, old, o) /\ Once(s, t, o)
  <2>1. /\ t.supply = s.supply /\ t.borrow = s.borrow /\ t.proposal = s.proposal
        /\ DOMAIN t = DOMAIN s /\ t.signers = s.signers
        /\ t.market = [s.market EXCEPT ![key] = data]
        /\ t.ver = [s.ver EXCEPT ![<<"market", key>>] = o.id]
    <3>1. TablesShape(s)
      BY DEF During, Past
    <3> QED BY <1>1, <3>1 DEF TablesShape, Tables
  <2>2. TablesShape(t)
    <3>0. s.ver \in [Rows -> Nat] /\ o.id \in Nat
      BY DEF During, Past, TablesShape
    <3>1. t.ver \in [Rows -> Nat]
      BY <2>1, <3>0
    <3>2. \A a \in Assets : {"exists", "price", "priceAt", "closed", "p"} \subseteq DOMAIN t.market[a]
      BY <2>1 DEF During, Past, TablesShape, Live, Priced
    <3> QED BY <2>1, <3>1, <3>2 DEF During, Past, TablesShape
  <2>3. Past(t, o.id)
    BY <2>1, <2>2, RowKinds DEF During, Past, TablesShape, Live, Priced
  <2>6. Agrees(t, old, o)
    BY <2>1 DEF During, Agrees, Past, TablesShape, Priced
  <2>4. During(t, old, o)
    BY <2>1, <2>3, <2>6, RowKinds DEF During, Past, TablesShape
  <2>5. Once(s, t, o)
    BY <2>1, RowKinds, SMTT(30) DEF Once, RowData, During, Past, TablesShape
  <2> QED BY <2>4, <2>5
<1> QED BY <1>1

\* Writing a supply row that this output has not written yet.
LEMMA WriteSupply ==
  ASSUME NEW s, NEW old, NEW o, o.id \in Nat \ {0}, During(s, old, o), NEW key, NEW data,
         key \in Positions => SupplyCols(data) /\ s.ver[<<"supply", key>>] < o.id,
         NEW t
  PROVE  t = [s EXCEPT !.supply[key] = data, !.ver[<<"supply", key>>] = o.id]
           => During(t, old, o) /\ Once(s, t, o)
<1>1. ASSUME t = [s EXCEPT !.supply[key] = data, !.ver[<<"supply", key>>] = o.id]
      PROVE  During(t, old, o) /\ Once(s, t, o)
  <2>1. /\ t.market = s.market /\ t.borrow = s.borrow /\ t.proposal = s.proposal
        /\ DOMAIN t = DOMAIN s /\ t.signers = s.signers
        /\ t.supply = [s.supply EXCEPT ![key] = data]
        /\ t.ver = [s.ver EXCEPT ![<<"supply", key>>] = o.id]
    <3>1. TablesShape(s)
      BY DEF During, Past
    <3> QED BY <1>1, <3>1 DEF TablesShape, Tables
  <2>2. TablesShape(t)
    <3>0. s.ver \in [Rows -> Nat] /\ o.id \in Nat
      BY DEF During, Past, TablesShape
    <3>1. t.ver \in [Rows -> Nat]
      BY <2>1, <3>0
    <3>2. \A k \in Positions : {"exists", "coll"} \subseteq DOMAIN t.supply[k]
      BY <2>1 DEF During, Past, TablesShape, SupplyCols
    <3> QED BY <2>1, <3>1, <3>2 DEF During, Past, TablesShape
  <2>3. Past(t, o.id)
    BY <2>1, <2>2, RowKinds DEF During, Past, TablesShape, SupplyCols
  <2>6. Agrees(t, old, o)
    BY <2>1 DEF During, Agrees, Past, TablesShape
  <2>4. During(t, old, o)
    BY <2>1, <2>3, <2>6, RowKinds DEF During, Past, TablesShape
  <2>5. Once(s, t, o)
    BY <2>1, RowKinds DEF Once, RowData, During, Past, TablesShape
  <2> QED BY <2>4, <2>5
<1> QED BY <1>1

\* Writing a borrow row that this output has not written yet.
LEMMA WriteBorrow ==
  ASSUME NEW s, NEW old, NEW o, o.id \in Nat \ {0}, During(s, old, o), NEW key, NEW data,
         key \in Positions => BorrowCols(data) /\ s.ver[<<"borrow", key>>] < o.id,
         NEW t
  PROVE  t = [s EXCEPT !.borrow[key] = data, !.ver[<<"borrow", key>>] = o.id]
           => During(t, old, o) /\ Once(s, t, o)
<1>1. ASSUME t = [s EXCEPT !.borrow[key] = data, !.ver[<<"borrow", key>>] = o.id]
      PROVE  During(t, old, o) /\ Once(s, t, o)
  <2>1. /\ t.market = s.market /\ t.supply = s.supply /\ t.proposal = s.proposal
        /\ DOMAIN t = DOMAIN s /\ t.signers = s.signers
        /\ t.borrow = [s.borrow EXCEPT ![key] = data]
        /\ t.ver = [s.ver EXCEPT ![<<"borrow", key>>] = o.id]
    <3>1. TablesShape(s)
      BY DEF During, Past
    <3> QED BY <1>1, <3>1 DEF TablesShape, Tables
  <2>2. TablesShape(t)
    <3>0. s.ver \in [Rows -> Nat] /\ o.id \in Nat
      BY DEF During, Past, TablesShape
    <3>1. t.ver \in [Rows -> Nat]
      BY <2>1, <3>0
    <3>2. \A k \in Positions : {"exists", "principal", "index"} \subseteq DOMAIN t.borrow[k]
      BY <2>1 DEF During, Past, TablesShape, BorrowCols
    <3> QED BY <2>1, <3>1, <3>2 DEF During, Past, TablesShape
  <2>3. Past(t, o.id)
    BY <2>1, <2>2, RowKinds DEF During, Past, TablesShape, BorrowCols
  <2>6. Agrees(t, old, o)
    BY <2>1 DEF During, Agrees, Past, TablesShape
  <2>4. During(t, old, o)
    BY <2>1, <2>3, <2>6, RowKinds DEF During, Past, TablesShape
  <2>5. Once(s, t, o)
    BY <2>1, RowKinds DEF Once, RowData, During, Past, TablesShape
  <2> QED BY <2>4, <2>5
<1> QED BY <1>1

\* Writing a proposal row that this output has not written yet, or inserting one
\* without a version.
LEMMA WriteProposal ==
  ASSUME NEW s, NEW old, NEW o, o.id \in Nat \ {0}, During(s, old, o), NEW key, NEW data,
         NEW n \in {0, o.id},
         key \in Proposals => /\ VotesCols(data) /\ s.ver[<<"proposal", key>>] < o.id
                              /\ o.act = "make" \/ Voter(o) \in data.votes
                              /\ Ballots(data, old, key, o)
                              /\ n = o.id \/ ~s.proposal[key].exists,
         NEW t
  PROVE  t = [s EXCEPT !.proposal[key] = data, !.ver[<<"proposal", key>>] = n]
           => During(t, old, o) /\ Once(s, t, o)
<1>1. ASSUME t = [s EXCEPT !.proposal[key] = data, !.ver[<<"proposal", key>>] = n]
      PROVE  During(t, old, o) /\ Once(s, t, o)
  <2>1. /\ t.market = s.market /\ t.supply = s.supply /\ t.borrow = s.borrow
        /\ DOMAIN t = DOMAIN s /\ t.signers = s.signers
        /\ t.proposal = [s.proposal EXCEPT ![key] = data]
        /\ t.ver = [s.ver EXCEPT ![<<"proposal", key>>] = n]
    <3>1. TablesShape(s)
      BY DEF During, Past
    <3> QED BY <1>1, <3>1 DEF TablesShape, Tables
  <2>2. TablesShape(t)
    <3>0. s.ver \in [Rows -> Nat] /\ n \in Nat
      BY DEF During, Past, TablesShape
    <3>1. t.ver \in [Rows -> Nat]
      BY <2>1, <3>0
    <3>2. \A p \in Proposals : {"exists", "votes", "passed", "content"}
                               \subseteq DOMAIN t.proposal[p]
      BY <2>1 DEF During, Past, TablesShape, VotesCols
    <3> QED BY <2>1, <3>1, <3>2 DEF During, Past, TablesShape
  <2>3. Past(t, o.id)
    BY <2>1, <2>2, RowKinds DEF During, Past, TablesShape, VotesCols
  <2>6. Agrees(t, old, o)
    BY <2>1 DEF During, Agrees, Past, TablesShape
  <2>4. During(t, old, o)
    BY <2>1, <2>3, <2>6, RowKinds DEF During, Past, TablesShape
  <2>5. Once(s, t, o)
    BY <2>1, RowKinds DEF Once, RowData, During, Past, TablesShape
  <2> QED BY <2>4, <2>5
<1> QED BY <1>1

\* A statement that writes no versioned row changes no row's data.
LEMMA WriteNothing ==
  ASSUME NEW s, NEW old, NEW o, During(s, old, o), NEW t,
         t.market = s.market, t.proposal = s.proposal, t.ver = s.ver,
         DOMAIN t = DOMAIN s, o.act = "vote" \/ t.signers = s.signers, DOMAIN t.supply = Positions, DOMAIN t.borrow = Positions,
         \A k \in Positions : /\ SupplyCols(t.supply[k])
                              /\ t.supply[k].coll = s.supply[k].coll
                              /\ BorrowCols(t.borrow[k])
                              /\ t.borrow[k].principal = s.borrow[k].principal
                              /\ t.borrow[k].index = s.borrow[k].index
  PROVE  During(t, old, o) /\ Once(s, t, o)
<1>1. TablesShape(t)
  BY DEF During, Past, TablesShape, SupplyCols, BorrowCols
<1>2. During(t, old, o)
  BY <1>1 DEF During, Past, Agrees
<1>3. Once(s, t, o)
  BY RowKinds DEF Once, RowData
<1> QED BY <1>2, <1>3

\* A sound statement whose lock is held keeps the tables in shape and changes
\* a row only from a version below the output's id to that id.
LEMMA ApplySound ==
  ASSUME NEW s, NEW w, NEW old, NEW o, o.id \in Nat \ {0},
         During(s, old, o), Sound(w, old, o), LockHeld(s, w)
  PROVE  During(Apply(s, w), old, o) /\ Once(s, Apply(s, w), o)
<1> DEFINE t == Apply(s, w)
<1>0. /\ TablesShape(s) /\ Past(s, o.id)
      /\ \A k \in Positions : SupplyCols(s.supply[k]) /\ BorrowCols(s.borrow[k])
  BY ColsRead DEF During, Past
<1>a. During(s, old, o) /\ Once(s, s, o)
  BY DEF Once
<1>1. CASE w.t = "market"
  <2>1. t = [s EXCEPT !.market[w.key] = w.data, !.ver[<<"market", w.key>>] = o.id]
    BY <1>1 DEF Apply, Sound, Versioned
  <2>2. w.key \in Assets => /\ Priced(w.data, old, w.key, o)
                            /\ s.ver[<<"market", w.key>>] < o.id
    BY <1>1, RowKinds DEF Sound, Versioned, LockHeld
  <2> QED BY <2>1, <2>2, WriteMarket
<1>2. CASE w.t = "supply"
  <2>1. t = [s EXCEPT !.supply[w.key] = w.data, !.ver[<<"supply", w.key>>] = o.id]
    BY <1>2 DEF Apply, Sound, Versioned
  <2>2. w.key \in Positions => SupplyCols(w.data) /\ s.ver[<<"supply", w.key>>] < o.id
    BY <1>2, RowKinds DEF Sound, Versioned, LockHeld
  <2> QED BY <2>1, <2>2, WriteSupply
<1>3. CASE w.t = "borrow"
  <2>1. t = [s EXCEPT !.borrow[w.key] = w.data, !.ver[<<"borrow", w.key>>] = o.id]
    BY <1>3 DEF Apply, Sound, Versioned
  <2>2. w.key \in Positions => BorrowCols(w.data) /\ s.ver[<<"borrow", w.key>>] < o.id
    BY <1>3, RowKinds DEF Sound, Versioned, LockHeld
  <2> QED BY <2>1, <2>2, WriteBorrow
<1>4. CASE w.t = "proposal"
  <2>1. t = [s EXCEPT !.proposal[w.key] = w.data, !.ver[<<"proposal", w.key>>] = o.id]
    BY <1>4 DEF Apply, Sound, Versioned
  <2>2. w.key \in Proposals => /\ VotesCols(w.data) /\ Voter(o) \in w.data.votes
                               /\ Ballots(w.data, old, w.key, o)
                               /\ s.ver[<<"proposal", w.key>>] < o.id
    BY <1>4, RowKinds DEF Sound, Versioned, LockHeld
  <2> QED BY <2>1, <2>2, WriteProposal
<1>5. CASE w.t = "newmarket"
  <2>1. CASE s.market[w.key].exists
    BY <1>5, <1>a, <2>1 DEF Apply
  <2>2. CASE ~s.market[w.key].exists
    <3>1. t = [s EXCEPT !.market[w.key] = w.data, !.ver[<<"market", w.key>>] = o.id]
      BY <1>5, <2>2 DEF Apply, Sound
    <3>2. w.key \in Assets => /\ Priced(w.data, old, w.key, o)
                              /\ s.ver[<<"market", w.key>>] < o.id
      BY <1>0, <1>5, <2>2 DEF Sound, Past, Priced, PriceKept
    <3> QED BY <3>1, <3>2, WriteMarket
  <2> QED BY <2>1, <2>2
<1>6. CASE w.t = "newproposal"
  <2>1. CASE s.proposal[w.key].exists
    BY <1>6, <1>a, <2>1 DEF Apply
  <2>2. CASE ~s.proposal[w.key].exists
    <3>1. t = [s EXCEPT !.proposal[w.key] = w.data, !.ver[<<"proposal", w.key>>] = w.new]
      BY <1>6, <2>2 DEF Apply
    <3>2. w.key \in Proposals => /\ VotesCols(w.data) /\ s.ver[<<"proposal", w.key>>] < o.id
                                 /\ o.act = "make" \/ Voter(o) \in w.data.votes
                                 /\ w.new = o.id \/ ~s.proposal[w.key].exists
                                 /\ Ballots(w.data, old, w.key, o)
      BY <1>0, <1>6, <2>2 DEF Sound, Past, Ballots
    <3>3. w.new \in {0, o.id}
      BY <1>6 DEF Sound
    <3> HIDE DEF t
    <3>4. During(t, old, o) /\ Once(s, t, o)
      BY <3>1, <3>2, <3>3, WriteProposal
    <3> QED BY <3>4 DEF t
  <2> QED BY <2>1, <2>2
<1>7. CASE w.t = "newsupply"
  <2>1. t = [s EXCEPT !.supply[w.key].exists = TRUE]
    BY <1>7 DEF Apply
  <2> HIDE DEF t
  <2>2. /\ t.market = s.market /\ t.proposal = s.proposal /\ t.ver = s.ver
        /\ t.borrow = s.borrow /\ DOMAIN t = DOMAIN s /\ t.signers = s.signers
        /\ t.supply = [s.supply EXCEPT ![w.key] = [@ EXCEPT !.exists = TRUE]]
    BY <1>0, <2>1 DEF TablesShape, Tables
  <2>3. \A k \in Positions : SupplyCols(t.supply[k]) /\ t.supply[k].coll = s.supply[k].coll
    BY <1>0, <2>2 DEF SupplyCols, TablesShape
  <2>4. During(t, old, o) /\ Once(s, t, o)
    BY <1>0, <2>2, <2>3, WriteNothing DEF TablesShape
  <2> QED BY <2>4 DEF t
<1>8. CASE w.t = "newborrow"
  <2>1. t = [s EXCEPT !.borrow[w.key].exists = TRUE]
    BY <1>8 DEF Apply
  <2> HIDE DEF t
  <2>2. /\ t.market = s.market /\ t.proposal = s.proposal /\ t.ver = s.ver
        /\ t.supply = s.supply /\ DOMAIN t = DOMAIN s /\ t.signers = s.signers
        /\ t.borrow = [s.borrow EXCEPT ![w.key] = [@ EXCEPT !.exists = TRUE]]
    BY <1>0, <2>1 DEF TablesShape, Tables
  <2>3. \A k \in Positions : /\ BorrowCols(t.borrow[k])
                             /\ t.borrow[k].principal = s.borrow[k].principal
                             /\ t.borrow[k].index = s.borrow[k].index
    BY <1>0, <2>2 DEF BorrowCols, TablesShape
  <2>4. During(t, old, o) /\ Once(s, t, o)
    BY <1>0, <2>2, <2>3, WriteNothing DEF TablesShape
  <2> QED BY <2>4 DEF t
<1>9. CASE w.t \notin Versioned \cup {"newmarket", "newproposal", "newsupply", "newborrow"}
  <2>0. w.t = "signers" => o.act = "vote"
    BY DEF Sound
  <2>1. \/ t \in {s, [s EXCEPT !.tx = @ \cup {w.data}], [s EXCEPT !.transfer = @ \cup {w.data}],
                  [s EXCEPT !.user = @ \cup {w.data}], [s EXCEPT !.sysversion = w.data],
                  [s EXCEPT !.legacy = @ \ w.data],
                  [s EXCEPT !.property = {x \in @ : x.key # w.key} \cup {w.data}]}
        \/ w.t = "signers" /\ t = [s EXCEPT !.signers = w.data]
    BY <1>9 DEF Apply, Versioned
  <2> HIDE DEF t
  <2>2. /\ t.market = s.market /\ t.proposal = s.proposal /\ t.ver = s.ver
        /\ t.supply = s.supply /\ t.borrow = s.borrow /\ DOMAIN t = DOMAIN s
        /\ o.act = "vote" \/ t.signers = s.signers
    BY <1>0, <1>9, <2>1, <2>0 DEF TablesShape, Tables
  <2>3. During(t, old, o) /\ Once(s, t, o)
    BY <1>0, <2>2, WriteNothing DEF TablesShape
  <2> QED BY <2>3 DEF t
<1> QED BY <1>1, <1>2, <1>3, <1>4, <1>5, <1>6, <1>7, <1>8, <1>9 DEF Versioned

(***************************************************************************)
(* The worker                                                              *)
(***************************************************************************)

Control ==
  /\ \E S : outputs \in Seq(S)
  /\ \A k \in 1..Len(outputs) : outputs[k].id = k /\ TypedOutput(outputs[k])
  /\ checkpoint \in Nat /\ batch \in Nat
  /\ checkpoint <= batch /\ batch <= Len(outputs)
  /\ busy => checkpoint < batch

\* With an output to handle the tables are in the middle of it, perhaps after
\* a crash; without one they hold nothing newer than the checkpoint.
TablesInv ==
  /\ checkpoint < Len(outputs) => During(db, settled, Current)
  /\ checkpoint = Len(outputs) => Past(db, checkpoint) /\ db = settled

PlanInv == busy => SoundPlan(plan, settled, Current)

IInv == Control /\ TablesInv /\ PlanInv

\* Tables settled before an output are tables at the start of its first attempt.
LEMMA PastDuring ==
  ASSUME NEW s, NEW n \in Nat, Past(s, n), NEW o, o.id = n + 1
  PROVE  During(s, s, o)
<1>1. \A r \in Rows : s.ver[r] \in Nat /\ s.ver[r] <= n
  BY DEF Past, TablesShape
<1>2. Agrees(s, s, o)
  BY DEF Agrees, PriceKept, Ballots
<1> QED BY <1>1, <1>2, RowKinds DEF During, Past

\* The tables before the first output.
LEMMA GenesisPast == Past(Genesis, 0)
<1>1. ASSUME NEW p \in Proposals
      PROVE  Counted(Genesis.proposal[p]) /\ TypedContent(Genesis.proposal[p].content)
  <2>1. Genesis.proposal[p] = NoProposal
    BY GenesisAssumption
  <2>2. NoProposal.votes = {} /\ NoProposal.passed = FALSE /\ NoProposal.content.act = "none"
    BY DEF NoProposal
  <2>3. (Cardinality({}) >= Threshold) = FALSE
    BY FS_EmptySet, GovernanceAssumption
  <2> QED BY <2>1, <2>2, <2>3 DEF Counted, TypedContent
<1> QED BY <1>1, GenesisAssumption, RowKinds DEF Past, TablesShape

\* The deployment starts with no row written, so the invariant holds.
LEMMA InitInv == Init => IInv
<1> SUFFICES ASSUME Init PROVE IInv
  OBVIOUS
<1>1. Prefix \in Seq({Prefix[k] : k \in DOMAIN Prefix}) /\ Len(Prefix) \in Nat
  BY LogAssumption
<1>2. Control
  <2>1. \E S : outputs \in Seq(S)
    BY <1>1 DEF Init
  <2> QED BY <1>1, <2>1, LogAssumption DEF Init, Control
<1>3. Past(db, 0)
  BY GenesisPast DEF Init
<1>4. TablesInv
  <2>1. CASE 0 < Len(outputs)
    <3>1. Current.id = 0 + 1
      BY <1>1, <2>1, LogAssumption DEF Init, Current
    <3>2. During(db, settled, Current)
      BY <1>3, <3>1, PastDuring DEF Init
    <3> QED BY <2>1, <3>2 DEF TablesInv, Init
  <2>2. CASE ~(0 < Len(outputs))
    BY <1>3, <2>2 DEF TablesInv, Init
  <2> QED BY <2>1, <2>2
<1>5. PlanInv
  BY DEF Init, PlanInv
<1> QED BY <1>2, <1>4, <1>5 DEF IInv

\* What an attempt reads, be it the first or one after a crash.
LEMMA HandleReads ==
  ASSUME IInv, checkpoint < Len(outputs)
  PROVE  Reads(db, settled, Current) /\ Unvoted(db, Current) /\ TypedOutput(Current)
<1>a. During(db, settled, Current) /\ Current.id = checkpoint + 1 /\ checkpoint \in Nat
  BY DEF IInv, TablesInv, Control, Current
<1>0. TypedOutput(Current)
  BY DEF IInv, Control, Current
<1>1. Reads(db, settled, Current) /\ TablesShape(db)
  BY <1>a DEF During, Past, Reads
<1>2. ASSUME Current.act = "vote", Current.prop \in Proposals
      PROVE  \/ db.ver[<<"proposal", Current.prop>>] < Current.id
             \/ Voter(Current) \in db.proposal[Current.prop].votes
  <2>1. <<"proposal", Current.prop>> \in Rows
    BY <1>2, RowKinds
  <2>2. /\ db.ver[<<"proposal", Current.prop>>] \in Nat
        /\ db.ver[<<"proposal", Current.prop>>] <= checkpoint + 1
    BY <1>a, <1>1, <2>1 DEF During, Past, TablesShape
  <2>3. db.ver[<<"proposal", Current.prop>>] = checkpoint + 1
          => Voter(Current) \in db.proposal[Current.prop].votes
    BY <1>a, <1>2 DEF During
  <2> QED BY <1>a, <2>2, <2>3 DEF IInv, Control
<1> QED BY <1>0, <1>1, <1>2 DEF Unvoted

\* A new output finds the tables settled or waits behind others.
LEMMA ReceiveInv ==
  ASSUME IInv, NEW i, TypedOutput(i), Receive(i)
  PROVE  IInv' /\ db' = db
<1> USE DEF IInv
<1>1. IInv' /\ db' = db
  <2> DEFINE x == [i EXCEPT !.id = Len(outputs) + 1,
                            !.time = i.time + outputs[Len(outputs)].time]
  <2>1. outputs' = Append(outputs, x) /\ x.id = Len(outputs) + 1 /\ TypedOutput(x)
    BY DEF Receive, TypedOutput
  <2>2. UNCHANGED <<db, checkpoint, batch, busy, plan, settled>>
    BY DEF Receive
  <2> HIDE DEF x
  <2>3. PICK S : outputs \in Seq(S)
    BY DEF Control
  <2>4. /\ Len(outputs) \in Nat
        /\ Len(outputs') = Len(outputs) + 1
        /\ \A k \in 1..Len(outputs) : outputs'[k] = outputs[k]
        /\ outputs'[Len(outputs) + 1] = x
        /\ outputs' \in Seq(S \cup {x})
    <3>1. outputs \in Seq(S \cup {x}) /\ x \in S \cup {x}
      BY <2>3
    <3> QED BY <2>1, <3>1
  <2>5. Control'
    <3>1. \E T : outputs' \in Seq(T)
      BY <2>4
    <3>2. \A k \in 1..Len(outputs') : outputs'[k].id = k /\ TypedOutput(outputs'[k])
      BY <2>1, <2>4 DEF Control
    <3> QED BY <2>2, <2>4, <3>1, <3>2 DEF Control
  <2>6. CASE checkpoint < Len(outputs)
    <3>1. Current' = Current
      BY <2>2, <2>4, <2>6 DEF Control, Current
    <3> QED BY <2>2, <2>4, <2>5, <2>6, <3>1 DEF Control, TablesInv, PlanInv
  <2>7. CASE ~(checkpoint < Len(outputs))
    <3>1. checkpoint = Len(outputs) /\ ~busy
      BY <2>4, <2>7 DEF Control
    <3>2. Past(db, checkpoint) /\ db = settled /\ Current'.id = checkpoint + 1
      BY <2>1, <2>2, <2>4, <3>1 DEF TablesInv, Current
    <3>3. During(db, settled, Current')
      BY <3>2, PastDuring DEF Control
    <3> QED BY <2>2, <2>4, <2>5, <3>1, <3>3 DEF Control, TablesInv, PlanInv
  <2> QED BY <2>2, <2>6, <2>7
<1> QED BY <1>1

\* The worker, which may stop at any point, keeps the invariant and changes rows
\* once.
LEMMA WorkerInv ==
  ASSUME IInv, Worker \/ Abandon \/ UNCHANGED vars
  PROVE  IInv' /\ (db' = db \/ (checkpoint < Len(outputs) /\ Once(db, db', Current)))
<1> USE DEF IInv
<1>0. Current.id = checkpoint + 1 \/ checkpoint >= Len(outputs)
  BY DEF Control, Current
<1>2. ASSUME LoadBatch PROVE IInv' /\ db' = db
  <2>1. UNCHANGED <<outputs, db, checkpoint, busy, plan, settled>> /\ Current' = Current
    BY <1>2 DEF LoadBatch, Current
  <2>2. Control'
    <3>1. Len(outputs) \in Nat
      BY DEF Control
    <3> QED BY <1>2, <2>1, <3>1, BoundsAssumption DEF LoadBatch, Control, Lesser
  <2> QED BY <2>1, <2>2 DEF TablesInv, PlanInv
<1>3. ASSUME Handle PROVE IInv' /\ db' = db
  <2>1. UNCHANGED <<outputs, db, checkpoint, batch, settled>> /\ Current' = Current
    BY <1>3 DEF Handle, Current
  <2>2. checkpoint < Len(outputs) /\ checkpoint < batch
    BY <1>3 DEF Handle, Control
  <2>3. During(db, settled, Current) /\ Current.id = checkpoint + 1
    BY <1>0, <2>2 DEF TablesInv, Control
  <2>4. Reads(db, settled, Current) /\ Unvoted(db, Current) /\ TypedOutput(Current)
    BY <2>2, HandleReads
  <2>5. SoundPlan(plan', settled, Current)
    BY <1>3, <2>4, OutputPlan DEF Handle
  <2> QED BY <2>1, <2>2, <2>5 DEF Control, TablesInv, PlanInv
<1>4. ASSUME Abandon PROVE IInv' /\ db' = db
  <2>1. UNCHANGED <<outputs, db, checkpoint, settled>> /\ Current' = Current
        /\ ~busy' /\ batch' = checkpoint
    BY <1>4 DEF Abandon, Current
  <2> QED BY <2>1 DEF Control, TablesInv, PlanInv
<1>5. ASSUME NEW k \in 1..Len(plan), busy, Commit(k)
      PROVE  IInv' /\ checkpoint < Len(outputs) /\ Once(db, db', Current)
  <2>1. UNCHANGED <<outputs, checkpoint, batch, busy, plan, settled>> /\ Current' = Current
    BY <1>5 DEF Commit, Current
  <2>2. checkpoint < Len(outputs) /\ Current.id = checkpoint + 1
    BY <1>0, <1>5 DEF Control
  <2>3. Sound(plan[k], settled, Current)
    BY <1>5 DEF PlanInv, SoundPlan
  <2>4. During(db', settled, Current) /\ Once(db, db', Current)
    <3>1. db' = Apply(db, plan[k]) /\ LockHeld(db, plan[k])
      BY <1>5 DEF Commit
    <3>2. During(db, settled, Current) /\ Current.id \in Nat \ {0}
      BY <2>2 DEF TablesInv, Control
    <3> QED BY <2>3, <3>1, <3>2, ApplySound
  <2> QED BY <2>1, <2>2, <2>4 DEF Control, TablesInv, PlanInv
<1>6. ASSUME SaveCheckpoint PROVE IInv' /\ db' = db
  <2>1. /\ UNCHANGED <<outputs, db, batch>> /\ checkpoint' = checkpoint + 1 /\ ~busy'
        /\ settled' = db
    BY <1>6 DEF SaveCheckpoint
  <2>2. checkpoint < Len(outputs) /\ Current.id = checkpoint + 1 /\ Len(outputs) \in Nat
        /\ checkpoint < batch
    BY <1>0, <1>6 DEF SaveCheckpoint, Control
  <2>3. Control'
    BY <2>1, <2>2 DEF Control
  <2>4. Past(db, checkpoint + 1)
    BY <2>2 DEF TablesInv, During
  <2>5. ASSUME checkpoint' < Len(outputs) PROVE During(db, db, Current')
    <3>1. Current'.id = (checkpoint + 1) + 1
      BY <2>1, <2>5 DEF Control, Current
    <3> QED BY <2>4, <3>1, PastDuring DEF Control
  <2> QED BY <2>1, <2>2, <2>3, <2>4, <2>5 DEF TablesInv, PlanInv
<1>7. ASSUME UNCHANGED vars PROVE IInv' /\ db' = db
  BY <1>7 DEF vars, Control, TablesInv, PlanInv, Current
<1> DEFINE Goal == IInv' /\ (db' = db \/ (checkpoint < Len(outputs) /\ Once(db, db', Current)))
<1>8. ASSUME Execute PROVE Goal
  <2>1. PICK k \in 1..Len(plan) : Commit(k) \/ Abandon
    BY <1>8 DEF Execute
  <2>2. busy
    BY <1>8 DEF Execute
  <2>3. CASE Commit(k)
    BY <1>5, <2>2, <2>3
  <2>4. CASE Abandon
    BY <1>4, <2>4
  <2> QED BY <2>1, <2>3, <2>4
<1>9. ASSUME LoadBatch \/ Handle \/ SaveCheckpoint \/ Abandon \/ UNCHANGED vars PROVE Goal
  BY <1>2, <1>3, <1>4, <1>6, <1>7, <1>9
<1> HIDE DEF Goal
<1>10. Goal
  BY <1>8, <1>9 DEF Worker
<1> QED BY <1>10 DEF Goal

\* One step keeps the invariant and changes rows once.
LEMMA StepInv ==
  ASSUME IInv, [Next]_vars
  PROVE  IInv' /\ (db' = db \/ (checkpoint < Len(outputs) /\ Once(db, db', Current)))
<1>1. ASSUME NEW i \in Inputs, Receive(i) PROVE IInv' /\ db' = db
  BY <1>1, ReceiveInv, LogAssumption
<1>2. (\E i \in Inputs : Receive(i)) \/ Worker \/ Abandon \/ UNCHANGED vars
  BY DEF Next, Worker, Fault
<1> QED BY <1>1, <1>2, WorkerInv

\* Whatever crashes, an output changes a row at most once: AppliedOnce.
THEOREM AppliedOnceTheorem == Spec => AppliedOnce
<1>1. IInv /\ [Next]_vars => IInv'
  BY StepInv
<1>2. IInv /\ [Next]_vars
        => [\A r \in Rows : RowData(db', r) # RowData(db, r)
              => /\ db.ver[r] <= checkpoint
                 /\ db'.ver[r] = checkpoint + 1 \/ InsertedByV0(r)]_db
  <2> SUFFICES ASSUME IInv, [Next]_vars, db' # db, NEW r \in Rows,
                      RowData(db', r) # RowData(db, r)
               PROVE  /\ db.ver[r] <= checkpoint
                      /\ db'.ver[r] = checkpoint + 1 \/ InsertedByV0(r)
    OBVIOUS
  <2>1. checkpoint < Len(outputs) /\ Once(db, db', Current)
    BY StepInv
  <2>2. Current.id = checkpoint + 1 /\ checkpoint \in Nat
    BY <2>1 DEF IInv, Control, Current
  <2>3. db.ver[r] \in Nat
    BY <2>1 DEF IInv, TablesInv, During, Past, TablesShape
  <2> QED BY <2>1, <2>2, <2>3 DEF Once, InsertedByV0
<1> QED BY InitInv, <1>1, <1>2, PTL DEF Spec, AppliedOnce

\* No row runs ahead of the log: a row carries at most the id of the output
\* being handled, so the next output is never taken for one already applied
\* (`if output.ID > row.Version` in the handlers).
THEOREM VersionsBoundedTheorem == Spec => []VersionsBounded
<1> DEFINE Inv == IInv /\ Past(settled, checkpoint)
<1>1. Init => Inv
  <2> SUFFICES ASSUME Init PROVE Past(settled, checkpoint)
    BY InitInv
  <2> QED BY GenesisPast DEF Init
<1>2. Inv /\ [Next]_vars => Inv'
  <2> SUFFICES ASSUME Inv, [Next]_vars PROVE Past(settled, checkpoint)'
    BY StepInv
  <2>1. CASE SaveCheckpoint
    <3>1. checkpoint < Len(outputs) /\ Current.id = checkpoint + 1
      BY <2>1 DEF SaveCheckpoint, IInv, Control, Current
    <3>2. Past(db, checkpoint + 1)
      BY <3>1 DEF IInv, TablesInv, During
    <3>3. settled' = db /\ checkpoint' = checkpoint + 1
      BY <2>1 DEF SaveCheckpoint
    <3> QED BY <3>2, <3>3
  <2>2. CASE ~SaveCheckpoint
    <3>1. UNCHANGED <<settled, checkpoint>>
      BY <2>2 DEF Next, vars, Receive, LoadBatch, Handle, Execute, Commit, Abandon, Fault
    <3> QED BY <3>1
  <2> QED BY <2>1, <2>2
<1>3. Inv => VersionsBounded
  <2> SUFFICES ASSUME Inv, NEW r \in Rows
               PROVE  db.ver[r] <= checkpoint + 1 /\ settled.ver[r] <= checkpoint
    BY DEF VersionsBounded
  <2>1. checkpoint \in Nat /\ settled.ver[r] <= checkpoint
    BY DEF Past, IInv, Control
  <2>2. CASE checkpoint < Len(outputs)
    <3>1. Current.id = checkpoint + 1
      BY <2>2 DEF IInv, Control, Current
    <3> QED BY <2>1, <2>2, <3>1 DEF IInv, TablesInv, During, Past
  <2>3. CASE checkpoint = Len(outputs)
    <3>1. db.ver[r] \in Nat /\ db.ver[r] <= checkpoint
      BY <2>3 DEF IInv, TablesInv, Past, TablesShape
    <3> QED BY <2>1, <3>1
  <2> QED BY <2>1, <2>2, <2>3 DEF IInv, Control
<1> HIDE DEF Inv
<1> QED BY <1>1, <1>2, <1>3, PTL DEF Spec
=============================================================================
