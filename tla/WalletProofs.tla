---------------------------- MODULE WalletProofs ----------------------------
(***************************************************************************)
(* For any group, any deposits and any limits: nodes that pick outputs for *)
(* a transfer pick the same ones (NodesAgree), provided that no transfer   *)
(* is of nothing.                                                          *)
(*                                                                         *)
(* The argument.  A node gives the outputs of an asset away in their       *)
(* order, a block of neighbours at a time, to transfers in their order     *)
(* (SpentInv): a list that was cut at its limit, a round that gave up an   *)
(* asset and transfers created meanwhile leave no older transfer of the    *)
(* asset behind (ListsInv).  Where a block ends depends on its amounts     *)
(* alone (Exact): the first outputs that cover the transfer, or the first  *)
(* SpendLimit, which are then merged.  So when one node gives a block away *)
(* and another has given its first output away, both did so to the same    *)
(* transfer and the blocks end at the same output, though they may know    *)
(* different numbers of outputs (Agree).                                   *)
(***************************************************************************)
EXTENDS WalletSafety, SetLemmas, TLAPS

\* No transfer is of nothing.  One of nothing takes the next output of its
\* asset, and no output where the node knows of none: this is where nodes
\* that know different numbers of outputs do differ (assigner.go:108).
PaysSomething ==
  \A k \in DOMAIN Deposits : \A r \in DOMAIN Deposits[k].pays :
    Deposits[k].pays[r].amount > 0

Traces == [output : Nat \ {0}, nr : Nat \ {0}, merges : SUBSET Nat]
Payment(b) == [b EXCEPT !.merges = {}]

\* Transfers are created, and given outputs, in this order.
Before(b, c) == b.output < c.output \/ (b.output = c.output /\ b.nr < c.nr)

(***************************************************************************)
(* The parts of the invariant are about the chain ch and the tables of one *)
(* node: sp is its column spent_by, h the payee's checkpoint, T its        *)
(* transfers.                                                              *)
(***************************************************************************)
Pays == [asset : Assets, amount : Nat \ {0}]
ChainInv(ch) ==
  /\ ch \in Seq(Range(ch))
  /\ \A k \in DOMAIN ch : ch[k].pays \in Seq(Pays)

Asked(ch, b) == ch[b.output].pays[b.nr]
Request(ch, h, b) ==
  b \in Traces /\ b.output \in 1..h /\ b.nr \in DOMAIN ch[b.output].pays

Block(sp, b) == {k \in DOMAIN sp : sp[k] = b}
Beginning(P, B) == P \subseteq B /\ \A i \in P, j \in B : j < i => j \in P
Enough(ch, ids, amount) == SumFunction([k \in ids |-> ch[k].amount]) >= amount

\* Where the block B of outputs that trace b took ends.
Exact(ch, b, B) ==
  LET amount == Asked(ch, b).amount
  IN  /\ B # {}
      /\ IF b.merges = {}
         THEN /\ Cardinality(B) <= SpendLimit /\ Enough(ch, B, amount)
              /\ \A P \in SUBSET B :
                   Beginning(P, B) /\ P # B => ~Enough(ch, P, amount)
         ELSE /\ B = b.merges /\ Cardinality(B) = SpendLimit
              /\ \A P \in SUBSET B : Beginning(P, B) => ~Enough(ch, P, amount)

SpentInv(ch, h, sp) ==
  /\ sp \in Seq(Traces \cup {NoTrace}) /\ Len(sp) <= Len(ch)
  /\ h \in 0..Len(sp)
  /\ \A k \in DOMAIN sp : sp[k] # NoTrace =>
       /\ Request(ch, h, sp[k]) /\ ch[k].asset = Asked(ch, sp[k]).asset
       /\ Exact(ch, sp[k], Block(sp, sp[k]))
       \* outputs go in their order
       /\ \A j \in 1..k : ch[j].asset = ch[k].asset => sp[j] # NoTrace
       \* and in blocks of neighbours
       /\ \A j \in 1..k : sp[j] = sp[k] =>
            \A l \in j..k : ch[l].asset = ch[k].asset => sp[l] = sp[k]
       \* to transfers in their order
       /\ \A b \in Traces :
            /\ Request(ch, h, b) /\ b.merges = {} /\ Before(b, sp[k])
            /\ Asked(ch, b).asset = ch[k].asset
            => \E j \in 1..k : sp[j] = b
       \* whose merges come first
       /\ sp[k].merges # {} =>
            \A j \in DOMAIN sp : sp[j] = Payment(sp[k]) => k < j

IsTransfer(t) ==
  t \in [trace : {t.trace}, version : {0}, asset : {t.asset}, amount : {t.amount},
         assigned : BOOLEAN, handled : BOOLEAN, passed : BOOLEAN]

TransfersInv(ch, h, sp, T) ==
  /\ T \in Seq(Range(T))
  /\ \A i \in DOMAIN T :
       /\ IsTransfer(T[i]) /\ Request(ch, h, T[i].trace)
       /\ T[i].asset = Asked(ch, T[i].trace).asset
       /\ T[i].assigned \in BOOLEAN /\ T[i].handled \in BOOLEAN
       /\ T[i].handled => T[i].assigned
       /\ IF T[i].trace.merges # {} THEN T[i].assigned
          ELSE /\ T[i].amount = Asked(ch, T[i].trace).amount
               /\ T[i].assigned <=> Block(sp, T[i].trace) # {}
  /\ \A i, j \in DOMAIN T :
       T[i].trace.merges = {} /\ T[j].trace.merges = {} /\ i < j
         => Before(T[i].trace, T[j].trace)
  /\ \A b \in Traces : Request(ch, h, b) /\ b.merges = {}
       => \E i \in DOMAIN T : T[i].trace = b

\* The lists of the assigner and of the cashier.
ListsInv(T, td, ab, bl, stage) ==
  /\ \A i \in td : i \in DOMAIN T /\ ~T[i].assigned
  /\ \A i \in td : \A j \in DOMAIN T :
       j < i /\ ~T[j].assigned => j \in td \/ T[j].asset \in ab
  /\ \A i \in bl : i \in DOMAIN T /\ T[i].assigned
  /\ stage # "spend" => bl # {}

\* Two nodes gave an output to the same transfer, and the same outputs to a
\* transfer.
Agree(s, u) ==
  /\ \A k \in DOMAIN s \cap DOMAIN u :
       s[k] # NoTrace /\ u[k] # NoTrace => s[k] = u[k]
  /\ \A b \in Traces : Block(s, b) # {} /\ Block(u, b) # {} => Block(s, b) = Block(u, b)

NodeInv(n) ==
  /\ view[n] \in Seq(Range(view[n])) /\ Len(view[n]) = Len(spentBy[n])
  /\ SpentInv(chain, handledTo[n], spentBy[n])
  /\ TransfersInv(chain, handledTo[n], spentBy[n], transfers[n])
  /\ ListsInv(transfers[n], todo[n], aborted[n], bill[n], spending[n].stage)

IsTable(f) == f \in [Nodes -> Range(f)]

WalletInv ==
  /\ ChainInv(chain) /\ deposited \in 0..Len(Deposits)
  /\ IsTable(view) /\ IsTable(spentBy) /\ IsTable(handledTo) /\ IsTable(transfers)
  /\ IsTable(todo) /\ IsTable(aborted) /\ IsTable(bill) /\ IsTable(spending)
  /\ \A n \in Nodes : NodeInv(n)
  /\ \A m, n \in Nodes : Agree(spentBy[m], spentBy[n])

-----------------------------------------------------------------------------
(***************************************************************************)
(* The choice of outputs.                                                  *)
(***************************************************************************)

\* A list that is cut at its limit holds the lowest ids.
LEMMA CutList ==
  ASSUME NEW n \in Nat, NEW V \in SUBSET (1..n), NEW limit \in Nat \ {0}
  PROVE  /\ Beginning(Lowest(V, limit), V)
         /\ IsFiniteSet(Lowest(V, limit))
         /\ Cardinality(Lowest(V, limit)) <= limit
<1> DEFINE L == Lowest(V, limit)
           Under(i) == {j \in V : j < i}
<1>1. \A i \in V : IsFiniteSet(Under(i)) /\ Cardinality(Under(i)) \in Nat
  BY FinitePositions
<1>2. L \subseteq V /\ \A i \in V : i \in L <=> Cardinality(Under(i)) < limit
  BY DEF Lowest
<1>a. ASSUME NEW i \in V, NEW j \in V, j < i
      PROVE  Under(j) \subseteq Under(i)
  <2>1. i \in Nat /\ j \in Nat /\ \A x \in V : x \in Nat
    OBVIOUS
  <2>2. \A x \in V : x < j => x < i
    BY <1>a, <2>1
  <2> QED
    BY <2>2
<1>b. \A i \in V : i \notin Under(i) /\ \A j \in V : j <= i => j \in Under(i) \cup {i}
  OBVIOUS
<1> HIDE DEF L, Under
<1>3. ASSUME NEW i \in L, NEW j \in V, j < i PROVE j \in L
  <2>1. Under(j) \subseteq Under(i)
    BY <1>2, <1>3, <1>a
  <2>2. Cardinality(Under(j)) <= Cardinality(Under(i))
    BY <1>1, <1>2, <2>1, FS_Subset
  <2>3. Cardinality(Under(j)) < limit
    BY <1>1, <1>2, <2>2
  <2> QED
    BY <1>2, <2>3
<1>4. IsFiniteSet(L) /\ Cardinality(L) \in Nat
  BY <1>2, FinitePositions
<1>5. Cardinality(L) <= limit
  <2>1. CASE L = {}
    BY <2>1, FS_EmptySet
  <2>2. CASE L # {}
    <3> DEFINE g == Max(L)
    <3>1. g \in L /\ \A i \in L : i <= g
      <4>1. L \in SUBSET Nat /\ \A i \in L : i <= n
        BY <1>2
      <4> QED
        BY <2>2, <4>1, Greatest
    <3> HIDE DEF g
    <3>2. L \subseteq Under(g) \cup {g}
      <4> SUFFICES ASSUME NEW i \in L PROVE i \in Under(g) \cup {g}
        OBVIOUS
      <4> QED
        BY <1>2, <1>b, <3>1
    <3>3. IsFiniteSet(Under(g)) /\ Cardinality(Under(g)) < limit /\ Cardinality(Under(g)) \in Nat
      BY <1>1, <1>2, <3>1
    <3>4. g \notin Under(g)
      BY <1>2, <1>b, <3>1
    <3>5. /\ IsFiniteSet(Under(g) \cup {g})
          /\ Cardinality(Under(g) \cup {g}) = Cardinality(Under(g)) + 1
      BY <3>3, <3>4, FS_AddElement
    <3>6. Cardinality(L) <= Cardinality(Under(g) \cup {g})
      BY <3>2, <3>5, FS_Subset
    <3> QED
      BY <1>4, <3>3, <3>5, <3>6
  <2> QED
    BY <2>1, <2>2
<1> QED
  BY <1>2, <1>3, <1>4, <1>5 DEF Beginning, L

\* What the assigner picks from the unspent outputs V of an asset: their
\* beginning, which no shorter one could replace.
LEMMA Choice ==
  ASSUME NEW V \in SUBSET (1..Len(chain)), Len(chain) \in Nat,
         NEW t, t.version = 0, t.amount \in Nat \ {0}
  PROVE  LET ids == Chosen(t, Lowest(V, SpendLimit))
         IN  /\ Beginning(ids, V) /\ IsFiniteSet(ids)
             /\ Cardinality(ids) \in Nat /\ Cardinality(ids) <= SpendLimit
             /\ Enough(chain, ids, t.amount) => ids # {}
             /\ \A P \in SUBSET ids :
                  Beginning(P, ids) /\ P # ids => ~Enough(chain, P, t.amount)
<1> DEFINE U == Lowest(V, SpendLimit)
           first(k) == {j \in U : j <= k}
           enough == {k \in U : Covers(first(k), t.amount)}
           ids == Chosen(t, U)
<1>0. SpendLimit \in Nat \ {0, 1}
  BY WalletAssumption
<1>1. Beginning(U, V) /\ IsFiniteSet(U) /\ Cardinality(U) <= SpendLimit
  BY <1>0, CutList
<1> HIDE DEF U
<1>2. U \subseteq V /\ U \in SUBSET Nat /\ \A k \in U : k <= Len(chain)
  BY <1>1 DEF Beginning
<1>3. ~Wipe(t, U)
  <2> SUFFICES ASSUME Cardinality(U) = SpendLimit PROVE ~(Max(U) <= 0)
    BY DEF Wipe
  <2>1. U # {}
    BY <1>0, FS_EmptySet
  <2>2. Max(U) \in U
    BY <1>2, <2>1, Greatest
  <2>3. \A k \in U : k \in Nat /\ k > 0
    BY <1>2
  <2> QED
    BY <2>2, <2>3
<1>4. ids = IF enough = {} THEN U ELSE first(Min(enough))
  BY <1>3 DEF Chosen
<1>5. \A P : Covers(P, t.amount) <=> Enough(chain, P, t.amount)
  BY DEF Covers, Sum, Enough
<1>a. \A k \in U : k \in Nat /\ \A j : j \in first(k) <=> j \in U /\ j <= k
  BY <1>2
<1>b. enough \subseteq U /\ \A k \in U : k \in enough <=> Covers(first(k), t.amount)
  OBVIOUS
<1> HIDE DEF first, enough, ids
<1>c. enough # {} => Min(enough) \in enough /\ \A k \in enough : Min(enough) <= k
  BY <1>2, <1>b, LeastIsMin
<1>6. Beginning(ids, U)
  <2>1. CASE enough = {}
    BY <1>4, <2>1 DEF Beginning
  <2>2. CASE enough # {}
    BY <1>4, <1>a, <1>b, <1>c, <2>2 DEF Beginning
  <2> QED
    BY <2>1, <2>2
<1>7. Beginning(ids, V)
  BY <1>1, <1>6 DEF Beginning
<1>8. IsFiniteSet(ids) /\ Cardinality(ids) \in Nat /\ Cardinality(ids) <= SpendLimit
  <2>1. ids \subseteq U
    BY <1>6 DEF Beginning
  <2>2. IsFiniteSet(ids) /\ Cardinality(ids) <= Cardinality(U)
    BY <1>1, <2>1, FS_Subset
  <2>3. Cardinality(ids) \in Nat /\ Cardinality(U) \in Nat
    BY <1>1, <2>2, FS_CardinalityType
  <2> QED
    BY <1>0, <1>1, <2>2, <2>3
<1>9. ~Enough(chain, {}, t.amount)
  <2>1. SumFunction([k \in {} |-> chain[k].amount]) = 0
    BY EmptySum
  <2> QED
    BY <2>1 DEF Enough
<1>10. ASSUME NEW P \in SUBSET ids, Beginning(P, ids), P # ids
       PROVE  ~Enough(chain, P, t.amount)
  <2>1. CASE P = {}
    BY <1>9, <2>1
  <2>2. CASE P # {}
    <3> DEFINE g == Max(P)
    <3>1. P \subseteq U
      BY <1>6 DEF Beginning
    <3>2. g \in P /\ \A i \in P : i <= g
      <4>1. P \in SUBSET Nat /\ \A i \in P : i <= Len(chain)
        BY <1>2, <3>1
      <4> QED
        BY <2>2, <4>1, Greatest
    <3> HIDE DEF g
    <3>3. P = first(g)
      <4> SUFFICES ASSUME NEW j \in U PROVE j \in P <=> j <= g
        BY <1>a, <3>1, <3>2
      <4>1. j \in Nat /\ g \in U /\ g \in ids /\ g \in Nat
        BY <1>a, <3>1, <3>2
      <4>2. j < g => j \in P
        BY <1>6, <1>10, <3>2, <4>1 DEF Beginning
      <4> QED
        BY <3>2, <4>1, <4>2
    <3>4. g \notin enough
      <4> SUFFICES ASSUME g \in enough PROVE FALSE
        OBVIOUS
      <4>1. enough # {} /\ ids = first(Min(enough))
        BY <1>4
      <4>2. Min(enough) \in enough /\ Min(enough) <= g
        BY <1>c
      <4>3. ids \subseteq first(g)
        <5> SUFFICES ASSUME NEW j \in ids PROVE j \in first(g)
          OBVIOUS
        <5>1. Min(enough) \in U /\ g \in U
          BY <1>b, <3>1, <3>2, <4>2
        <5>2. j \in U /\ j <= Min(enough)
          BY <1>a, <4>1, <5>1
        <5>3. j \in Nat /\ Min(enough) \in Nat /\ g \in Nat
          BY <1>a, <5>1, <5>2
        <5>4. j <= g
          BY <4>2, <5>2, <5>3
        <5> QED
          BY <1>a, <5>1, <5>2, <5>4
      <4> QED
        BY <1>10, <3>3, <4>3
    <3>5. ~Covers(P, t.amount)
      BY <1>b, <3>1, <3>2, <3>3, <3>4
    <3> QED
      BY <1>5, <3>5
  <2> QED
    BY <2>1, <2>2
<1>11. Enough(chain, ids, t.amount) => ids # {}
  BY <1>9
<1> QED
  BY <1>7, <1>8, <1>10, <1>11 DEF U, ids

-----------------------------------------------------------------------------
(***************************************************************************)
(* A node gives a block of outputs away.                                   *)
(***************************************************************************)

\* The block ids that a node with the column sp is about to give to b.
NextBlock(ch, h, sp, b, ids) ==
  /\ Request(ch, h, b) /\ Exact(ch, b, ids)
  /\ ids \in SUBSET DOMAIN sp
  /\ \A k \in ids :
       /\ sp[k] = NoTrace /\ ch[k].asset = Asked(ch, b).asset
       /\ \A j \in 1..k : ch[j].asset = ch[k].asset => j \in ids \/ sp[j] # NoTrace
  /\ Block(sp, Payment(b)) = {}
  /\ \A c \in Traces :
       /\ Request(ch, h, c) /\ c.merges = {} /\ Before(c, b)
       /\ Asked(ch, c).asset = Asked(ch, b).asset
       => Block(sp, c) # {}

Given(sp, ids, b) == [k \in DOMAIN sp |-> IF k \in ids THEN b ELSE sp[k]]

\* The trace of a transfer itself, of which a merge has the output and number.
LEMMA PaymentTrace ==
  ASSUME NEW b \in Traces
  PROVE  /\ b # NoTrace /\ Payment(b) \in Traces /\ Payment(b).merges = {}
         /\ Payment(b).output = b.output /\ Payment(b).nr = b.nr
         /\ b.merges = {} => Payment(b) = b
  BY DEF Traces, Payment, NoTrace

\* The new block is new, comes after what the asset has spent, and changes no
\* other block.
LEMMA NewBlock ==
  ASSUME NEW ch, NEW h, NEW sp, NEW b, NEW ids,
         SpentInv(ch, h, sp), NextBlock(ch, h, sp, b, ids)
  PROVE  /\ Block(sp, b) = {}
         /\ \A k \in ids : \A j \in DOMAIN sp :
              sp[j] # NoTrace /\ ch[j].asset = Asked(ch, b).asset => j < k
         /\ Block(Given(sp, ids, b), b) = ids
         /\ \A c \in Traces : c # b => Block(Given(sp, ids, b), c) = Block(sp, c)
<1>1. b \in Traces /\ ids \in SUBSET DOMAIN sp
  BY DEF NextBlock, Request
<1>2. DOMAIN sp = 1..Len(sp) /\ Len(sp) \in Nat
  BY DEF SpentInv
<1>3. Block(sp, b) = {}
  <2>1. CASE b.merges = {}
    BY <1>1, <2>1, PaymentTrace DEF NextBlock
  <2>2. CASE b.merges # {}
    <3> SUFFICES ASSUME NEW k \in DOMAIN sp, sp[k] = b PROVE FALSE
      BY DEF Block
    <3>1. sp[k] # NoTrace
      BY <1>1, PaymentTrace
    <3>2. Exact(ch, b, Block(sp, b))
      BY <3>1 DEF SpentInv
    <3>3. Block(sp, b) = ids
      BY <2>2, <3>2 DEF Exact, NextBlock
    <3>4. k \in ids
      BY <3>3 DEF Block
    <3> QED
      BY <3>1, <3>4 DEF NextBlock
  <2> QED
    BY <2>1, <2>2
<1>4. ASSUME NEW k \in ids, NEW j \in DOMAIN sp,
             sp[j] # NoTrace, ch[j].asset = Asked(ch, b).asset
      PROVE  j < k
  <2>1. sp[k] = NoTrace /\ ch[k].asset = ch[j].asset
    BY <1>4 DEF NextBlock
  <2>2. \A i \in 1..j : ch[i].asset = ch[j].asset => sp[i] # NoTrace
    BY <1>4 DEF SpentInv
  <2>3. k \notin 1..j
    BY <2>1, <2>2
  <2> QED
    BY <1>1, <1>2, <2>3
<1>5. Block(Given(sp, ids, b), b) = ids
  BY <1>1, <1>3 DEF Block, Given
<1>6. ASSUME NEW c \in Traces, c # b
      PROVE  Block(Given(sp, ids, b), c) = Block(sp, c)
  <2>1. c # NoTrace
    BY PaymentTrace
  <2>2. \A k \in ids : sp[k] = NoTrace
    BY DEF NextBlock
  <2> QED
    BY <1>1, <1>6, <2>1, <2>2 DEF Block, Given
<1> QED
  BY <1>3, <1>4, <1>5, <1>6

\* What is said of the blocks of a node stays true.
LEMMA SpentStep ==
  ASSUME NEW ch, NEW h, NEW sp, NEW b, NEW ids,
         SpentInv(ch, h, sp), NextBlock(ch, h, sp, b, ids)
  PROVE  SpentInv(ch, h, Given(sp, ids, b))
<1> DEFINE new == Given(sp, ids, b)
<1>1. b \in Traces /\ b # NoTrace /\ ids \in SUBSET DOMAIN sp
  BY PaymentTrace DEF NextBlock, Request
<1>2. /\ sp \in Seq(Traces \cup {NoTrace}) /\ DOMAIN sp = 1..Len(sp) /\ Len(sp) \in Nat
      /\ Len(sp) <= Len(ch) /\ h \in 0..Len(sp)
  BY DEF SpentInv
<1>3. /\ DOMAIN new = DOMAIN sp
      /\ \A k \in DOMAIN sp : new[k] = IF k \in ids THEN b ELSE sp[k]
  BY DEF Given
<1>4. new \in Seq(Traces \cup {NoTrace}) /\ Len(new) = Len(sp)
  BY <1>1, <1>2 DEF Given
<1>5. /\ Block(sp, b) = {}
      /\ \A k \in ids : \A j \in DOMAIN sp :
           sp[j] # NoTrace /\ ch[j].asset = Asked(ch, b).asset => j < k
      /\ Block(new, b) = ids
      /\ \A c \in Traces : c # b => Block(new, c) = Block(sp, c)
  BY NewBlock
<1> HIDE DEF new
<1>6. \A k \in ids : sp[k] = NoTrace /\ ch[k].asset = Asked(ch, b).asset
  BY DEF NextBlock
<1>7. ASSUME NEW k \in DOMAIN sp, k \notin ids, sp[k] # NoTrace
      PROVE  /\ Request(ch, h, new[k]) /\ ch[k].asset = Asked(ch, new[k]).asset
             /\ Exact(ch, new[k], Block(new, new[k]))
             /\ \A j \in 1..k : ch[j].asset = ch[k].asset => new[j] # NoTrace
             /\ \A j \in 1..k : new[j] = new[k] =>
                  \A l \in j..k : ch[l].asset = ch[k].asset => new[l] = new[k]
             /\ \A c \in Traces :
                  /\ Request(ch, h, c) /\ c.merges = {} /\ Before(c, new[k])
                  /\ Asked(ch, c).asset = ch[k].asset
                  => \E j \in 1..k : new[j] = c
             /\ new[k].merges # {} =>
                  \A j \in DOMAIN new : new[j] = Payment(new[k]) => k < j
  <2>1. new[k] = sp[k] /\ sp[k] # b
    BY <1>3, <1>5, <1>7 DEF Block
  <2>2. Request(ch, h, sp[k]) /\ ch[k].asset = Asked(ch, sp[k]).asset
    BY <1>7 DEF SpentInv
  <2>3. sp[k] \in Traces
    BY <2>2 DEF Request
  <2>4. Exact(ch, sp[k], Block(new, sp[k]))
    <3>1. Exact(ch, sp[k], Block(sp, sp[k]))
      BY <1>7 DEF SpentInv
    <3> QED
      BY <1>5, <2>1, <2>3, <3>1
  <2>5. \A j \in 1..k : j \in DOMAIN sp
    BY <1>2
  <2>6. \A j \in 1..k : ch[j].asset = ch[k].asset => new[j] # NoTrace
    <3>1. \A j \in 1..k : ch[j].asset = ch[k].asset => sp[j] # NoTrace
      BY <1>7 DEF SpentInv
    <3> QED
      BY <1>1, <1>3, <2>5, <3>1
  <2>7. ASSUME NEW j \in 1..k, new[j] = sp[k],
               NEW l \in j..k, ch[l].asset = ch[k].asset
        PROVE  new[l] = sp[k]
    <3>1. sp[j] = sp[k]
      BY <1>3, <2>1, <2>5, <2>7
    <3>2. sp[l] = sp[k]
      BY <1>7, <2>7, <3>1 DEF SpentInv
    <3>3. l \in DOMAIN sp /\ l \notin ids
      BY <1>2, <1>6, <1>7, <3>2
    <3> QED
      BY <1>3, <3>2, <3>3
  <2>8. ASSUME NEW c \in Traces, Request(ch, h, c), c.merges = {}, Before(c, sp[k]),
               Asked(ch, c).asset = ch[k].asset
        PROVE  \E j \in 1..k : new[j] = c
    <3>1. PICK j \in 1..k : sp[j] = c
      BY <1>7, <2>8 DEF SpentInv
    <3>2. j \notin ids
      BY <1>6, <3>1, PaymentTrace
    <3> QED
      BY <1>3, <2>5, <3>1, <3>2
  <2>9. ASSUME sp[k].merges # {}, NEW j \in DOMAIN sp, new[j] = Payment(sp[k])
        PROVE  k < j
    <3>1. CASE j \in ids
      <4>1. b = Payment(sp[k])
        BY <1>3, <2>9, <3>1
      <4>2. Asked(ch, b) = Asked(ch, sp[k])
        BY <2>3, <4>1, PaymentTrace DEF Asked
      <4> QED
        BY <1>5, <1>7, <2>2, <3>1, <4>2
    <3>2. CASE j \notin ids
      BY <1>3, <1>7, <2>9, <3>2 DEF SpentInv
    <3> QED
      BY <3>1, <3>2
  <2> QED
    BY <1>3, <2>1, <2>2, <2>4, <2>6, <2>7, <2>8, <2>9
<1>8. ASSUME NEW k \in ids
      PROVE  /\ Request(ch, h, new[k]) /\ ch[k].asset = Asked(ch, new[k]).asset
             /\ Exact(ch, new[k], Block(new, new[k]))
             /\ \A j \in 1..k : ch[j].asset = ch[k].asset => new[j] # NoTrace
             /\ \A j \in 1..k : new[j] = new[k] =>
                  \A l \in j..k : ch[l].asset = ch[k].asset => new[l] = new[k]
             /\ \A c \in Traces :
                  /\ Request(ch, h, c) /\ c.merges = {} /\ Before(c, new[k])
                  /\ Asked(ch, c).asset = ch[k].asset
                  => \E j \in 1..k : new[j] = c
             /\ new[k].merges # {} =>
                  \A j \in DOMAIN new : new[j] = Payment(new[k]) => k < j
  <2>1. new[k] = b /\ k \in DOMAIN sp /\ k \in Nat
    BY <1>1, <1>2, <1>3
  <2>2. Request(ch, h, b) /\ ch[k].asset = Asked(ch, b).asset
    BY <1>6 DEF NextBlock
  <2>3. Exact(ch, b, Block(new, b))
    BY <1>5 DEF NextBlock
  <2>4. \A j \in 1..k : j \in DOMAIN sp
    BY <1>2, <2>1
  <2>5. \A j \in 1..k : ch[j].asset = ch[k].asset => j \in ids \/ sp[j] # NoTrace
    BY DEF NextBlock
  <2>6. \A j \in 1..k : ch[j].asset = ch[k].asset => new[j] # NoTrace
    BY <1>1, <1>3, <2>4, <2>5
  <2>7. ASSUME NEW j \in 1..k, new[j] = b,
               NEW l \in j..k, ch[l].asset = ch[k].asset
        PROVE  new[l] = b
    <3>1. j \in ids
      BY <1>3, <1>5, <2>4, <2>7 DEF Block
    <3>2. l \in 1..k /\ ~(l < j)
      BY <2>1
    <3>3. sp[l] = NoTrace
      BY <1>5, <2>2, <2>4, <2>7, <3>1, <3>2
    <3>4. l \in ids
      BY <2>5, <2>7, <3>2, <3>3
    <3> QED
      BY <1>1, <1>3, <3>4
  <2>8. ASSUME NEW c \in Traces, Request(ch, h, c), c.merges = {}, Before(c, b),
               Asked(ch, c).asset = ch[k].asset
        PROVE  \E j \in 1..k : new[j] = c
    <3>1. Block(sp, c) # {}
      BY <2>2, <2>8 DEF NextBlock
    <3>2. PICK j \in DOMAIN sp : sp[j] = c
      BY <3>1 DEF Block
    <3>3. sp[j] # NoTrace /\ ch[j].asset = Asked(ch, b).asset
      BY <2>2, <2>8, <3>2, PaymentTrace DEF SpentInv
    <3>4. j < k
      BY <1>5, <3>3
    <3>5. j \notin ids /\ j \in 1..k
      BY <1>2, <1>6, <2>1, <3>3, <3>4
    <3> QED
      BY <1>3, <3>2, <3>5
  <2>9. ASSUME b.merges # {}, NEW j \in DOMAIN sp, new[j] = Payment(b)
        PROVE  k < j
    <3>1. Payment(b) # b
      BY <1>1, <2>9, PaymentTrace
    <3>2. sp[j] = Payment(b)
      BY <1>3, <2>9, <3>1
    <3> QED
      BY <3>2 DEF Block, NextBlock
  <2> QED
    BY <1>3, <2>1, <2>2, <2>3, <2>6, <2>7, <2>8, <2>9
<1>9. \A k \in DOMAIN new : new[k] # NoTrace => k \in ids \/ sp[k] # NoTrace
  BY <1>3
<1>10. SpentInv(ch, h, new)
  BY <1>1, <1>2, <1>3, <1>4, <1>7, <1>8, <1>9 DEF SpentInv
<1> QED
  BY <1>10 DEF new

\* Blocks of one transfer that begin alike end alike, and then have one trace.
LEMMA SameEnd ==
  ASSUME NEW ch, NEW b \in Traces, NEW c \in Traces, Asked(ch, b) = Asked(ch, c),
         NEW B, NEW C, IsFiniteSet(C),
         Exact(ch, b, B), Exact(ch, c, C), Beginning(B, C)
  PROVE  B = C
<1> SUFFICES ASSUME B # C PROVE FALSE
  OBVIOUS
<1> DEFINE amount == Asked(ch, b).amount
<1>1. B \subseteq C /\ B \in SUBSET C
  BY DEF Beginning
<1>2. /\ IsFiniteSet(B) /\ Cardinality(B) \in Nat /\ Cardinality(C) \in Nat
      /\ Cardinality(B) < Cardinality(C)
  <2>1. IsFiniteSet(B) /\ Cardinality(B) <= Cardinality(C)
    BY <1>1, FS_Subset
  <2>2. Cardinality(B) # Cardinality(C)
    BY <1>1, FS_Subset
  <2>3. Cardinality(B) \in Nat /\ Cardinality(C) \in Nat
    BY <2>1, FS_CardinalityType
  <2> QED
    BY <2>1, <2>2, <2>3
<1>3. ~Enough(ch, B, amount)
  <2>1. CASE c.merges = {}
    BY <1>1, <2>1 DEF Exact
  <2>2. CASE c.merges # {}
    BY <1>1, <2>2 DEF Exact
  <2> QED
    BY <2>1, <2>2
<1>4. Cardinality(B) = SpendLimit
  BY <1>3 DEF Exact
<1>5. Cardinality(C) <= SpendLimit
  <2>1. SpendLimit \in Nat
    BY WalletAssumption
  <2> QED
    BY <2>1 DEF Exact
<1> QED
  BY <1>2, <1>4, <1>5

LEMMA SameTrace ==
  ASSUME NEW ch, NEW b \in Traces, NEW c \in Traces,
         b.output = c.output, b.nr = c.nr, NEW B,
         Exact(ch, b, B), Exact(ch, c, B)
  PROVE  b = c
<1>1. Asked(ch, b) = Asked(ch, c)
  BY DEF Asked
<1>2. B \in SUBSET B /\ Beginning(B, B)
  BY DEF Beginning
<1>3. b.merges = {} <=> c.merges = {}
  BY <1>1, <1>2 DEF Exact
<1>4. b.merges = c.merges
  BY <1>3 DEF Exact
<1> QED
  BY <1>4 DEF Traces

\* Another node that has given one of the outputs away gave all of them to b.
LEMMA SameBlock ==
  ASSUME NEW ch, NEW h, NEW s, NEW b, NEW ids, NEW g, NEW u,
         SpentInv(ch, h, s), SpentInv(ch, g, u), Agree(s, u),
         NextBlock(ch, h, s, b, ids),
         NEW k \in ids, k \in DOMAIN u, u[k] # NoTrace
  PROVE  Block(u, b) = ids
<1> DEFINE a == Asked(ch, b).asset
           z == Min(ids)
           c == u[z]
           B == Block(u, c)
<1>1. b \in Traces /\ ids \in SUBSET DOMAIN s /\ Request(ch, h, b)
  BY DEF NextBlock, Request
<1>2. /\ DOMAIN s = 1..Len(s) /\ Len(s) \in Nat /\ DOMAIN u = 1..Len(u) /\ Len(u) \in Nat
      /\ h \in Nat /\ g \in Nat
  BY DEF SpentInv
<1>3. z \in ids /\ (\A i \in ids : z <= i) /\ z \in DOMAIN s /\ z \in Nat
  <2>1. ids \in SUBSET Nat /\ ids # {}
    BY <1>1, <1>2
  <2>2. z \in ids /\ \A i \in ids : z <= i
    BY <2>1, LeastIsMin
  <2> QED
    BY <1>1, <1>2, <2>2
<1>4. /\ \A i \in ids : s[i] = NoTrace /\ ch[i].asset = a
      /\ \A i \in ids : \A j \in 1..i : ch[j].asset = a => j \in ids \/ s[j] # NoTrace
  BY DEF NextBlock
<1>5. \A i \in ids : \A j \in DOMAIN s : s[j] # NoTrace /\ ch[j].asset = a => j < i
  BY NewBlock
<1> HIDE DEF z, a
<1>6. /\ \A i \in DOMAIN u : u[i] # NoTrace =>
           Request(ch, g, u[i]) /\ u[i] \in Traces /\ ch[i].asset = Asked(ch, u[i]).asset
      /\ \A i \in DOMAIN s : s[i] # NoTrace =>
           s[i] \in Traces /\ ch[i].asset = Asked(ch, s[i]).asset
  BY DEF SpentInv, Request
<1>7. z \in DOMAIN u /\ c # NoTrace /\ Request(ch, g, c) /\ c \in Traces /\ Asked(ch, c).asset = a
  <2>1. z \in 1..k /\ ch[z].asset = ch[k].asset /\ ch[z].asset = a
    BY <1>1, <1>2, <1>3, <1>4
  <2>2. c # NoTrace
    BY <2>1 DEF SpentInv
  <2>3. z \in DOMAIN u
    BY <1>2, <2>1
  <2> QED
    BY <1>6, <2>1, <2>2, <2>3
\* Below z, the two nodes gave the outputs of the asset to the same transfers.
<1>8. ASSUME NEW j \in 1..z, j # z, ch[j].asset = a
      PROVE  j \in DOMAIN s /\ j \in DOMAIN u /\ s[j] # NoTrace /\ s[j] = u[j]
  <2>1. j \in DOMAIN s /\ j \in DOMAIN u /\ j \in Nat /\ j < z
    BY <1>2, <1>3, <1>7, <1>8
  <2>2. s[j] # NoTrace
    BY <1>3, <1>4, <1>8, <2>1
  <2>3. u[j] # NoTrace
    BY <1>3, <1>4, <1>7, <1>8 DEF SpentInv
  <2> QED
    BY <2>1, <2>2, <2>3 DEF Agree
<1>9. z \in B /\ \A j \in B : j \in DOMAIN u /\ u[j] = c /\ ch[j].asset = a
  BY <1>6, <1>7 DEF Block
<1>10. ASSUME NEW j \in B PROVE z <= j
  <2> SUFFICES ASSUME j < z PROVE FALSE
    BY <1>2, <1>3, <1>9
  <2>1. j \in 1..z /\ j # z
    BY <1>2, <1>3, <1>9
  <2>2. j \in DOMAIN s /\ s[j] = c
    BY <1>8, <1>9, <2>1
  <2>3. Block(s, c) # {} /\ Block(u, c) # {}
    BY <1>9, <2>2 DEF Block
  <2>4. z \in Block(s, c)
    BY <1>7, <1>9, <2>3 DEF Agree
  <2> QED
    BY <1>3, <1>4, <1>7, <2>4 DEF Block
<1>11. ~Before(c, b)
  <2> SUFFICES ASSUME Before(c, b) PROVE FALSE
    OBVIOUS
  <2> DEFINE p == Payment(c)
  <2>1. /\ p \in Traces /\ p # NoTrace /\ p.merges = {} /\ p.output = c.output /\ p.nr = c.nr
        /\ c.merges = {} => p = c
    BY <1>7, PaymentTrace
  <2> HIDE DEF p
  <2>2. Asked(ch, p) = Asked(ch, c) /\ Before(p, b)
    BY <2>1 DEF Asked, Before
  <2>3. Request(ch, h, p)
    BY <1>1, <1>2, <1>7, <2>1 DEF Request, Before, Traces
  <2>4. Block(s, p) # {}
    BY <1>7, <2>1, <2>2, <2>3 DEF NextBlock, a
  <2>5. PICK j \in DOMAIN s : s[j] = p
    BY <2>4 DEF Block
  <2>6. ch[j].asset = a
    BY <1>6, <1>7, <2>1, <2>2, <2>5
  <2>7. j < z
    BY <1>3, <1>5, <2>1, <2>5, <2>6
  <2>8. j \in 1..z /\ j # z
    BY <1>2, <1>3, <2>7
  <2>9. j \in DOMAIN u /\ u[j] = p
    BY <1>8, <2>5, <2>6, <2>8
  <2>10. CASE c.merges = {}
    <3>1. j \in B
      BY <2>1, <2>9, <2>10 DEF Block
    <3> QED
      BY <1>2, <1>3, <1>10, <2>7, <2>9, <3>1
  <2>11. CASE c.merges # {}
    <3>1. z < j
      BY <1>7, <2>9, <2>11 DEF SpentInv, p
    <3> QED
      BY <1>2, <1>3, <2>7, <3>1
  <2> QED
    BY <2>10, <2>11
<1>12. ~Before(b, c)
  <2> SUFFICES ASSUME Before(b, c) PROVE FALSE
    OBVIOUS
  <2> DEFINE p == Payment(b)
  <2>1. p \in Traces /\ p # NoTrace /\ p.merges = {} /\ p.output = b.output /\ p.nr = b.nr
    BY <1>1, PaymentTrace
  <2>2. Block(s, p) = {}
    BY DEF NextBlock
  <2> HIDE DEF p
  <2>3. Asked(ch, p) = Asked(ch, b) /\ Before(p, c)
    BY <2>1 DEF Asked, Before
  <2>4. Request(ch, g, p)
    BY <1>1, <1>2, <1>7, <2>1 DEF Request, Before, Traces
  <2>5. PICK j \in 1..z : u[j] = p
    <3>1. Asked(ch, p).asset = ch[z].asset
      BY <1>3, <1>4, <2>3 DEF a
    <3> QED
      BY <1>7, <2>1, <2>3, <2>4, <3>1 DEF SpentInv
  <2>6. j # z
    <3> SUFFICES ASSUME j = z PROVE FALSE
      OBVIOUS
    <3>1. c = p
      BY <2>5
    <3> QED
      BY <2>1, <2>3, <3>1 DEF Before, Traces
  <2>7. j \in DOMAIN u
    BY <1>2, <1>7
  <2>8. ch[j].asset = a
    BY <1>6, <2>1, <2>3, <2>5, <2>7 DEF a
  <2>9. j \in DOMAIN s /\ s[j] = p
    BY <1>8, <2>5, <2>6, <2>8
  <2> QED
    BY <2>2, <2>9 DEF Block
<1>13. b.output = c.output /\ b.nr = c.nr
  <2>1. b.output \in Nat /\ c.output \in Nat /\ b.nr \in Nat /\ c.nr \in Nat
    BY <1>1, <1>7 DEF Traces
  <2> QED
    BY <1>11, <1>12, <2>1 DEF Before
<1>14. \A i \in ids, j \in B : j < i => j \in ids
  <2> SUFFICES ASSUME NEW i \in ids, NEW j \in B, j < i PROVE j \in ids
    OBVIOUS
  <2>1. j \in 1..i /\ ~(j < z) /\ ch[j].asset = a
    BY <1>1, <1>2, <1>3, <1>9, <1>10
  <2>2. j \in DOMAIN s
    BY <1>1, <1>2, <2>1
  <2> QED
    BY <1>3, <1>4, <1>5, <2>1, <2>2
<1>15. \A i \in B, j \in ids : j < i => j \in B
  <2> SUFFICES ASSUME NEW i \in B, NEW j \in ids, j < i PROVE j \in B
    OBVIOUS
  <2>1. i \in DOMAIN u /\ u[i] = c /\ ch[i].asset = a /\ i \in Nat
    BY <1>2, <1>9
  <2>2. z \in 1..i /\ j \in z..i /\ ch[j].asset = ch[i].asset
    BY <1>1, <1>2, <1>3, <1>4, <1>10, <2>1
  <2>3. u[j] = c
    BY <1>7, <2>1, <2>2 DEF SpentInv
  <2>4. j \in DOMAIN u
    BY <1>2, <1>3, <2>1, <2>2
  <2> QED
    BY <2>3, <2>4 DEF Block
<1>16. Beginning(ids, B) \/ Beginning(B, ids)
  <2>1. \A i \in ids, j \in B : i \in Nat /\ j \in Nat
    BY <1>1, <1>2, <1>9
  <2>2. ids \subseteq B \/ B \subseteq ids
    <3> SUFFICES ASSUME NEW i \in ids, i \notin B, NEW j \in B, j \notin ids PROVE FALSE
      OBVIOUS
    <3>1. i < j \/ j < i
      BY <2>1
    <3> QED
      BY <1>14, <1>15, <3>1
  <2> QED
    BY <1>14, <1>15, <2>2 DEF Beginning
<1>17. Exact(ch, b, ids) /\ Exact(ch, c, B)
  BY <1>7 DEF NextBlock, SpentInv
<1>18. IsFiniteSet(ids) /\ IsFiniteSet(B)
  <2>1. ids \in SUBSET (1..Len(s)) /\ B \in SUBSET (1..Len(u))
    BY <1>1, <1>2, <1>9
  <2> QED
    BY <1>2, <2>1, FinitePositions
<1>19. Asked(ch, b) = Asked(ch, c)
  BY <1>13 DEF Asked
<1> HIDE DEF B, c
<1>20. B = ids
  BY <1>1, <1>7, <1>16, <1>17, <1>18, <1>19, SameEnd
<1>21. b = c
  BY <1>1, <1>7, <1>13, <1>17, <1>20, SameTrace
<1> QED
  BY <1>20, <1>21 DEF B

\* Two nodes still agree when one of them has given a block away.
LEMMA AgreeStep ==
  ASSUME NEW ch, NEW h, NEW s, NEW b, NEW ids, NEW g, NEW u,
         SpentInv(ch, h, s), SpentInv(ch, g, u), Agree(s, u),
         NextBlock(ch, h, s, b, ids)
  PROVE  Agree(Given(s, ids, b), u) /\ Agree(u, Given(s, ids, b))
<1> DEFINE new == Given(s, ids, b)
<1>1. b \in Traces /\ b # NoTrace /\ ids \in SUBSET DOMAIN s /\ ids # {}
  BY PaymentTrace DEF NextBlock, Request, Exact
<1>2. /\ DOMAIN new = DOMAIN s
      /\ \A k \in DOMAIN s : new[k] = IF k \in ids THEN b ELSE s[k]
  BY DEF Given
<1>3. /\ Block(s, b) = {} /\ Block(new, b) = ids
      /\ \A c \in Traces : c # b => Block(new, c) = Block(s, c)
  BY NewBlock
<1> HIDE DEF new
<1>4. \A k \in ids : k \in DOMAIN u /\ u[k] # NoTrace => Block(u, b) = ids
  BY SameBlock
<1>5. ASSUME Block(u, b) # {} PROVE Block(u, b) = ids
  <2>1. PICK j \in DOMAIN u : u[j] = b
    BY <1>5 DEF Block
  <2>2. /\ Exact(ch, b, Block(u, b)) /\ ch[j].asset = Asked(ch, b).asset
        /\ \A i \in 1..j : ch[i].asset = ch[j].asset => u[i] # NoTrace
    BY <1>1, <2>1 DEF SpentInv
  <2>3. CASE b.merges # {}
    BY <2>2, <2>3 DEF Exact, NextBlock
  <2>4. CASE b.merges = {}
    <3>1. /\ DOMAIN s = 1..Len(s) /\ Len(s) \in Nat
          /\ DOMAIN u = 1..Len(u) /\ Len(u) \in Nat
      BY DEF SpentInv
    <3>2. PICK k \in ids : TRUE
      BY <1>1
    <3>3. k \in Nat /\ k \in DOMAIN s /\ k >= 1 /\ ch[k].asset = ch[j].asset
      BY <1>1, <2>2, <3>1 DEF NextBlock
    <3>4. CASE k <= j
      <4>1. k \in DOMAIN u /\ u[k] # NoTrace
        BY <2>2, <3>1, <3>3, <3>4
      <4> QED
        BY <1>4, <4>1
    <3>5. CASE j < k
      <4>1. j \in 1..k /\ j \in DOMAIN s
        BY <3>1, <3>3, <3>5
      <4>2. j \in ids \/ s[j] # NoTrace
        BY <3>3, <4>1 DEF NextBlock
      <4>3. CASE j \in ids
        BY <1>1, <1>4, <2>1, <4>3
      <4>4. CASE s[j] # NoTrace
        <5>1. s[j] = b
          BY <1>1, <2>1, <4>1, <4>4 DEF Agree
        <5> QED
          BY <1>3, <4>1, <5>1 DEF Block
      <4> QED
        BY <4>2, <4>3, <4>4
    <3> QED
      BY <3>1, <3>3, <3>4, <3>5
  <2> QED
    BY <2>3, <2>4
<1>6. ASSUME NEW k \in DOMAIN new \cap DOMAIN u, new[k] # NoTrace, u[k] # NoTrace
      PROVE  new[k] = u[k]
  <2>1. CASE k \in ids
    <3>1. k \in Block(u, b)
      BY <1>4, <1>6, <2>1
    <3> QED
      BY <1>2, <1>6, <2>1, <3>1 DEF Block
  <2>2. CASE k \notin ids
    BY <1>2, <1>6, <2>2 DEF Agree
  <2> QED
    BY <2>1, <2>2
<1>7. ASSUME NEW c \in Traces, Block(new, c) # {}, Block(u, c) # {}
      PROVE  Block(new, c) = Block(u, c)
  <2>1. CASE c = b
    BY <1>3, <1>5, <1>7, <2>1
  <2>2. CASE c # b
    BY <1>3, <1>7, <2>2 DEF Agree
  <2> QED
    BY <2>1, <2>2
<1>8. Agree(new, u) /\ Agree(u, new)
  BY <1>6, <1>7 DEF Agree
<1> QED
  BY <1>8 DEF new

-----------------------------------------------------------------------------
(***************************************************************************)
(* The steps.                                                              *)
(***************************************************************************)

\* Nothing that is said of the tables is undone by more outputs.
LEMMA LongerChain ==
  ASSUME NEW ch, NEW ch2, NEW h, NEW sp, NEW T, ChainInv(ch), ChainInv(ch2),
         Len(ch) <= Len(ch2), \A k \in DOMAIN ch : ch2[k] = ch[k],
         SpentInv(ch, h, sp), TransfersInv(ch, h, sp, T)
  PROVE  SpentInv(ch2, h, sp) /\ TransfersInv(ch2, h, sp, T)
<1>1. /\ DOMAIN ch = 1..Len(ch) /\ Len(ch) \in Nat /\ Len(ch2) \in Nat
      /\ DOMAIN sp = 1..Len(sp) /\ Len(sp) \in Nat
      /\ Len(sp) <= Len(ch) /\ h \in 0..Len(sp)
  BY DEF ChainInv, SpentInv
<1>2. \A b : Request(ch, h, b) <=> Request(ch2, h, b)
  BY <1>1 DEF Request
<1>3. \A b : Request(ch, h, b) => Asked(ch2, b) = Asked(ch, b)
  BY <1>1 DEF Request, Asked
<1>4. \A P \in SUBSET DOMAIN sp : \A x : Enough(ch, P, x) <=> Enough(ch2, P, x)
  <2> SUFFICES ASSUME NEW P \in SUBSET DOMAIN sp
               PROVE  [k \in P |-> ch[k].amount] = [k \in P |-> ch2[k].amount]
    BY Zenon DEF Enough
  <2> QED
    BY <1>1
<1>5. ASSUME NEW b, Request(ch, h, b), NEW B \in SUBSET DOMAIN sp, Exact(ch, b, B)
      PROVE  Exact(ch2, b, B)
  <2>1. Asked(ch2, b) = Asked(ch, b)
    BY <1>3, <1>5
  <2>2. \A P \in SUBSET B : P \in SUBSET DOMAIN sp
    OBVIOUS
  <2> QED
    BY <1>4, <1>5, <2>1, <2>2 DEF Exact
<1>6. \A k \in DOMAIN sp : ch2[k] = ch[k] /\ \A j \in 1..k : ch2[j] = ch[j]
  BY <1>1
<1>7. \A b : Block(sp, b) \in SUBSET DOMAIN sp
  BY DEF Block
<1>8. SpentInv(ch2, h, sp)
  <2>1. sp \in Seq(Traces \cup {NoTrace}) /\ Len(sp) <= Len(ch2) /\ h \in 0..Len(sp)
    BY <1>1 DEF SpentInv
  <2>2. ASSUME NEW k \in DOMAIN sp, sp[k] # NoTrace
        PROVE  /\ Request(ch2, h, sp[k]) /\ ch2[k].asset = Asked(ch2, sp[k]).asset
               /\ Exact(ch2, sp[k], Block(sp, sp[k]))
               /\ \A j \in 1..k : ch2[j].asset = ch2[k].asset => sp[j] # NoTrace
               /\ \A j \in 1..k : sp[j] = sp[k] =>
                    \A l \in j..k : ch2[l].asset = ch2[k].asset => sp[l] = sp[k]
               /\ \A b \in Traces :
                    /\ Request(ch2, h, b) /\ b.merges = {} /\ Before(b, sp[k])
                    /\ Asked(ch2, b).asset = ch2[k].asset
                    => \E j \in 1..k : sp[j] = b
               /\ sp[k].merges # {} =>
                    \A j \in DOMAIN sp : sp[j] = Payment(sp[k]) => k < j
    <3>1. Request(ch, h, sp[k]) /\ ch[k].asset = Asked(ch, sp[k]).asset
      BY <2>2 DEF SpentInv
    <3>2. Request(ch2, h, sp[k]) /\ ch2[k].asset = Asked(ch2, sp[k]).asset
      BY <1>2, <1>3, <1>6, <3>1
    <3>3. Exact(ch2, sp[k], Block(sp, sp[k]))
      <4>1. Exact(ch, sp[k], Block(sp, sp[k]))
        BY <2>2 DEF SpentInv
      <4> QED
        BY <1>5, <1>7, <3>1, <4>1
    <3>4. \A j \in 1..k : ch2[j].asset = ch2[k].asset => sp[j] # NoTrace
      BY <1>6, <2>2 DEF SpentInv
    <3>5. \A j \in 1..k : sp[j] = sp[k] =>
            \A l \in j..k : ch2[l].asset = ch2[k].asset => sp[l] = sp[k]
      <4>1. \A j \in 1..k : \A l \in j..k : l \in 1..k
        BY <1>1
      <4> QED
        BY <1>6, <2>2, <4>1 DEF SpentInv
    <3>6. \A b \in Traces :
            /\ Request(ch2, h, b) /\ b.merges = {} /\ Before(b, sp[k])
            /\ Asked(ch2, b).asset = ch2[k].asset
            => \E j \in 1..k : sp[j] = b
      BY <1>2, <1>3, <1>6, <2>2 DEF SpentInv
    <3>7. sp[k].merges # {} => \A j \in DOMAIN sp : sp[j] = Payment(sp[k]) => k < j
      BY <2>2 DEF SpentInv
    <3> QED
      BY <3>2, <3>3, <3>4, <3>5, <3>6, <3>7
  <2> QED
    BY <2>1, <2>2 DEF SpentInv
<1>9. TransfersInv(ch2, h, sp, T)
  BY <1>2, <1>3 DEF TransfersInv
<1> QED
  BY <1>8, <1>9

\* A table in which only the row of n changes.
Changed(f, g, n) == g = [f EXCEPT ![n] = g[n]]

LEMMA ChangedRow ==
  ASSUME NEW f, NEW g, NEW n \in Nodes, IsTable(f), Changed(f, g, n)
  PROVE  IsTable(g) /\ \A m \in Nodes : m # n => g[m] = f[m]
<1>1. DOMAIN g = Nodes /\ \A m \in Nodes : m # n => g[m] = f[m]
  BY DEF IsTable, Changed
<1>2. g = [m \in Nodes |-> g[m]]
  BY <1>1 DEF IsTable, Changed
<1>3. \A m \in Nodes : g[m] \in Range(g)
  BY <1>1 DEF Range
<1> QED
  BY <1>1, <1>2, <1>3 DEF IsTable

LEMMA UnchangedRow ==
  ASSUME NEW f, NEW n \in Nodes, IsTable(f)
  PROVE  Changed(f, f, n)
  BY DEF IsTable, Changed

\* A step of one node keeps the invariant when it keeps what is said of that
\* node and its agreement with the others.
LEMMA NodeStep ==
  ASSUME WalletInv, NEW n \in Nodes, UNCHANGED <<chain, deposited>>,
         Changed(view, view', n), Changed(spentBy, spentBy', n),
         Changed(handledTo, handledTo', n), Changed(transfers, transfers', n),
         Changed(todo, todo', n), Changed(aborted, aborted', n),
         Changed(bill, bill', n), Changed(spending, spending', n),
         NodeInv(n)',
         \A m \in Nodes : m # n =>
           Agree(spentBy'[n], spentBy[m]) /\ Agree(spentBy[m], spentBy'[n])
  PROVE  WalletInv'
<1>1. /\ IsTable(view') /\ IsTable(spentBy') /\ IsTable(handledTo')
      /\ IsTable(transfers') /\ IsTable(todo') /\ IsTable(aborted')
      /\ IsTable(bill') /\ IsTable(spending')
  BY ChangedRow DEF WalletInv
<1>2. ASSUME NEW m \in Nodes, m # n
      PROVE  /\ view'[m] = view[m] /\ spentBy'[m] = spentBy[m]
             /\ handledTo'[m] = handledTo[m] /\ transfers'[m] = transfers[m]
             /\ todo'[m] = todo[m] /\ aborted'[m] = aborted[m]
             /\ bill'[m] = bill[m] /\ spending'[m] = spending[m]
  BY <1>2, ChangedRow DEF WalletInv
<1>3. ASSUME NEW m \in Nodes, m # n PROVE NodeInv(m)'
  <2>1. NodeInv(m)
    BY DEF WalletInv
  <2> QED
    BY <1>2, <1>3, <2>1 DEF NodeInv
<1>4. ASSUME NEW m \in Nodes, NEW l \in Nodes PROVE Agree(spentBy'[m], spentBy'[l])
  <2>1. CASE m = n /\ l = n
    BY <2>1 DEF Agree
  <2>2. CASE m = n /\ l # n
    BY <1>2, <2>2
  <2>3. CASE m # n /\ l = n
    BY <1>2, <2>3
  <2>4. CASE m # n /\ l # n
    BY <1>2, <2>4 DEF WalletInv
  <2> QED
    BY <2>1, <2>2, <2>3, <2>4
<1>5. ChainInv(chain)' /\ (deposited \in 0..Len(Deposits))'
  BY DEF WalletInv
<1> QED
  BY <1>1, <1>3, <1>4, <1>5 DEF WalletInv

LEMMA InitWallet ==
  ASSUME PaysSomething, Init
  PROVE  WalletInv
<1> DEFINE Opened == [asset : Assets, amount : Nat, pays : Seq([asset : Assets, amount : Nat])]
<1>1. /\ Deposits \in Seq(Opened) /\ Opening \in 0..Len(Deposits) /\ Opening \in Nat
      /\ \A k \in 1..Opening : Deposits[k].pays = <<>>
  BY WalletAssumption
<1>2. chain \in Seq(Opened) /\ Len(chain) = Opening /\ DOMAIN chain = 1..Opening
  <2> HIDE DEF Opened
  <2> QED
    BY <1>1 DEF Init
<1>3. \A k \in DOMAIN chain : chain[k].pays = <<>>
  <2>1. \A k \in 1..Opening : chain[k] = Deposits[k]
    <3> HIDE DEF Opened
    <3> QED
      BY <1>1 DEF Init
  <2> QED
    BY <1>1, <1>2, <2>1
<1> HIDE DEF Opened
<1>4. ChainInv(chain)
  <2>1. <<>> \in Seq(Pays)
    OBVIOUS
  <2> QED
    BY <1>2, <1>3, <2>1, OwnElements DEF ChainInv
<1>5. \A b : ~Request(chain, Opening, b)
  BY <1>2, <1>3 DEF Request
<1>6. /\ IsTable(view) /\ IsTable(spentBy) /\ IsTable(handledTo) /\ IsTable(transfers)
      /\ IsTable(todo) /\ IsTable(aborted) /\ IsTable(bill) /\ IsTable(spending)
  BY DEF Init, IsTable, Range
<1>7. ASSUME NEW n \in Nodes PROVE NodeInv(n)
  <2>1. view[n] = [k \in 1..Opening |-> Unspent] /\ spentBy[n] = [k \in 1..Opening |-> NoTrace]
    BY DEF Init
  <2>2. /\ view[n] \in Seq({Unspent}) /\ Len(view[n]) = Opening
        /\ spentBy[n] \in Seq(Traces \cup {NoTrace}) /\ Len(spentBy[n]) = Opening
        /\ DOMAIN spentBy[n] = 1..Opening
    BY <1>1, <2>1
  <2>3. view[n] \in Seq(Range(view[n]))
    BY <2>2, OwnElements
  <2>4. handledTo[n] = Opening /\ transfers[n] = <<>> /\ todo[n] = {} /\ bill[n] = {}
        /\ spending[n].stage = "spend"
    BY DEF Init, Idle
  <2>5. SpentInv(chain, Opening, spentBy[n])
    BY <1>1, <1>2, <2>1, <2>2 DEF SpentInv
  <2>6. TransfersInv(chain, Opening, spentBy[n], transfers[n])
    BY <1>5, <2>4 DEF TransfersInv
  <2>7. ListsInv(transfers[n], todo[n], aborted[n], bill[n], spending[n].stage)
    BY <2>4 DEF ListsInv
  <2> QED
    BY <2>2, <2>3, <2>4, <2>5, <2>6, <2>7 DEF NodeInv
<1>8. ASSUME NEW m \in Nodes, NEW n \in Nodes PROVE Agree(spentBy[m], spentBy[n])
  <2>1. spentBy[m] = spentBy[n]
    BY DEF Init
  <2> QED
    BY <2>1 DEF Agree
<1>9. deposited \in 0..Len(Deposits)
  BY <1>1 DEF Init
<1> QED
  BY <1>4, <1>6, <1>7, <1>8, <1>9 DEF WalletInv

\* Deposits, and what a transaction returns.
LEMMA ChainStep ==
  ASSUME WalletInv, ChainInv(chain'), (deposited \in 0..Len(Deposits))',
         Len(chain) <= Len(chain'), \A k \in DOMAIN chain : chain'[k] = chain[k],
         UNCHANGED <<tables, workers>>
  PROVE  WalletInv'
<1>1. /\ UNCHANGED <<view, spentBy, handledTo, transfers>>
      /\ UNCHANGED <<todo, aborted, bill, spending>>
  BY DEF tables, workers
<1>2. ASSUME NEW n \in Nodes PROVE NodeInv(n)'
  <2>1. NodeInv(n) /\ ChainInv(chain)
    BY DEF WalletInv
  <2>2. /\ SpentInv(chain', handledTo[n], spentBy[n])
        /\ TransfersInv(chain', handledTo[n], spentBy[n], transfers[n])
    BY <2>1, LongerChain DEF NodeInv
  <2> QED
    BY <1>1, <2>1, <2>2 DEF NodeInv
<1> QED
  BY <1>1, <1>2 DEF WalletInv

LEMMA DepositWallet ==
  ASSUME PaysSomething, WalletInv, Deposit
  PROVE  WalletInv'
<1> DEFINE x == Deposits[deposited + 1]
<1>1. deposited + 1 \in DOMAIN Deposits /\ deposited \in Nat /\ Len(Deposits) \in Nat
  BY WalletAssumption DEF WalletInv, Deposit
<1>2. x.pays \in Seq(Pays)
  <2> DEFINE Payments == Seq([asset : Assets, amount : Nat])
             Opened == [asset : Assets, amount : Nat, pays : Payments]
             p == x.pays
  <2>1. p \in Payments
    <3> HIDE DEF Payments
    <3>1. x \in Opened
      <4>1. Deposits \in Seq(Opened)
        BY WalletAssumption DEF Payments
      <4> HIDE DEF Opened
      <4> QED
        BY <1>1, <4>1
    <3> QED
      BY <3>1
  <2>2. \A r \in DOMAIN p : p[r].amount > 0
    BY <1>1 DEF PaysSomething
  <2> HIDE DEF p
  <2>3. ASSUME NEW r \in 1..Len(p) PROVE p[r] \in Pays
    <3> DEFINE Row == [asset : Assets, amount : Nat]
    <3>1. p[r] \in Row /\ p[r].amount > 0
      <4>1. p \in Seq(Row)
        BY <2>1
      <4> HIDE DEF Row
      <4> QED
        BY <2>2, <4>1
    <3> QED
      BY <3>1 DEF Pays
  <2>4. p = [r \in 1..Len(p) |-> p[r]] /\ Len(p) \in Nat
    BY <2>1
  <2>5. p \in Seq(Pays)
    BY <2>3, <2>4
  <2> QED
    BY <2>5 DEF p
<1>3. ChainInv(chain)
  BY DEF WalletInv
<1>4. chain' = Append(chain, x) /\ deposited' = deposited + 1
  BY DEF Deposit
<1> HIDE DEF x
<1>5. /\ chain' \in Seq(Range(chain')) /\ Len(chain') = Len(chain) + 1
      /\ DOMAIN chain' = 1..(Len(chain) + 1)
      /\ \A k \in DOMAIN chain : chain'[k] = chain[k]
      /\ chain'[Len(chain) + 1] = x
  BY <1>3, <1>4, Appended DEF ChainInv
<1>6. DOMAIN chain = 1..Len(chain) /\ Len(chain) \in Nat
  BY <1>3 DEF ChainInv
<1>7. ChainInv(chain')
  <2>1. \A k \in DOMAIN chain' : k \in DOMAIN chain \/ k = Len(chain) + 1
    BY <1>5, <1>6
  <2> QED
    BY <1>2, <1>3, <1>5, <2>1 DEF ChainInv
<1>8. Len(chain) <= Len(chain') /\ (deposited \in 0..Len(Deposits))'
  BY <1>1, <1>4, <1>5, <1>6
<1> QED
  BY <1>5, <1>7, <1>8, ChainStep DEF Deposit

LEMMA SubmitWallet ==
  ASSUME WalletInv, NEW n \in Nodes, NEW tx, Submit(n, tx)
  PROVE  WalletInv'
<1> DEFINE new == Returned(tx)
           back == {Output(tx.asset, tx.amount), Output(tx.asset, Sum(tx.inputs) - tx.amount)}
           change == Sum(tx.inputs) - tx.amount
<1>1. new \in Seq(back)
  <2> DEFINE x == Output(tx.asset, tx.amount)
             y == Output(tx.asset, change)
             merged == IF tx.trace.merges # {} THEN <<x>> ELSE <<>>
             rest == IF change > 0 THEN <<y>> ELSE <<>>
  <2>1. new = merged \o rest /\ x \in back /\ y \in back
    BY DEF Returned
  <2> HIDE DEF new, back, x, y, change
  <2>2. merged \in Seq(back) /\ rest \in Seq(back)
    BY <2>1
  <2> HIDE DEF merged, rest
  <2> QED
    BY <2>1, <2>2
<1>2. \A x \in back : x.pays = <<>>
  BY DEF Output
<1> HIDE DEF back, new
<1>3. ChainInv(chain)
  BY DEF WalletInv
<1>4. chain' = chain \o new
  BY DEF Submit, new
<1>5. new \in Seq(Range(new))
  BY <1>1, OwnElements
<1>6. /\ chain' \in Seq(Range(chain')) /\ Len(chain') = Len(chain) + Len(new)
      /\ DOMAIN chain' = 1..(Len(chain) + Len(new))
      /\ \A k \in DOMAIN chain : chain'[k] = chain[k]
      /\ \A k \in DOMAIN new : chain'[Len(chain) + k] = new[k]
  BY <1>3, <1>4, <1>5, Continued DEF ChainInv
<1>7. /\ DOMAIN chain = 1..Len(chain) /\ Len(chain) \in Nat
      /\ DOMAIN new = 1..Len(new) /\ Len(new) \in Nat
  BY <1>1, <1>3 DEF ChainInv
<1>8. ASSUME NEW k \in DOMAIN chain' PROVE chain'[k].pays \in Seq(Pays)
  <2>1. CASE k \in DOMAIN chain
    BY <1>3, <1>6, <2>1 DEF ChainInv
  <2>2. CASE k \notin DOMAIN chain
    <3>1. k - Len(chain) \in DOMAIN new /\ k = Len(chain) + (k - Len(chain))
      BY <1>6, <1>7, <2>2
    <3>2. chain'[k] = new[k - Len(chain)]
      BY <1>6, <3>1
    <3>3. chain'[k] \in back
      BY <1>1, <3>1, <3>2
    <3>4. <<>> \in Seq(Pays)
      OBVIOUS
    <3> QED
      BY <1>2, <3>3, <3>4
  <2> QED
    BY <2>1, <2>2
<1>9. ChainInv(chain') /\ Len(chain) <= Len(chain')
  BY <1>6, <1>7, <1>8 DEF ChainInv
<1>10. (deposited \in 0..Len(Deposits))'
  BY DEF WalletInv, Submit
<1> QED
  BY <1>6, <1>9, <1>10, ChainStep DEF Submit

\* The steps that only change the lists of a node's workers.
LEMMA ListsStep ==
  ASSUME WalletInv, NEW n \in Nodes,
         UNCHANGED <<chain, deposited, view, spentBy, handledTo, transfers>>,
         Changed(todo, todo', n), Changed(aborted, aborted', n),
         Changed(bill, bill', n), Changed(spending, spending', n),
         ListsInv(transfers[n], todo'[n], aborted'[n], bill'[n], spending'[n].stage)
  PROVE  WalletInv'
<1>1. /\ Changed(view, view', n) /\ Changed(spentBy, spentBy', n)
      /\ Changed(handledTo, handledTo', n) /\ Changed(transfers, transfers', n)
  BY UnchangedRow DEF WalletInv
<1>2. NodeInv(n)'
  <2>1. NodeInv(n)
    BY DEF WalletInv
  <2> QED
    BY <2>1 DEF NodeInv
<1>3. \A m \in Nodes : Agree(spentBy'[n], spentBy[m]) /\ Agree(spentBy[m], spentBy'[n])
  BY DEF WalletInv
<1> QED
  BY <1>1, <1>2, <1>3, NodeStep

LEMMA RefreshWallet ==
  ASSUME WalletInv, NEW n \in Nodes, Refresh(n)
  PROVE  WalletInv'
<1> DEFINE w == view[n]
           new == [k \in DOMAIN w |-> Reported(k)]
<1>1. NodeInv(n) /\ IsTable(view)
  BY DEF WalletInv
<1>2. w \in Seq(Range(w))
  BY <1>1 DEF NodeInv
<1>3. view' = [view EXCEPT ![n] = new]
  BY DEF Refresh
<1>4. new \in Seq(Range(new)) /\ Len(new) = Len(w)
  <2>1. DOMAIN w = 1..Len(w) /\ Len(w) \in Nat
    BY <1>2
  <2>2. \A k \in 1..Len(w) : new[k] \in Range(new)
    BY <2>1 DEF Range
  <2>3. new = [k \in 1..Len(w) |-> new[k]]
    BY <2>1
  <2> HIDE DEF new
  <2> QED
    BY <2>1, <2>2, <2>3
<1> HIDE DEF new
<1>5. Changed(view, view', n) /\ view'[n] = new
  BY <1>1, <1>3 DEF IsTable, Changed
<1>6. /\ UNCHANGED <<chain, deposited, spentBy, handledTo, transfers>>
      /\ UNCHANGED <<todo, aborted, bill, spending>>
  BY DEF Refresh, netVars, workers
<1>7. /\ Changed(spentBy, spentBy', n) /\ Changed(handledTo, handledTo', n)
      /\ Changed(transfers, transfers', n) /\ Changed(todo, todo', n)
      /\ Changed(aborted, aborted', n) /\ Changed(bill, bill', n)
      /\ Changed(spending, spending', n)
  BY <1>6, UnchangedRow DEF WalletInv
<1>8. NodeInv(n)'
  BY <1>1, <1>4, <1>5, <1>6 DEF NodeInv
<1>9. \A m \in Nodes : Agree(spentBy'[n], spentBy[m]) /\ Agree(spentBy[m], spentBy'[n])
  BY <1>6 DEF WalletInv
<1> QED
  BY <1>5, <1>6, <1>7, <1>8, <1>9, NodeStep

\* An output that the node has learned of is unspent in its tables.
LEMMA LearnedOutput ==
  ASSUME NEW ch, NEW h, NEW sp, NEW T, SpentInv(ch, h, sp), TransfersInv(ch, h, sp, T),
         Len(sp) < Len(ch), Len(ch) \in Nat
  PROVE  LET new == Append(sp, NoTrace)
         IN  /\ SpentInv(ch, h, new) /\ TransfersInv(ch, h, new, T)
             /\ Len(new) = Len(sp) + 1
             /\ \A u : Agree(sp, u) => Agree(new, u)
             /\ \A u : Agree(u, sp) => Agree(u, new)
<1> DEFINE new == Append(sp, NoTrace)
<1>1. /\ sp \in Seq(Traces \cup {NoTrace}) /\ DOMAIN sp = 1..Len(sp) /\ Len(sp) \in Nat
      /\ h \in 0..Len(sp)
  BY DEF SpentInv
<1>2. /\ new \in Seq(Traces \cup {NoTrace}) /\ Len(new) = Len(sp) + 1
      /\ DOMAIN new = 1..(Len(sp) + 1) /\ new[Len(sp) + 1] = NoTrace
      /\ \A k \in DOMAIN sp : new[k] = sp[k]
  BY <1>1
<1> HIDE DEF new
<1>3. \A k \in DOMAIN new : new[k] # NoTrace => k \in DOMAIN sp /\ sp[k] = new[k]
  BY <1>1, <1>2
<1>4. \A k \in DOMAIN sp : k \in DOMAIN new
  BY <1>1, <1>2
<1>5. \A b \in Traces : Block(new, b) = Block(sp, b)
  <2>1. \A b \in Traces : b # NoTrace
    BY PaymentTrace
  <2> QED
    BY <1>2, <1>3, <1>4, <2>1 DEF Block
<1>6. \A k \in DOMAIN sp : \A j \in 1..k : j \in DOMAIN sp
  BY <1>1
<1>7. SpentInv(ch, h, new)
  <2>1. Len(new) <= Len(ch) /\ h \in 0..Len(new)
    BY <1>1, <1>2
  <2>2. ASSUME NEW k \in DOMAIN new, new[k] # NoTrace
        PROVE  /\ Request(ch, h, new[k]) /\ ch[k].asset = Asked(ch, new[k]).asset
               /\ Exact(ch, new[k], Block(new, new[k]))
               /\ \A j \in 1..k : ch[j].asset = ch[k].asset => new[j] # NoTrace
               /\ \A j \in 1..k : new[j] = new[k] =>
                    \A l \in j..k : ch[l].asset = ch[k].asset => new[l] = new[k]
               /\ \A b \in Traces :
                    /\ Request(ch, h, b) /\ b.merges = {} /\ Before(b, new[k])
                    /\ Asked(ch, b).asset = ch[k].asset
                    => \E j \in 1..k : new[j] = b
               /\ new[k].merges # {} =>
                    \A j \in DOMAIN new : new[j] = Payment(new[k]) => k < j
    <3>1. k \in DOMAIN sp /\ sp[k] = new[k] /\ sp[k] # NoTrace
      BY <1>3, <2>2
    <3>2. /\ Request(ch, h, sp[k]) /\ ch[k].asset = Asked(ch, sp[k]).asset
          /\ sp[k] \in Traces
      BY <3>1 DEF SpentInv, Request
    <3>3. Exact(ch, sp[k], Block(new, sp[k]))
      <4>1. Exact(ch, sp[k], Block(sp, sp[k]))
        BY <3>1 DEF SpentInv
      <4> QED
        BY <1>5, <3>2, <4>1
    <3>4. \A j \in 1..k : new[j] = sp[j]
      BY <1>2, <1>6, <3>1
    <3>5. \A j \in 1..k : ch[j].asset = ch[k].asset => sp[j] # NoTrace
      BY <3>1 DEF SpentInv
    <3>6. \A j \in 1..k : sp[j] = sp[k] =>
            \A l \in j..k : ch[l].asset = ch[k].asset => sp[l] = sp[k]
      BY <3>1 DEF SpentInv
    <3>7. \A j \in 1..k : \A l \in j..k : l \in 1..k
      BY <1>1, <3>1
    <3>8. \A b \in Traces :
            /\ Request(ch, h, b) /\ b.merges = {} /\ Before(b, sp[k])
            /\ Asked(ch, b).asset = ch[k].asset
            => \E j \in 1..k : sp[j] = b
      BY <3>1 DEF SpentInv
    <3>9. sp[k].merges # {} => \A j \in DOMAIN sp : sp[j] = Payment(sp[k]) => k < j
      BY <3>1 DEF SpentInv
    <3>10. \A j \in DOMAIN new : new[j] = Payment(sp[k]) => j \in DOMAIN sp /\ sp[j] = new[j]
      <4>1. Payment(sp[k]) # NoTrace
        BY <3>2, PaymentTrace DEF Traces, NoTrace
      <4> QED
        BY <1>3, <4>1
    <3>11. \A j \in 1..k : new[j] = new[k] =>
             \A l \in j..k : ch[l].asset = ch[k].asset => new[l] = new[k]
      BY <3>1, <3>4, <3>6, <3>7
    <3>12. \A b \in Traces :
             /\ Request(ch, h, b) /\ b.merges = {} /\ Before(b, new[k])
             /\ Asked(ch, b).asset = ch[k].asset
             => \E j \in 1..k : new[j] = b
      BY <3>1, <3>4, <3>8
    <3> QED
      BY <3>1, <3>2, <3>3, <3>4, <3>5, <3>9, <3>10, <3>11, <3>12
  <2> QED
    BY <1>2, <2>1, <2>2 DEF SpentInv
<1>8. TransfersInv(ch, h, new, T)
  <2>1. \A i \in DOMAIN T : Block(new, T[i].trace) = Block(sp, T[i].trace)
    BY <1>5 DEF TransfersInv, Request
  <2> QED
    BY <2>1 DEF TransfersInv
<1>9. ASSUME NEW u, Agree(sp, u) PROVE Agree(new, u)
  BY <1>3, <1>5, <1>9 DEF Agree
<1>10. ASSUME NEW u, Agree(u, sp) PROVE Agree(u, new)
  BY <1>3, <1>5, <1>10 DEF Agree
<1> QED
  BY <1>2, <1>7, <1>8, <1>9, <1>10 DEF new

LEMMA LearnWallet ==
  ASSUME WalletInv, NEW n \in Nodes, Learn(n)
  PROVE  WalletInv'
<1> DEFINE w == view[n]
           sp == spentBy[n]
           row == Reported(Len(w) + 1)
<1>1. NodeInv(n) /\ IsTable(view) /\ IsTable(spentBy) /\ ChainInv(chain)
  BY DEF WalletInv
<1>2. /\ w \in Seq(Range(w)) /\ Len(w) = Len(sp) /\ Len(w) < Len(chain)
      /\ Len(chain) \in Nat /\ SpentInv(chain, handledTo[n], sp)
      /\ TransfersInv(chain, handledTo[n], sp, transfers[n])
      /\ ListsInv(transfers[n], todo[n], aborted[n], bill[n], spending[n].stage)
  BY <1>1 DEF NodeInv, Learn, ChainInv
<1>3. /\ view' = [view EXCEPT ![n] = Append(w, row)]
      /\ spentBy' = [spentBy EXCEPT ![n] = Append(sp, NoTrace)]
  BY DEF Learn
<1> HIDE DEF row, w, sp
<1>4. /\ Changed(view, view', n) /\ view'[n] = Append(w, row)
      /\ Changed(spentBy, spentBy', n) /\ spentBy'[n] = Append(sp, NoTrace)
  BY <1>1, <1>3 DEF IsTable, Changed
<1>5. view'[n] \in Seq(Range(view'[n])) /\ Len(view'[n]) = Len(w) + 1
  BY <1>2, <1>4, Appended
<1>6. /\ SpentInv(chain, handledTo[n], spentBy'[n])
      /\ TransfersInv(chain, handledTo[n], spentBy'[n], transfers[n])
      /\ Len(spentBy'[n]) = Len(sp) + 1
      /\ \A u : Agree(sp, u) => Agree(spentBy'[n], u)
      /\ \A u : Agree(u, sp) => Agree(u, spentBy'[n])
  BY <1>2, <1>4, LearnedOutput
<1>7. /\ UNCHANGED <<chain, deposited, handledTo, transfers>>
      /\ UNCHANGED <<todo, aborted, bill, spending>>
  BY DEF Learn, netVars, workers
<1>8. /\ Changed(handledTo, handledTo', n) /\ Changed(transfers, transfers', n)
      /\ Changed(todo, todo', n) /\ Changed(aborted, aborted', n)
      /\ Changed(bill, bill', n) /\ Changed(spending, spending', n)
  BY <1>7, UnchangedRow DEF WalletInv
<1>9. NodeInv(n)'
  BY <1>2, <1>5, <1>6, <1>7 DEF NodeInv
<1>10. \A m \in Nodes : Agree(spentBy'[n], spentBy[m]) /\ Agree(spentBy[m], spentBy'[n])
  BY <1>6 DEF WalletInv, sp
<1> QED
  BY <1>4, <1>7, <1>8, <1>9, <1>10, NodeStep

\* The transfers T and those that output k asks for.
Followed(ch, k, T) ==
  T \o [i \in DOMAIN ch[k].pays |->
          NewTransfer(k, i, ch[k].pays[i].asset, ch[k].pays[i].amount, {})]

\* Transfers of the next output follow those the node has, and have no outputs.
LEMMA NextTransfers ==
  ASSUME NEW ch, NEW h, NEW sp, NEW T, ChainInv(ch),
         SpentInv(ch, h, sp), TransfersInv(ch, h, sp, T), h + 1 <= Len(sp)
  PROVE  LET new == Followed(ch, h + 1, T)
         IN  /\ SpentInv(ch, h + 1, sp) /\ TransfersInv(ch, h + 1, sp, new)
             /\ DOMAIN T \subseteq DOMAIN new /\ \A i \in DOMAIN T : new[i] = T[i]
             /\ \A i \in DOMAIN T : \A j \in DOMAIN new : j < i => j \in DOMAIN T
<1> DEFINE k == h + 1
           p == ch[k].pays
           row(i) == NewTransfer(k, i, p[i].asset, p[i].amount, {})
           more == [i \in DOMAIN p |-> row(i)]
           new == Followed(ch, k, T)
<1>0. new = T \o more
  BY DEF Followed
<1>1. /\ DOMAIN sp = 1..Len(sp) /\ Len(sp) \in Nat /\ h \in Nat /\ k \in Nat
      /\ DOMAIN ch = 1..Len(ch) /\ Len(ch) \in Nat /\ k \in DOMAIN ch /\ k <= Len(sp)
      /\ DOMAIN T = 1..Len(T) /\ Len(T) \in Nat /\ T \in Seq(Range(T))
  BY DEF SpentInv, ChainInv, TransfersInv
<1>2. p \in Seq(Pays) /\ DOMAIN p = 1..Len(p) /\ Len(p) \in Nat
  BY <1>1 DEF ChainInv
<1>3. more \in Seq(Range(more)) /\ Len(more) = Len(p) /\ DOMAIN more = DOMAIN p
  <2>1. DOMAIN more = 1..Len(p)
    BY <1>2
  <2>2. \A i \in 1..Len(p) : more[i] \in Range(more)
    BY <2>1 DEF Range
  <2>3. more = [i \in 1..Len(p) |-> more[i]]
    BY <1>2
  <2> HIDE DEF more
  <2> QED
    BY <1>2, <2>1, <2>2, <2>3
<1>4. \A i \in DOMAIN p : more[i] = row(i)
  OBVIOUS
<1>5. ASSUME NEW i \in DOMAIN p
      PROVE  /\ IsTransfer(row(i)) /\ row(i).trace \in Traces
             /\ row(i).trace.output = k /\ row(i).trace.nr = i /\ row(i).trace.merges = {}
             /\ row(i).asset = p[i].asset /\ row(i).amount = p[i].amount
             /\ row(i).assigned = FALSE /\ row(i).handled = FALSE
  <2>1. i \in Nat \ {0} /\ k \in Nat \ {0}
    BY <1>1, <1>2
  <2> HIDE DEF k, p
  <2> QED
    BY <2>1 DEF NewTransfer, IsTransfer, Traces
<1> HIDE DEF more, p, row
<1>6. /\ new \in Seq(Range(new)) /\ Len(new) = Len(T) + Len(p)
      /\ DOMAIN new = 1..(Len(T) + Len(p))
      /\ \A i \in DOMAIN T : new[i] = T[i]
      /\ \A i \in DOMAIN p : new[Len(T) + i] = row(i)
  <2> HIDE DEF new
  <2>1. T \in Seq(Range(T)) /\ more \in Seq(Range(more))
    BY <1>1, <1>3
  <2>2. /\ (T \o more) \in Seq(Range(T \o more))
        /\ Len(T \o more) = Len(T) + Len(more)
        /\ DOMAIN (T \o more) = 1..(Len(T) + Len(more))
        /\ \A i \in DOMAIN T : (T \o more)[i] = T[i]
        /\ \A i \in DOMAIN more : (T \o more)[Len(T) + i] = more[i]
    BY ONLY <2>1, Continued
  <2>3. /\ new \in Seq(Range(new)) /\ Len(new) = Len(T) + Len(more)
        /\ DOMAIN new = 1..(Len(T) + Len(more))
        /\ \A i \in DOMAIN T : new[i] = T[i]
        /\ \A i \in DOMAIN more : new[Len(T) + i] = more[i]
    BY <1>0, <2>2
  <2> QED
    BY <1>3, <1>4, <2>3
<1> HIDE DEF new
<1>7. \A i \in DOMAIN new : i \in DOMAIN T \/ \E r \in DOMAIN p : i = Len(T) + r
  <2> SUFFICES ASSUME NEW i \in DOMAIN new, i \notin DOMAIN T
               PROVE  \E r \in DOMAIN p : i = Len(T) + r
    OBVIOUS
  <2>1. i - Len(T) \in DOMAIN p /\ i = Len(T) + (i - Len(T))
    BY <1>1, <1>2, <1>6
  <2> QED
    BY <2>1
<1>8. \A b : Request(ch, k, b) <=>
             Request(ch, h, b) \/ (b \in Traces /\ b.output = k /\ b.nr \in DOMAIN p)
  <2>1. \A x \in 1..k : x \in 1..h \/ x = k
    BY <1>1
  <2>2. k \in 1..k /\ \A x \in 1..h : x \in 1..k
    BY <1>1
  <2> HIDE DEF k
  <2> QED
    BY <2>1, <2>2 DEF Request, p
<1>9. \A b : Request(ch, h, b) => b.output < k
  BY <1>1 DEF Request
<1>10. SpentInv(ch, k, sp)
  <2>1. k \in 0..Len(sp)
    BY <1>1
  <2>2. ASSUME NEW i \in DOMAIN sp, sp[i] # NoTrace
        PROVE  /\ Request(ch, k, sp[i])
               /\ \A b \in Traces :
                    /\ Request(ch, k, b) /\ b.merges = {} /\ Before(b, sp[i])
                    /\ Asked(ch, b).asset = ch[i].asset
                    => \E j \in 1..i : sp[j] = b
    <3>1. Request(ch, h, sp[i])
      BY <2>2 DEF SpentInv
    <3>2. Request(ch, k, sp[i])
      BY <1>8, <3>1
    <3>3. \A b \in Traces : Request(ch, k, b) /\ Before(b, sp[i]) => Request(ch, h, b)
      <4>1. sp[i].output < k /\ sp[i].output \in Nat
        BY <1>9, <3>1 DEF Request, Traces
      <4>2. \A b \in Traces : b.output = k => ~Before(b, sp[i])
        BY <1>1, <4>1 DEF Before
      <4> QED
        BY <1>8, <4>2
    <3> QED
      BY <2>2, <3>2, <3>3 DEF SpentInv
  <2> HIDE DEF k
  <2> QED
    BY <2>1, <2>2 DEF SpentInv
<1>11. ASSUME NEW r \in DOMAIN p
       PROVE  /\ Request(ch, k, row(r).trace) /\ Asked(ch, row(r).trace) = p[r]
              /\ Block(sp, row(r).trace) = {}
  <2>1. Request(ch, k, row(r).trace) /\ Asked(ch, row(r).trace) = p[r]
    BY <1>5, <1>8 DEF Asked, p
  <2>2. ASSUME NEW i \in DOMAIN sp, sp[i] = row(r).trace PROVE FALSE
    <3>1. sp[i] # NoTrace
      BY <1>5, <2>2, PaymentTrace
    <3>2. sp[i].output < k
      BY <1>9, <3>1 DEF SpentInv
    <3>3. sp[i].output = k
      BY <1>5, <2>2
    <3> QED
      BY <1>1, <3>2, <3>3
  <2> QED
    BY <2>1, <2>2 DEF Block
<1>12. \A i \in DOMAIN T :
         /\ IsTransfer(T[i]) /\ Request(ch, h, T[i].trace)
         /\ T[i].asset = Asked(ch, T[i].trace).asset
         /\ T[i].assigned \in BOOLEAN /\ T[i].handled \in BOOLEAN
         /\ T[i].handled => T[i].assigned
         /\ IF T[i].trace.merges # {} THEN T[i].assigned
            ELSE /\ T[i].amount = Asked(ch, T[i].trace).amount
                 /\ T[i].assigned <=> Block(sp, T[i].trace) # {}
  BY DEF TransfersInv
<1>13. ASSUME NEW i \in DOMAIN new
       PROVE  /\ IsTransfer(new[i]) /\ Request(ch, k, new[i].trace)
              /\ new[i].asset = Asked(ch, new[i].trace).asset
              /\ new[i].assigned \in BOOLEAN /\ new[i].handled \in BOOLEAN
              /\ new[i].handled => new[i].assigned
              /\ IF new[i].trace.merges # {} THEN new[i].assigned
                 ELSE /\ new[i].amount = Asked(ch, new[i].trace).amount
                      /\ new[i].assigned <=> Block(sp, new[i].trace) # {}
  <2>1. CASE i \in DOMAIN T
    BY <1>6, <1>8, <1>12, <2>1
  <2>2. CASE \E r \in DOMAIN p : i = Len(T) + r
    <3>1. PICK r \in DOMAIN p : i = Len(T) + r
      BY <2>2
    <3>2. new[i] = row(r)
      BY <1>6, <3>1
    <3>3. /\ IsTransfer(row(r)) /\ row(r).trace.merges = {}
          /\ row(r).asset = p[r].asset /\ row(r).amount = p[r].amount
          /\ row(r).assigned = FALSE /\ row(r).handled = FALSE
      BY <1>5
    <3> QED
      BY <1>11, <3>2, <3>3
  <2> QED
    BY <1>7, <2>1, <2>2
<1>14. ASSUME NEW i \in DOMAIN new, NEW j \in DOMAIN new,
              new[i].trace.merges = {}, new[j].trace.merges = {}, i < j
       PROVE  Before(new[i].trace, new[j].trace)
  <2>1. CASE j \in DOMAIN T
    <3>1. i \in DOMAIN T
      BY <1>1, <1>6, <1>14, <2>1
    <3> QED
      BY <1>6, <1>14, <2>1, <3>1 DEF TransfersInv
  <2>2. CASE \E r \in DOMAIN p : j = Len(T) + r
    <3>1. PICK r \in DOMAIN p : j = Len(T) + r
      BY <2>2
    <3>2. new[j].trace.output = k /\ new[j].trace.nr = r
      BY <1>5, <1>6, <3>1
    <3>3. CASE i \in DOMAIN T
      <4>1. new[i].trace.output < k
        BY <1>6, <1>9, <1>12, <3>3
      <4> QED
        BY <3>2, <4>1 DEF Before
    <3>4. CASE \E q \in DOMAIN p : i = Len(T) + q
      <4>1. PICK q \in DOMAIN p : i = Len(T) + q
        BY <3>4
      <4>2. new[i].trace.output = k /\ new[i].trace.nr = q
        BY <1>5, <1>6, <4>1
      <4>3. q < r
        BY <1>1, <1>2, <1>14, <3>1, <4>1
      <4> QED
        BY <3>2, <4>2, <4>3 DEF Before
    <3> QED
      BY <1>7, <3>3, <3>4
  <2> QED
    BY <1>7, <2>1, <2>2
<1>15. ASSUME NEW b \in Traces, Request(ch, k, b), b.merges = {}
       PROVE  \E i \in DOMAIN new : new[i].trace = b
  <2>1. CASE Request(ch, h, b)
    <3>1. PICK i \in DOMAIN T : T[i].trace = b
      BY <1>15, <2>1 DEF TransfersInv
    <3>2. i \in DOMAIN new /\ new[i] = T[i]
      BY <1>1, <1>2, <1>6
    <3> QED
      BY <3>1, <3>2
  <2>2. CASE b.output = k /\ b.nr \in DOMAIN p
    <3> DEFINE r == b.nr
               c == row(r).trace
    <3>1. Len(T) + r \in DOMAIN new /\ new[Len(T) + r] = row(r)
      BY <1>1, <1>2, <1>6, <2>2
    <3>2. c \in Traces /\ c.output = b.output /\ c.nr = b.nr /\ c.merges = b.merges
      BY <1>5, <1>15, <2>2
    <3>3. c = b
      <4> HIDE DEF c
      <4> QED
        BY <3>2 DEF Traces
    <3> QED
      BY <3>1, <3>3
  <2> QED
    BY <1>8, <1>15, <2>1, <2>2
<1>16. TransfersInv(ch, k, sp, new)
  <2> HIDE DEF k
  <2> QED
    BY <1>6, <1>13, <1>14, <1>15 DEF TransfersInv
<1>17. /\ DOMAIN T \subseteq DOMAIN new /\ \A i \in DOMAIN T : new[i] = T[i]
       /\ \A i \in DOMAIN T : \A j \in DOMAIN new : j < i => j \in DOMAIN T
  BY <1>1, <1>2, <1>6
<1> QED
  BY <1>10, <1>16, <1>17 DEF new

LEMMA HandleOutputWallet ==
  ASSUME WalletInv, NEW n \in Nodes, HandleOutput(n)
  PROVE  WalletInv'
<1> DEFINE h == handledTo[n]
           sp == spentBy[n]
           T == transfers[n]
           new == Followed(chain, h + 1, T)
<1>1. /\ NodeInv(n) /\ IsTable(handledTo) /\ IsTable(transfers) /\ ChainInv(chain)
      /\ h + 1 <= Len(view[n])
  BY DEF WalletInv, HandleOutput
<1>2. /\ view[n] \in Seq(Range(view[n])) /\ Len(view[n]) = Len(sp)
      /\ SpentInv(chain, h, sp) /\ TransfersInv(chain, h, sp, T)
      /\ ListsInv(T, todo[n], aborted[n], bill[n], spending[n].stage)
  BY <1>1 DEF NodeInv
<1>3. /\ SpentInv(chain, h + 1, sp) /\ TransfersInv(chain, h + 1, sp, new)
      /\ DOMAIN T \subseteq DOMAIN new /\ \A i \in DOMAIN T : new[i] = T[i]
      /\ \A i \in DOMAIN T : \A j \in DOMAIN new : j < i => j \in DOMAIN T
  BY <1>1, <1>2, NextTransfers
<1>4. handledTo' = [handledTo EXCEPT ![n] = h + 1] /\ transfers' = [transfers EXCEPT ![n] = new]
  BY DEF HandleOutput, Followed
<1> HIDE DEF new
<1>5. /\ Changed(handledTo, handledTo', n) /\ handledTo'[n] = h + 1
      /\ Changed(transfers, transfers', n) /\ transfers'[n] = new
  BY <1>1, <1>4 DEF IsTable, Changed
<1>6. ListsInv(new, todo[n], aborted[n], bill[n], spending[n].stage)
  BY <1>2, <1>3 DEF ListsInv
<1>7. /\ UNCHANGED <<chain, deposited, view, spentBy>>
      /\ UNCHANGED <<todo, aborted, bill, spending>>
  BY DEF HandleOutput, netVars, workers
<1>8. /\ Changed(view, view', n) /\ Changed(spentBy, spentBy', n)
      /\ Changed(todo, todo', n) /\ Changed(aborted, aborted', n)
      /\ Changed(bill, bill', n) /\ Changed(spending, spending', n)
  BY <1>7, UnchangedRow DEF WalletInv
<1>9. NodeInv(n)'
  BY <1>2, <1>3, <1>5, <1>6, <1>7 DEF NodeInv
<1>10. \A m \in Nodes : Agree(spentBy'[n], spentBy[m]) /\ Agree(spentBy[m], spentBy'[n])
  BY <1>7 DEF WalletInv
<1> QED
  BY <1>5, <1>7, <1>8, <1>9, <1>10, NodeStep

LEMMA ListPendingWallet ==
  ASSUME WalletInv, NEW n \in Nodes, ListPending(n)
  PROVE  WalletInv'
<1> DEFINE T == transfers[n]
           P == Pending(n)
           L == Lowest(P, PendingLimit)
<1>1. /\ NodeInv(n) /\ IsTable(todo)
      /\ TransfersInv(chain, handledTo[n], spentBy[n], T)
      /\ ListsInv(T, todo[n], aborted[n], bill[n], spending[n].stage)
  BY DEF WalletInv, NodeInv
<1>2. DOMAIN T = 1..Len(T) /\ Len(T) \in Nat
  BY <1>1 DEF TransfersInv
<1>3. todo' = [todo EXCEPT ![n] = L]
  BY DEF ListPending
<1>4. /\ P \in SUBSET (1..Len(T))
      /\ \A i \in P : ~T[i].assigned
      /\ \A i \in DOMAIN T : ~T[i].assigned => i \in P
  BY <1>1, <1>2 DEF Pending, TransfersInv
<1> HIDE DEF P
<1>5. Beginning(L, P)
  <2>1. PendingLimit \in Nat \ {0}
    BY WalletAssumption
  <2> QED
    BY <1>2, <1>4, <2>1, CutList
<1> HIDE DEF L
<1>6. Changed(todo, todo', n) /\ todo'[n] = L
  BY <1>1, <1>3 DEF IsTable, Changed
<1>7. ListsInv(T, L, aborted[n], bill[n], spending[n].stage)
  BY <1>1, <1>2, <1>4, <1>5 DEF ListsInv, Beginning
<1>8. /\ UNCHANGED <<chain, deposited, view, spentBy, handledTo, transfers>>
      /\ UNCHANGED <<aborted, bill, spending>>
  BY DEF ListPending, netVars, tables
<1>9. Changed(aborted, aborted', n) /\ Changed(bill, bill', n) /\ Changed(spending, spending', n)
  BY <1>8, UnchangedRow DEF WalletInv
<1> QED
  BY <1>6, <1>7, <1>8, <1>9, ListsStep

LEMMA ListAssignedWallet ==
  ASSUME WalletInv, NEW n \in Nodes, ListAssigned(n)
  PROVE  WalletInv'
<1> DEFINE T == transfers[n]
           L == Lowest(Assigned(n), CashierBatch)
<1>1. /\ IsTable(bill) /\ ListsInv(T, todo[n], aborted[n], bill[n], spending[n].stage)
  BY DEF WalletInv, NodeInv
<1>2. bill[n] = {} /\ bill' = [bill EXCEPT ![n] = L]
  BY DEF ListAssigned
<1>3. \A i \in L : i \in DOMAIN T /\ T[i].assigned
  BY DEF Lowest, Assigned
<1> HIDE DEF L
<1>4. Changed(bill, bill', n) /\ bill'[n] = L
  BY <1>1, <1>2 DEF IsTable, Changed
<1>5. ListsInv(T, todo[n], aborted[n], L, spending[n].stage)
  BY <1>1, <1>2, <1>3 DEF ListsInv
<1>6. /\ UNCHANGED <<chain, deposited, view, spentBy, handledTo, transfers>>
      /\ UNCHANGED <<todo, aborted, spending>>
  BY DEF ListAssigned, netVars, tables
<1>7. Changed(todo, todo', n) /\ Changed(aborted, aborted', n) /\ Changed(spending, spending', n)
  BY <1>6, UnchangedRow DEF WalletInv
<1> QED
  BY <1>4, <1>5, <1>6, <1>7, ListsStep

LEMMA SpendWallet ==
  ASSUME WalletInv, NEW n \in Nodes, Spend(n)
  PROVE  WalletInv'
<1>1. /\ IsTable(bill) /\ IsTable(spending)
      /\ ListsInv(transfers[n], todo[n], aborted[n], bill[n], spending[n].stage)
  BY DEF WalletInv, NodeInv
<1>2. bill[n] # {} /\ spending[n].stage = "spend"
  BY DEF Spend
\* Either the head's stage changes, or the list gets shorter.
<1>3. \/ UNCHANGED bill /\ \E x : spending' = [spending EXCEPT ![n] = x]
      \/ UNCHANGED spending /\ \E B \in SUBSET bill[n] : bill' = [bill EXCEPT ![n] = B]
  <2>1. SpendError(n) => UNCHANGED spending /\ \E B \in SUBSET bill[n] : bill' = [bill EXCEPT ![n] = B]
    BY DEF SpendError
  <2>2. SkipEmpty(n) => UNCHANGED spending /\ \E B \in SUBSET bill[n] : bill' = [bill EXCEPT ![n] = B]
    BY DEF SkipEmpty
  <2>3. \A stage, tx : Proceed(n, stage, tx) =>
          UNCHANGED bill /\ \E x : spending' = [spending EXCEPT ![n] = x]
    BY DEF Proceed
  <2>4. \A tx, t : Sign(n, tx, t) =>
          UNCHANGED bill /\ \E x : spending' = [spending EXCEPT ![n] = x]
    BY <2>3, Zenon DEF Sign
  <2> QED
    BY <2>1, <2>2, <2>3, <2>4, Zenon DEF Spend
<1>4. /\ Changed(bill, bill', n) /\ Changed(spending, spending', n)
      /\ bill'[n] \in SUBSET bill[n]
      /\ spending'[n].stage # "spend" => bill'[n] # {}
  <2>1. CASE UNCHANGED bill /\ \E x : spending' = [spending EXCEPT ![n] = x]
    <3>1. bill'[n] = bill[n]
      BY <2>1
    <3>2. Changed(bill, bill', n) /\ Changed(spending, spending', n)
      BY <1>1, <2>1, UnchangedRow DEF IsTable, Changed
    <3> QED
      BY <1>2, <3>1, <3>2
  <2>2. CASE UNCHANGED spending /\ \E B \in SUBSET bill[n] : bill' = [bill EXCEPT ![n] = B]
    <3>1. bill'[n] \in SUBSET bill[n] /\ Changed(bill, bill', n)
      BY <1>1, <2>2 DEF IsTable, Changed
    <3>2. Changed(spending, spending', n) /\ spending'[n].stage = "spend"
      BY <1>1, <1>2, <2>2, UnchangedRow
    <3> QED
      BY <3>1, <3>2
  <2> QED
    BY <1>3, <2>1, <2>2
<1>5. ListsInv(transfers[n], todo[n], aborted[n], bill'[n], spending'[n].stage)
  BY <1>1, <1>4 DEF ListsInv
<1>6. /\ UNCHANGED <<chain, deposited, view, spentBy, handledTo, transfers>>
      /\ UNCHANGED <<todo, aborted>>
  BY DEF Spend, tables
<1>7. Changed(todo, todo', n) /\ Changed(aborted, aborted', n)
  BY <1>6, UnchangedRow DEF WalletInv
<1> QED
  BY <1>4, <1>5, <1>6, <1>7, ListsStep

LEMMA CreateRawWallet ==
  ASSUME WalletInv, NEW n \in Nodes, CreateRawTransaction(n)
  PROVE  WalletInv'
<1>1. /\ IsTable(bill) /\ IsTable(spending)
      /\ ListsInv(transfers[n], todo[n], aborted[n], bill[n], spending[n].stage)
  BY DEF WalletInv, NodeInv
<1>2. /\ spending[n].stage = "raw"
      /\ spending' = [spending EXCEPT ![n] = [stage |-> "handled", tx |-> NoTx]]
      /\ UNCHANGED <<chain, deposited, view, spentBy, handledTo, transfers>>
      /\ UNCHANGED <<todo, aborted, bill>>
  BY DEF CreateRawTransaction, Proceed, netVars
<1>3. Changed(spending, spending', n)
  BY <1>1, <1>2 DEF IsTable, Changed
<1>4. ListsInv(transfers[n], todo[n], aborted[n], bill[n], spending'[n].stage)
  BY <1>1, <1>2 DEF ListsInv
<1>5. Changed(todo, todo', n) /\ Changed(aborted, aborted', n) /\ Changed(bill, bill', n)
  BY <1>2, UnchangedRow DEF WalletInv
<1> QED
  BY <1>2, <1>3, <1>4, <1>5, ListsStep

LEMMA ExpireWallet ==
  ASSUME WalletInv, NEW n \in Nodes, NEW tx, ExpireRawTransaction(n, tx)
  PROVE  WalletInv'
<1>1. ListsInv(transfers[n], todo[n], aborted[n], bill[n], spending[n].stage)
  BY DEF WalletInv, NodeInv
<1>2. /\ UNCHANGED <<chain, deposited, view, spentBy, handledTo, transfers>>
      /\ UNCHANGED <<todo, aborted, bill, spending>>
  BY DEF ExpireRawTransaction, netVars, workers
<1>3. /\ Changed(todo, todo', n) /\ Changed(aborted, aborted', n)
      /\ Changed(bill, bill', n) /\ Changed(spending, spending', n)
  BY <1>2, UnchangedRow DEF WalletInv
<1> QED
  BY <1>1, <1>2, <1>3, ListsStep

LEMMA CrashWallet ==
  ASSUME WalletInv, NEW n \in Nodes, Crash(n)
  PROVE  WalletInv'
<1>1. /\ IsTable(todo) /\ IsTable(aborted) /\ IsTable(bill) /\ IsTable(spending)
  BY DEF WalletInv
<1>2. /\ todo' = [todo EXCEPT ![n] = {}] /\ aborted' = [aborted EXCEPT ![n] = {}]
      /\ bill' = [bill EXCEPT ![n] = {}] /\ spending' = [spending EXCEPT ![n] = Idle]
      /\ UNCHANGED <<chain, deposited, view, spentBy, handledTo, transfers>>
  BY DEF Crash, netVars, tables
<1>3. /\ Changed(todo, todo', n) /\ Changed(aborted, aborted', n)
      /\ Changed(bill, bill', n) /\ Changed(spending, spending', n)
      /\ todo'[n] = {} /\ bill'[n] = {} /\ spending'[n] = Idle
  BY <1>1, <1>2 DEF IsTable, Changed
<1>4. ListsInv(transfers[n], todo'[n], aborted'[n], bill'[n], spending'[n].stage)
  BY <1>3 DEF ListsInv, Idle
<1> QED
  BY <1>2, <1>3, <1>4, ListsStep

\* A change of its state leaves the rest of a transfer as it is.
LEMMA ChangedState ==
  ASSUME NEW t, IsTransfer(t), t.handled \in BOOLEAN
  PROVE  /\ LET u == [t EXCEPT !.assigned = TRUE]
            IN  /\ IsTransfer(u) /\ u.trace = t.trace /\ u.asset = t.asset
                /\ u.amount = t.amount /\ u.assigned = TRUE /\ u.handled = t.handled
         /\ LET u == [t EXCEPT !.handled = TRUE]
            IN  /\ IsTransfer(u) /\ u.trace = t.trace /\ u.asset = t.asset
                /\ u.amount = t.amount /\ u.assigned = t.assigned /\ u.handled = TRUE
         /\ LET u == [t EXCEPT !.passed = TRUE]
            IN  /\ IsTransfer(u) /\ u.trace = t.trace /\ u.asset = t.asset
                /\ u.amount = t.amount /\ u.assigned = t.assigned /\ u.handled = t.handled
<1> DEFINE Row == [trace : {t.trace}, version : {0}, asset : {t.asset}, amount : {t.amount},
                   assigned : BOOLEAN, handled : BOOLEAN, passed : BOOLEAN]
<1>1. t \in Row
  BY DEF IsTransfer
<1>2. \A u \in Row : IsTransfer(u) /\ u.trace = t.trace /\ u.asset = t.asset /\ u.amount = t.amount
  BY DEF IsTransfer
<1>3. LET u == [t EXCEPT !.assigned = TRUE]
      IN  u \in Row /\ u.assigned = TRUE /\ u.handled = t.handled
  BY <1>1
<1>4. LET u == [t EXCEPT !.handled = TRUE]
      IN  u \in Row /\ u.assigned = t.assigned /\ u.handled = TRUE
  BY <1>1
<1>5. LET u == [t EXCEPT !.passed = TRUE]
      IN  u \in Row /\ u.assigned = t.assigned /\ u.handled = t.handled
  BY <1>1
<1> HIDE DEF Row
<1> QED
  BY <1>2, <1>3, <1>4, <1>5

\* The cashier and the spent syncer touch nothing of a transfer but its state.
LEMMA SettledTransfer ==
  ASSUME NEW ch, NEW h, NEW sp, NEW T, TransfersInv(ch, h, sp, T),
         NEW i \in DOMAIN T, NEW t, IsTransfer(t), t.trace = T[i].trace,
         t.asset = T[i].asset, t.amount = T[i].amount, t.assigned = T[i].assigned,
         t.handled \in BOOLEAN, t.assigned
  PROVE  LET new == [T EXCEPT ![i] = t]
         IN  /\ TransfersInv(ch, h, sp, new)
             /\ \A td, ab, bl, stage : ListsInv(T, td, ab, bl, stage) =>
                                          ListsInv(new, td, ab, bl, stage)
<1> DEFINE new == [T EXCEPT ![i] = t]
<1>1. DOMAIN T = 1..Len(T) /\ Len(T) \in Nat /\ T \in Seq(Range(T))
  BY DEF TransfersInv
<1>2. /\ DOMAIN new = DOMAIN T
      /\ \A j \in DOMAIN T : new[j] = IF j = i THEN t ELSE T[j]
      /\ new = [j \in 1..Len(T) |-> new[j]]
  BY <1>1
<1> HIDE DEF new
<1>3. new \in Seq(Range(new))
  <2>1. \A j \in 1..Len(T) : new[j] \in Range(new)
    BY <1>1, <1>2 DEF Range
  <2> QED
    BY <1>1, <1>2, <2>1
<1>4. \A j \in DOMAIN T :
        /\ new[j].trace = T[j].trace /\ new[j].asset = T[j].asset
        /\ new[j].amount = T[j].amount /\ new[j].assigned = T[j].assigned
  BY <1>2
<1>5. \A j \in DOMAIN T : IsTransfer(new[j]) /\ new[j].handled \in BOOLEAN
                          /\ (new[j].handled => new[j].assigned)
  BY <1>2 DEF TransfersInv
<1>6. TransfersInv(ch, h, sp, new)
  <2>1. ASSUME NEW j \in DOMAIN T
        PROVE  /\ IsTransfer(new[j]) /\ Request(ch, h, new[j].trace)
               /\ new[j].asset = Asked(ch, new[j].trace).asset
               /\ new[j].assigned \in BOOLEAN /\ new[j].handled \in BOOLEAN
               /\ new[j].handled => new[j].assigned
               /\ IF new[j].trace.merges # {} THEN new[j].assigned
                  ELSE /\ new[j].amount = Asked(ch, new[j].trace).amount
                       /\ new[j].assigned <=> Block(sp, new[j].trace) # {}
    <3>1. /\ Request(ch, h, T[j].trace) /\ T[j].asset = Asked(ch, T[j].trace).asset
          /\ T[j].assigned \in BOOLEAN
          /\ IF T[j].trace.merges # {} THEN T[j].assigned
             ELSE /\ T[j].amount = Asked(ch, T[j].trace).amount
                  /\ T[j].assigned <=> Block(sp, T[j].trace) # {}
      BY DEF TransfersInv
    <3> QED
      BY <1>4, <1>5, <3>1
  <2>2. \A j, k \in DOMAIN T :
          new[j].trace.merges = {} /\ new[k].trace.merges = {} /\ j < k
            => Before(new[j].trace, new[k].trace)
    BY <1>4 DEF TransfersInv
  <2>3. \A b \in Traces : Request(ch, h, b) /\ b.merges = {}
          => \E j \in DOMAIN T : new[j].trace = b
    BY <1>4 DEF TransfersInv
  <2> QED
    BY <1>2, <1>3, <2>1, <2>2, <2>3, ZenonT(40) DEF TransfersInv
<1>7. ASSUME NEW td, NEW ab, NEW bl, NEW stage, ListsInv(T, td, ab, bl, stage)
      PROVE  ListsInv(new, td, ab, bl, stage)
  BY <1>2, <1>4, <1>7 DEF ListsInv
<1> QED
  BY <1>6, <1>7 DEF new

LEMMA MarkHandledWallet ==
  ASSUME WalletInv, NEW n \in Nodes, MarkHandled(n)
  PROVE  WalletInv'
<1> DEFINE T == transfers[n]
           i == Min(bill[n])
           t == [T[i] EXCEPT !.handled = TRUE]
           new == [T EXCEPT ![i] = t]
<1>1. /\ NodeInv(n) /\ IsTable(transfers) /\ IsTable(bill) /\ IsTable(spending)
      /\ spending[n].stage = "handled"
  BY DEF WalletInv, MarkHandled
<1>2. /\ TransfersInv(chain, handledTo[n], spentBy[n], T)
      /\ ListsInv(T, todo[n], aborted[n], bill[n], spending[n].stage)
      /\ DOMAIN T = 1..Len(T) /\ Len(T) \in Nat
  <2>1. TransfersInv(chain, handledTo[n], spentBy[n], T)
    BY <1>1 DEF NodeInv
  <2>2. T \in Seq(Range(T))
    BY <2>1 DEF TransfersInv
  <2>3. DOMAIN T = 1..Len(T) /\ Len(T) \in Nat
    BY <2>2
  <2> QED
    BY <1>1, <2>1, <2>3 DEF NodeInv
<1>3. i \in bill[n] /\ i \in DOMAIN T /\ T[i].assigned
  <2>1. bill[n] # {} /\ bill[n] \in SUBSET Nat
    BY <1>1, <1>2 DEF ListsInv
  <2>2. i \in bill[n]
    BY <2>1, LeastIsMin
  <2> QED
    BY <1>2, <2>2 DEF ListsInv
<1>4. /\ transfers' = [transfers EXCEPT ![n] = new]
      /\ bill' = [bill EXCEPT ![n] = bill[n] \ {i}]
      /\ spending' = [spending EXCEPT ![n] = Idle]
  BY DEF MarkHandled
<1> HIDE DEF i
<1>5. /\ IsTransfer(t) /\ t.trace = T[i].trace /\ t.asset = T[i].asset
      /\ t.amount = T[i].amount /\ t.assigned = T[i].assigned /\ t.handled = TRUE
  <2>1. IsTransfer(T[i]) /\ T[i].handled \in BOOLEAN
    BY <1>2, <1>3 DEF TransfersInv
  <2> QED
    BY <2>1, ChangedState
<1> HIDE DEF t
<1>6. /\ TransfersInv(chain, handledTo[n], spentBy[n], new)
      /\ ListsInv(new, todo[n], aborted[n], bill[n], spending[n].stage)
  BY <1>2, <1>3, <1>5, SettledTransfer
<1> HIDE DEF new
<1>7. /\ Changed(transfers, transfers', n) /\ transfers'[n] = new
      /\ Changed(bill, bill', n) /\ bill'[n] = bill[n] \ {i}
      /\ Changed(spending, spending', n) /\ spending'[n] = Idle
  BY <1>1, <1>4 DEF IsTable, Changed
<1>8. ListsInv(new, todo[n], aborted[n], bill'[n], spending'[n].stage)
  BY <1>6, <1>7 DEF ListsInv, Idle
<1>9. /\ UNCHANGED <<chain, deposited, view, spentBy, handledTo>>
      /\ UNCHANGED <<todo, aborted>>
  BY DEF MarkHandled, netVars
<1>10. /\ Changed(view, view', n) /\ Changed(spentBy, spentBy', n)
       /\ Changed(handledTo, handledTo', n)
       /\ Changed(todo, todo', n) /\ Changed(aborted, aborted', n)
  BY <1>9, UnchangedRow DEF WalletInv
<1>11. NodeInv(n)'
  BY <1>1, <1>6, <1>7, <1>8, <1>9 DEF NodeInv
<1>12. \A m \in Nodes : Agree(spentBy'[n], spentBy[m]) /\ Agree(spentBy[m], spentBy'[n])
  BY <1>9 DEF WalletInv
<1> QED
  BY <1>7, <1>9, <1>10, <1>11, <1>12, NodeStep

LEMMA PassWallet ==
  ASSUME WalletInv, NEW n \in Nodes, NEW i \in DOMAIN transfers[n], Pass(n, i)
  PROVE  WalletInv'
<1> DEFINE T == transfers[n]
           t == [T[i] EXCEPT !.passed = TRUE]
           new == [T EXCEPT ![i] = t]
<1>1. NodeInv(n) /\ IsTable(transfers) /\ T[i].handled
  BY DEF WalletInv, Pass, Lowest, Handled
<1>2. /\ TransfersInv(chain, handledTo[n], spentBy[n], T)
      /\ ListsInv(T, todo[n], aborted[n], bill[n], spending[n].stage)
  BY <1>1 DEF NodeInv
<1>3. T[i].assigned /\ IsTransfer(T[i]) /\ T[i].handled \in BOOLEAN
  BY <1>1, <1>2 DEF TransfersInv
<1>4. transfers' = [transfers EXCEPT ![n] = new]
  BY DEF Pass
<1>5. /\ IsTransfer(t) /\ t.trace = T[i].trace /\ t.asset = T[i].asset
      /\ t.amount = T[i].amount /\ t.assigned = T[i].assigned /\ t.handled = T[i].handled
  BY <1>3, ChangedState
<1> HIDE DEF t
<1>6. /\ TransfersInv(chain, handledTo[n], spentBy[n], new)
      /\ ListsInv(new, todo[n], aborted[n], bill[n], spending[n].stage)
  BY <1>2, <1>3, <1>5, SettledTransfer
<1> HIDE DEF new
<1>7. Changed(transfers, transfers', n) /\ transfers'[n] = new
  BY <1>1, <1>4 DEF IsTable, Changed
<1>8. /\ UNCHANGED <<chain, deposited, view, spentBy, handledTo>>
      /\ UNCHANGED <<todo, aborted, bill, spending>>
  BY DEF Pass, netVars, workers
<1>9. /\ Changed(view, view', n) /\ Changed(spentBy, spentBy', n)
      /\ Changed(handledTo, handledTo', n)
      /\ Changed(todo, todo', n) /\ Changed(aborted, aborted', n)
      /\ Changed(bill, bill', n) /\ Changed(spending, spending', n)
  BY <1>8, UnchangedRow DEF WalletInv
<1>10. NodeInv(n)'
  BY <1>1, <1>6, <1>7, <1>8 DEF NodeInv
<1>11. \A m \in Nodes : Agree(spentBy'[n], spentBy[m]) /\ Agree(spentBy[m], spentBy'[n])
  BY <1>8 DEF WalletInv
<1> QED
  BY <1>7, <1>8, <1>9, <1>10, <1>11, NodeStep
-----------------------------------------------------------------------------
(***************************************************************************)
(* The assigner's next transfer.                                           *)
(***************************************************************************)

\* It has no outputs, and the earlier transfers of its asset have theirs
\* unless the round has given the asset up.
LEMMA FirstInLine ==
  ASSUME NEW n \in Nodes, ChainInv(chain), NodeInv(n), todo[n] # {}
  PROVE  LET h == handledTo[n]
             sp == spentBy[n]
             T == transfers[n]
             i == Min(todo[n])
             b == T[i].trace
         IN  /\ i \in todo[n] /\ i \in DOMAIN T /\ IsTransfer(T[i])
             /\ T[i].assigned = FALSE /\ T[i].version = 0 /\ T[i].amount \in Nat \ {0}
             /\ Request(chain, h, b) /\ b.merges = {} /\ Block(sp, b) = {}
             /\ T[i].asset = Asked(chain, b).asset /\ T[i].amount = Asked(chain, b).amount
             /\ T[i].asset \notin aborted[n] =>
                  \A c \in Traces :
                    /\ Request(chain, h, c) /\ c.merges = {} /\ Before(c, b)
                    /\ Asked(chain, c).asset = T[i].asset
                    => Block(sp, c) # {}
<1> DEFINE h == handledTo[n]
           sp == spentBy[n]
           T == transfers[n]
           i == Min(todo[n])
           b == T[i].trace
<1>1. /\ SpentInv(chain, h, sp) /\ TransfersInv(chain, h, sp, T)
      /\ ListsInv(T, todo[n], aborted[n], bill[n], spending[n].stage)
  BY DEF NodeInv
<1>2. DOMAIN T = 1..Len(T) /\ Len(T) \in Nat
  <2>1. T \in Seq(Range(T))
    BY <1>1 DEF TransfersInv
  <2> HIDE DEF T
  <2> QED
    BY <2>1
<1>3. i \in todo[n] /\ (\A j \in todo[n] : i <= j) /\ i \in DOMAIN T /\ ~T[i].assigned
  <2>1. todo[n] \in SUBSET Nat
    BY <1>1, <1>2 DEF ListsInv
  <2>2. i \in todo[n] /\ \A j \in todo[n] : i <= j
    BY <2>1, LeastIsMin
  <2> QED
    BY <1>1, <2>2 DEF ListsInv
<1> HIDE DEF i, T
<1>4. /\ IsTransfer(T[i]) /\ Request(chain, h, b) /\ T[i].assigned \in BOOLEAN
      /\ b.merges = {} /\ Block(sp, b) = {}
      /\ T[i].asset = Asked(chain, b).asset /\ T[i].amount = Asked(chain, b).amount
  BY <1>1, <1>3 DEF TransfersInv
<1>5. T[i].version = 0
  BY <1>4 DEF IsTransfer
<1>6. T[i].amount \in Nat \ {0}
  <2>1. DOMAIN chain = 1..Len(chain) /\ Len(chain) \in Nat
    BY DEF ChainInv
  <2>2. b.output \in DOMAIN chain /\ b.nr \in DOMAIN chain[b.output].pays
    BY <1>1, <1>4, <2>1 DEF Request, SpentInv
  <2>3. chain[b.output].pays \in Seq(Pays)
    BY <2>2 DEF ChainInv
  <2>4. Asked(chain, b) \in Pays
    BY <2>2, <2>3 DEF Asked
  <2> QED
    BY <1>4, <2>4 DEF Pays
<1>7. ASSUME T[i].asset \notin aborted[n], NEW c \in Traces, Request(chain, h, c),
             c.merges = {}, Before(c, b), Asked(chain, c).asset = T[i].asset
      PROVE  Block(sp, c) # {}
  <2>1. PICK j \in DOMAIN T : T[j].trace = c
    BY <1>1, <1>7 DEF TransfersInv
  <2>2. /\ T[j].asset = Asked(chain, c).asset /\ T[j].assigned \in BOOLEAN
        /\ T[j].assigned <=> Block(sp, c) # {}
    BY <1>1, <1>7, <2>1 DEF TransfersInv
  <2>3. /\ c.output \in Nat /\ c.nr \in Nat /\ b.output \in Nat /\ b.nr \in Nat
        /\ ~Before(b, c) /\ b # c
    <3>1. c \in Traces /\ b \in Traces
      BY <1>4, <1>7 DEF Request
    <3>2. c.output \in Nat /\ c.nr \in Nat /\ b.output \in Nat /\ b.nr \in Nat
      BY <3>1 DEF Traces
    <3> HIDE DEF b
    <3> QED
      BY <1>7, <3>2 DEF Before
  <2>4. j < i
    <3>1. i # j
      BY <2>1, <2>3
    <3>2. ~(i < j)
      BY <1>1, <1>3, <1>4, <1>7, <2>1, <2>3 DEF TransfersInv
    <3> QED
      BY <1>2, <1>3, <3>1, <3>2
  <2>5. j \notin todo[n]
    BY <1>2, <1>3, <2>4
  <2>6. T[j].assigned
    BY <1>1, <1>3, <1>7, <2>2, <2>4, <2>5 DEF ListsInv
  <2> QED
    BY <2>2, <2>6
<1>8. T[i].assigned = FALSE
  BY <1>3, <1>4
<1> QED
  BY <1>3, <1>4, <1>5, <1>6, <1>7, <1>8 DEF i, T

\* The outputs it picks are its block, and when they do not pay for it and
\* are merged the merge's.
LEMMA Giving ==
  ASSUME NEW n \in Nodes, ChainInv(chain), NodeInv(n), todo[n] # {},
         transfers[n][Min(todo[n])].asset \notin aborted[n]
  PROVE  LET t == transfers[n][Min(todo[n])]
             ids == Chosen(t, ListUnspent(n, t.asset))
             m == [t.trace EXCEPT !.merges = ids]
         IN  /\ Covers(ids, t.amount) =>
                  NextBlock(chain, handledTo[n], spentBy[n], t.trace, ids)
             /\ ~Covers(ids, t.amount) /\ MustMerge(ids) =>
                  /\ NextBlock(chain, handledTo[n], spentBy[n], m, ids)
                  /\ m.merges # {} /\ Asked(chain, m) = Asked(chain, t.trace)
<1> DEFINE h == handledTo[n]
           sp == spentBy[n]
           t == transfers[n][Min(todo[n])]
           b == t.trace
           V == {k \in DOMAIN sp : chain[k].asset = t.asset /\ sp[k] = NoTrace}
           ids == Chosen(t, ListUnspent(n, t.asset))
           m == [b EXCEPT !.merges = ids]
<1>1. /\ t.version = 0 /\ t.amount \in Nat \ {0}
      /\ Request(chain, h, b) /\ b.merges = {} /\ Block(sp, b) = {}
      /\ t.asset = Asked(chain, b).asset /\ t.amount = Asked(chain, b).amount
      /\ \A c \in Traces :
           /\ Request(chain, h, c) /\ c.merges = {} /\ Before(c, b)
           /\ Asked(chain, c).asset = t.asset
           => Block(sp, c) # {}
  BY FirstInLine
<1>2. /\ DOMAIN chain = 1..Len(chain) /\ Len(chain) \in Nat
      /\ DOMAIN sp = 1..Len(sp) /\ Len(sp) \in Nat /\ Len(sp) <= Len(chain)
  BY DEF ChainInv, NodeInv, SpentInv
<1>3. ListUnspent(n, t.asset) = Lowest(V, SpendLimit)
  BY DEF ListUnspent
<1> HIDE DEF t
<1>4. /\ Beginning(ids, V) /\ IsFiniteSet(ids)
      /\ Cardinality(ids) \in Nat /\ Cardinality(ids) <= SpendLimit
      /\ Enough(chain, ids, t.amount) => ids # {}
      /\ \A P \in SUBSET ids :
           Beginning(P, ids) /\ P # ids => ~Enough(chain, P, t.amount)
  <2>1. V \in SUBSET (1..Len(chain))
    BY <1>2
  <2> HIDE DEF V
  <2> QED
    BY <1>1, <1>2, <1>3, <2>1, Choice
<1>5. Covers(ids, t.amount) <=> Enough(chain, ids, t.amount)
  BY DEF Covers, Sum, Enough
<1> HIDE DEF ids
<1>6. /\ ids \in SUBSET DOMAIN sp
      /\ \A k \in ids :
           /\ sp[k] = NoTrace /\ chain[k].asset = t.asset
           /\ \A j \in 1..k : chain[j].asset = chain[k].asset => j \in ids \/ sp[j] # NoTrace
  <2>1. ids \subseteq V
    BY <1>4 DEF Beginning
  <2>2. ASSUME NEW k \in ids, NEW j \in 1..k, chain[j].asset = chain[k].asset,
               sp[j] = NoTrace
        PROVE  j \in ids
    <3>1. k \in V /\ k \in DOMAIN sp /\ chain[k].asset = t.asset
      BY <2>1
    <3>2. j \in DOMAIN sp /\ k \in Nat /\ j \in Nat /\ j <= k
      BY <1>2, <3>1
    <3>3. j \in V
      BY <2>2, <3>1, <3>2
    <3> HIDE DEF V
    <3> QED
      BY <1>4, <3>2, <3>3 DEF Beginning
  <2> QED
    BY <2>1, <2>2
<1>7. ASSUME NEW c \in Traces, c.output = b.output, c.nr = b.nr, Exact(chain, c, ids)
      PROVE  NextBlock(chain, h, sp, c, ids)
  <2>1. Request(chain, h, c) /\ Asked(chain, c) = Asked(chain, b)
    BY <1>1, <1>7 DEF Request, Asked
  <2>2. Payment(c) = b
    <3>1. b \in Traces
      BY <1>1 DEF Request
    <3>2. Payment(c) \in Traces /\ Payment(c).merges = {}
          /\ Payment(c).output = b.output /\ Payment(c).nr = b.nr
      BY <1>7, PaymentTrace
    <3> HIDE DEF b
    <3> QED
      BY <1>1, <3>1, <3>2, SMTT(30) DEF Traces, b
  <2>3. \A d : Before(d, c) <=> Before(d, b)
    BY <1>7 DEF Before
  <2> HIDE DEF b
  <2> QED
    BY <1>1, <1>6, <1>7, <2>1, <2>2, <2>3 DEF NextBlock
<1>8. ASSUME Covers(ids, t.amount)
      PROVE  NextBlock(chain, h, sp, b, ids)
  <2>1. Exact(chain, b, ids)
    BY <1>1, <1>4, <1>5, <1>8 DEF Exact
  <2>2. b \in Traces
    BY <1>1 DEF Request
  <2> QED
    BY <1>7, <2>1, <2>2
<1>9. ASSUME ~Covers(ids, t.amount), MustMerge(ids)
      PROVE  /\ NextBlock(chain, h, sp, m, ids)
             /\ m.merges # {} /\ Asked(chain, m) = Asked(chain, b)
  <2>1. Cardinality(ids) = SpendLimit /\ ids # {}
    <3>1. SpendLimit # 0
      BY WalletAssumption
    <3> QED
      BY <1>9, <3>1, FS_EmptySet DEF MustMerge
  <2>2. /\ m \in Traces /\ m.merges = ids /\ m.output = b.output /\ m.nr = b.nr
    <3>1. b \in Traces
      BY <1>1 DEF Request
    <3>2. ids \in SUBSET Nat
      BY <1>2, <1>6
    <3> HIDE DEF b
    <3> QED
      BY <3>1, <3>2 DEF Traces
  <2> HIDE DEF m
  <2>3. Asked(chain, m) = Asked(chain, b)
    BY <2>2 DEF Asked
  <2>4. \A P \in SUBSET ids : Beginning(P, ids) => ~Enough(chain, P, t.amount)
    BY <1>4, <1>5, <1>9
  <2>5. Exact(chain, m, ids)
    BY <1>1, <2>1, <2>2, <2>3, <2>4 DEF Exact
  <2> QED
    BY <1>7, <2>1, <2>2, <2>3, <2>5
<1> QED
  BY <1>8, <1>9 DEF t, ids
\* A transfer that gets outputs is assigned; no other transfer's block changes.
LEMMA AssignedTransfer ==
  ASSUME NEW ch, NEW h, NEW sp, NEW T, NEW ids, NEW i \in DOMAIN T,
         SpentInv(ch, h, sp), TransfersInv(ch, h, sp, T),
         T[i].trace.merges = {}, NextBlock(ch, h, sp, T[i].trace, ids)
  PROVE  LET new == [T EXCEPT ![i].assigned = TRUE]
         IN  /\ TransfersInv(ch, h, Given(sp, ids, T[i].trace), new)
             /\ DOMAIN new = DOMAIN T /\ new[i].assigned
             /\ \A j \in DOMAIN T : new[j].asset = T[j].asset
             /\ \A j \in DOMAIN T : j # i => new[j] = T[j]
<1> DEFINE b == T[i].trace
           t == [T[i] EXCEPT !.assigned = TRUE]
           new == [T EXCEPT ![i] = t]
           sp2 == Given(sp, ids, b)
<1>1. DOMAIN T = 1..Len(T) /\ Len(T) \in Nat /\ T \in Seq(Range(T))
  BY DEF TransfersInv
<1>2. /\ IsTransfer(t) /\ t.trace = b /\ t.asset = T[i].asset
      /\ t.amount = T[i].amount /\ t.assigned = TRUE /\ t.handled = T[i].handled
  <2>1. IsTransfer(T[i]) /\ T[i].handled \in BOOLEAN
    BY DEF TransfersInv
  <2> QED
    BY <2>1, ChangedState
<1>3. [T EXCEPT ![i].assigned = TRUE] = new
  OBVIOUS
<1> HIDE DEF t
<1>4. /\ DOMAIN new = DOMAIN T
      /\ \A j \in DOMAIN T : new[j] = IF j = i THEN t ELSE T[j]
      /\ new = [j \in 1..Len(T) |-> new[j]]
  BY <1>1
<1> HIDE DEF new
<1>5. new \in Seq(Range(new))
  <2>1. \A j \in 1..Len(T) : new[j] \in Range(new)
    BY <1>1, <1>4 DEF Range
  <2> QED
    BY <1>1, <1>4, <2>1
<1>6. \A j \in DOMAIN T :
        /\ new[j].trace = T[j].trace /\ new[j].asset = T[j].asset
        /\ new[j].amount = T[j].amount /\ new[j].handled = T[j].handled
  BY <1>2, <1>4
<1>7. ids # {} /\ Block(sp2, b) = ids /\ \A c \in Traces : c # b => Block(sp2, c) = Block(sp, c)
  <2>1. ids # {}
    BY DEF NextBlock, Exact
  <2> QED
    BY <2>1, NewBlock
<1>8. ASSUME NEW j \in DOMAIN T, j # i, T[j].trace.merges = {}
      PROVE  T[j].trace # b
  <2>1. b \in Traces
    BY DEF NextBlock, Request
  <2>2. b.output \in Nat /\ b.nr \in Nat
    BY <2>1 DEF Traces
  <2>3. ~Before(b, b)
    <3> HIDE DEF b
    <3> QED
      BY <2>2 DEF Before
  <2>4. i < j \/ j < i
    BY <1>1, <1>8
  <2>5. Before(b, T[j].trace) \/ Before(T[j].trace, b)
    BY <1>8, <2>4 DEF TransfersInv
  <2> QED
    BY <2>3, <2>5
<1> HIDE DEF sp2
<1>9. ASSUME NEW j \in DOMAIN T
      PROVE  /\ IsTransfer(new[j]) /\ Request(ch, h, new[j].trace)
             /\ new[j].asset = Asked(ch, new[j].trace).asset
             /\ new[j].assigned \in BOOLEAN /\ new[j].handled \in BOOLEAN
             /\ new[j].handled => new[j].assigned
             /\ IF new[j].trace.merges # {} THEN new[j].assigned
                ELSE /\ new[j].amount = Asked(ch, new[j].trace).amount
                     /\ new[j].assigned <=> Block(sp2, new[j].trace) # {}
  <2>1. /\ IsTransfer(T[j]) /\ Request(ch, h, T[j].trace)
        /\ T[j].asset = Asked(ch, T[j].trace).asset
        /\ T[j].assigned \in BOOLEAN /\ T[j].handled \in BOOLEAN
        /\ T[j].handled => T[j].assigned
        /\ IF T[j].trace.merges # {} THEN T[j].assigned
           ELSE /\ T[j].amount = Asked(ch, T[j].trace).amount
                /\ T[j].assigned <=> Block(sp, T[j].trace) # {}
    BY DEF TransfersInv
  <2>2. T[j].trace \in Traces
    BY <2>1 DEF Request
  <2>3. CASE j = i
    <3>1. new[j] = t /\ T[j].trace = b
      BY <1>4, <2>3
    <3> QED
      BY <1>2, <1>7, <2>1, <2>3, <3>1
  <2>4. CASE j # i
    <3>1. new[j] = T[j]
      BY <1>4, <2>4
    <3>2. T[j].trace.merges = {} => Block(sp2, T[j].trace) = Block(sp, T[j].trace)
      BY <1>7, <1>8, <2>2, <2>4
    <3> QED
      BY <2>1, <3>1, <3>2
  <2> QED
    BY <2>3, <2>4
<1>10. \A j, k \in DOMAIN T :
         new[j].trace.merges = {} /\ new[k].trace.merges = {} /\ j < k
           => Before(new[j].trace, new[k].trace)
  BY <1>6 DEF TransfersInv
<1>11. \A c \in Traces : Request(ch, h, c) /\ c.merges = {}
         => \E j \in DOMAIN T : new[j].trace = c
  BY <1>6 DEF TransfersInv
<1>12. TransfersInv(ch, h, sp2, new)
  BY <1>4, <1>5, <1>9, <1>10, <1>11 DEF TransfersInv
<1>13. new[i].assigned /\ \A j \in DOMAIN T : j # i => new[j] = T[j]
  BY <1>2, <1>4
<1> QED
  BY <1>3, <1>4, <1>6, <1>12, <1>13 DEF sp2

\* A merge is a transfer, with a trace of its own.
LEMMA MergeItself ==
  ASSUME NEW b \in Traces, NEW asset, NEW amount, NEW ids
  PROVE  LET m == [NewTransfer(b.output, b.nr, asset, amount, ids)
                     EXCEPT !.version = 0, !.assigned = TRUE]
         IN  /\ m.trace = [b EXCEPT !.merges = ids] /\ m.asset = asset
             /\ m.assigned = TRUE /\ m.handled = FALSE /\ IsTransfer(m)
<1> DEFINE c == [b EXCEPT !.merges = ids]
           u == NewTransfer(b.output, b.nr, asset, amount, ids)
           m == [u EXCEPT !.version = 0, !.assigned = TRUE]
           Row == [trace : {c}, version : {0}, asset : {asset}, amount : {amount},
                   assigned : BOOLEAN, handled : BOOLEAN, passed : BOOLEAN]
<1>1. c = [output |-> b.output, nr |-> b.nr, merges |-> ids]
  BY DEF Traces
<1> HIDE DEF c
<1>2. u \in Row /\ u.handled = FALSE
  BY <1>1 DEF NewTransfer
<1> HIDE DEF u
<1>3. m \in Row /\ m.assigned = TRUE /\ m.handled = FALSE
  BY <1>2
<1> HIDE DEF m
<1>4. m.trace = c /\ m.asset = asset /\ IsTransfer(m)
  BY <1>3 DEF IsTransfer
<1> QED
  BY <1>3, <1>4 DEF m, u, c

\* A merge is a transfer more, which is assigned.
LEMMA MergedTransfer ==
  ASSUME NEW ch, NEW h, NEW sp, NEW T, NEW ids, NEW m,
         SpentInv(ch, h, sp), TransfersInv(ch, h, sp, T), NextBlock(ch, h, sp, m.trace, ids),
         IsTransfer(m), m.trace.merges # {}, m.asset = Asked(ch, m.trace).asset,
         m.assigned = TRUE, m.handled = FALSE
  PROVE  LET new == Append(T, m)
         IN  /\ TransfersInv(ch, h, Given(sp, ids, m.trace), new)
             /\ DOMAIN T \subseteq DOMAIN new /\ \A j \in DOMAIN T : new[j] = T[j]
             /\ \A i \in DOMAIN T : \A j \in DOMAIN new : j < i => j \in DOMAIN T
<1> DEFINE new == Append(T, m)
           sp2 == Given(sp, ids, m.trace)
<1>1. DOMAIN T = 1..Len(T) /\ Len(T) \in Nat /\ T \in Seq(Range(T))
  BY DEF TransfersInv
<1>2. /\ new \in Seq(Range(new)) /\ DOMAIN new = 1..(Len(T) + 1)
      /\ \A i \in DOMAIN T : new[i] = T[i]
      /\ new[Len(T) + 1] = m
  BY <1>1, Appended
<1> HIDE DEF new
<1>3. \A i \in DOMAIN new : i \in DOMAIN T \/ i = Len(T) + 1
  BY <1>1, <1>2
<1>4. DOMAIN T \subseteq DOMAIN new
  BY <1>1, <1>2
<1>5. \A c \in Traces : c.merges = {} => Block(sp2, c) = Block(sp, c)
  BY NewBlock
<1>6. Request(ch, h, m.trace)
  BY DEF NextBlock
<1> HIDE DEF sp2
<1>7. ASSUME NEW j \in DOMAIN new
      PROVE  /\ IsTransfer(new[j]) /\ Request(ch, h, new[j].trace)
             /\ new[j].asset = Asked(ch, new[j].trace).asset
             /\ new[j].assigned \in BOOLEAN /\ new[j].handled \in BOOLEAN
             /\ new[j].handled => new[j].assigned
             /\ IF new[j].trace.merges # {} THEN new[j].assigned
                ELSE /\ new[j].amount = Asked(ch, new[j].trace).amount
                     /\ new[j].assigned <=> Block(sp2, new[j].trace) # {}
  <2>1. CASE j \in DOMAIN T
    <3>1. /\ IsTransfer(T[j]) /\ Request(ch, h, T[j].trace)
          /\ T[j].asset = Asked(ch, T[j].trace).asset
          /\ T[j].assigned \in BOOLEAN /\ T[j].handled \in BOOLEAN
          /\ T[j].handled => T[j].assigned
          /\ IF T[j].trace.merges # {} THEN T[j].assigned
             ELSE /\ T[j].amount = Asked(ch, T[j].trace).amount
                  /\ T[j].assigned <=> Block(sp, T[j].trace) # {}
      BY <2>1 DEF TransfersInv
    <3>2. T[j].trace \in Traces /\ new[j] = T[j]
      BY <1>2, <2>1, <3>1 DEF Request
    <3> QED
      BY <1>5, <3>1, <3>2
  <2>2. CASE j = Len(T) + 1
    BY <1>2, <1>6, <2>2
  <2> QED
    BY <1>3, <2>1, <2>2
<1>8. ASSUME NEW j \in DOMAIN new, NEW k \in DOMAIN new,
             new[j].trace.merges = {}, new[k].trace.merges = {}, j < k
      PROVE  Before(new[j].trace, new[k].trace)
  <2>1. j \in DOMAIN T /\ k \in DOMAIN T
    BY <1>2, <1>3, <1>8
  <2> QED
    BY <1>2, <1>8, <2>1 DEF TransfersInv
<1>9. \A c \in Traces : Request(ch, h, c) /\ c.merges = {}
        => \E j \in DOMAIN new : new[j].trace = c
  BY <1>2, <1>4 DEF TransfersInv
<1>10. TransfersInv(ch, h, sp2, new)
  BY <1>2, <1>7, <1>8, <1>9 DEF TransfersInv
<1>11. \A i \in DOMAIN T : \A j \in DOMAIN new : j < i => j \in DOMAIN T
  BY <1>1, <1>2
<1> QED
  BY <1>2, <1>4, <1>10, <1>11 DEF new, sp2

\* The assigner's first transfer leaves the list with outputs, or with its
\* asset given up.
LEMMA ShorterList ==
  ASSUME NEW T, NEW td, NEW ab, NEW bl, NEW stage, NEW new, NEW gaveUp,
         ListsInv(T, td, ab, bl, stage), td # {}, T \in Seq(Range(T)),
         DOMAIN T \subseteq DOMAIN new,
         \A j \in DOMAIN T : new[j].asset = T[j].asset,
         \A j \in DOMAIN T : j # Min(td) => new[j].assigned = T[j].assigned,
         T[Min(td)].assigned => new[Min(td)].assigned,
         \A i \in DOMAIN T : \A j \in DOMAIN new : j < i => j \in DOMAIN T,
         ab \subseteq gaveUp,
         new[Min(td)].assigned \/ T[Min(td)].asset \in gaveUp
  PROVE  ListsInv(new, td \ {Min(td)}, IF Cardinality(td) = 1 THEN {} ELSE gaveUp, bl, stage)
<1> DEFINE i == Min(td)
           rest == td \ {i}
           ab2 == IF Cardinality(td) = 1 THEN {} ELSE gaveUp
<1>1. DOMAIN T = 1..Len(T) /\ Len(T) \in Nat
  OBVIOUS
<1>2. td \in SUBSET (1..Len(T))
  BY <1>1 DEF ListsInv
<1>3. i \in td
  BY <1>2, LeastIsMin
<1>4. IsFiniteSet(td)
  BY <1>1, <1>2, FinitePositions
<1> HIDE DEF i
<1>5. rest # {} => ab2 = gaveUp
  <2> SUFFICES ASSUME Cardinality(td) = 1 PROVE rest = {}
    OBVIOUS
  <2>1. PICK x : td = {x}
    BY <1>4, FS_Singleton
  <2> QED
    BY <1>3, <2>1
<1> HIDE DEF ab2
<1>6. \A x \in rest : x \in DOMAIN new /\ ~new[x].assigned
  BY DEF ListsInv, i
<1>7. ASSUME NEW x \in rest, NEW j \in DOMAIN new, j < x, ~new[j].assigned
      PROVE  j \in rest \/ new[j].asset \in ab2
  <2>1. j \in DOMAIN T /\ x \in td /\ ab2 = gaveUp
    BY <1>1, <1>2, <1>5, <1>7
  <2>2. ~T[j].assigned
    BY <1>7, <2>1 DEF i
  <2>3. j \in td \/ T[j].asset \in ab
    BY <1>7, <2>1, <2>2 DEF ListsInv
  <2>4. new[j].asset = T[j].asset
    BY <2>1
  <2>5. CASE j = i
    <3>1. T[j].asset \in gaveUp
      BY <1>7, <2>5 DEF i
    <3> QED
      BY <2>1, <2>4, <3>1
  <2>6. CASE j # i
    BY <2>1, <2>3, <2>4, <2>6
  <2> QED
    BY <2>5, <2>6
<1>8. \A x \in bl : x \in DOMAIN new /\ new[x].assigned
  BY DEF ListsInv
<1>9. stage # "spend" => bl # {}
  BY DEF ListsInv
<1>10. ListsInv(new, rest, ab2, bl, stage)
  BY <1>6, <1>7, <1>8, <1>9 DEF ListsInv
<1> QED
  BY <1>10 DEF ab2, i
\* What is left to show of the assigner's step.
LEMMA AssignStep ==
  ASSUME WalletInv, NEW n \in Nodes, AssignNext(n),
         NEW gaveUp, RoundGoesOn(n, gaveUp),
         Changed(spentBy, spentBy', n), Changed(transfers, transfers', n),
         SpentInv(chain, handledTo[n], spentBy'[n]),
         TransfersInv(chain, handledTo[n], spentBy'[n], transfers'[n]),
         Len(spentBy'[n]) = Len(spentBy[n]),
         ListsInv(transfers'[n], todo[n] \ {Min(todo[n])},
                  IF Cardinality(todo[n]) = 1 THEN {} ELSE gaveUp,
                  bill[n], spending[n].stage),
         \A m \in Nodes : m # n =>
           Agree(spentBy'[n], spentBy[m]) /\ Agree(spentBy[m], spentBy'[n])
  PROVE  WalletInv'
<1>1. /\ NodeInv(n) /\ IsTable(todo) /\ IsTable(aborted)
  BY DEF WalletInv
<1>2. /\ todo' = [todo EXCEPT ![n] = todo[n] \ {Min(todo[n])}]
      /\ aborted' = [aborted EXCEPT ![n] = IF Cardinality(todo[n]) = 1 THEN {} ELSE gaveUp]
      /\ UNCHANGED <<chain, deposited, view, handledTo>>
      /\ UNCHANGED <<bill, spending>>
  BY DEF AssignNext, RoundGoesOn, netVars
<1>3. /\ Changed(todo, todo', n) /\ todo'[n] = todo[n] \ {Min(todo[n])}
      /\ Changed(aborted, aborted', n)
      /\ aborted'[n] = IF Cardinality(todo[n]) = 1 THEN {} ELSE gaveUp
  BY <1>1, <1>2 DEF IsTable, Changed
<1>4. /\ Changed(view, view', n) /\ Changed(handledTo, handledTo', n)
      /\ Changed(bill, bill', n) /\ Changed(spending, spending', n)
  BY <1>2, UnchangedRow DEF WalletInv
<1>5. NodeInv(n)'
  BY <1>1, <1>2, <1>3 DEF NodeInv
<1> QED
  BY <1>2, <1>3, <1>4, <1>5, NodeStep

\* The tables of a node that gives a block away.
LEMMA SpentTable ==
  ASSUME WalletInv, NEW n \in Nodes, NEW b, NEW ids, Spent(n, ids, b),
         NextBlock(chain, handledTo[n], spentBy[n], b, ids)
  PROVE  /\ spentBy'[n] = Given(spentBy[n], ids, b) /\ Changed(spentBy, spentBy', n)
         /\ SpentInv(chain, handledTo[n], spentBy'[n])
         /\ Len(spentBy'[n]) = Len(spentBy[n])
         /\ \A m \in Nodes : m # n =>
              Agree(spentBy'[n], spentBy[m]) /\ Agree(spentBy[m], spentBy'[n])
<1> DEFINE new == Given(spentBy[n], ids, b)
<1>1. /\ IsTable(spentBy) /\ SpentInv(chain, handledTo[n], spentBy[n])
  BY DEF WalletInv, NodeInv
<1>2. spentBy' = [spentBy EXCEPT ![n] = new]
  BY DEF Spent, Given
<1>3. SpentInv(chain, handledTo[n], new)
  BY <1>1, SpentStep
<1>4. Len(new) = Len(spentBy[n])
  <2>1. DOMAIN spentBy[n] = 1..Len(spentBy[n]) /\ Len(spentBy[n]) \in Nat
    BY <1>1 DEF SpentInv
  <2> QED
    BY <2>1 DEF Given
<1>5. ASSUME NEW m \in Nodes
      PROVE  Agree(new, spentBy[m]) /\ Agree(spentBy[m], new)
  <2>1. SpentInv(chain, handledTo[m], spentBy[m]) /\ Agree(spentBy[n], spentBy[m])
    BY DEF WalletInv, NodeInv
  <2> QED
    BY <1>1, <2>1, AgreeStep
<1> HIDE DEF new
<1>6. Changed(spentBy, spentBy', n) /\ spentBy'[n] = new
  BY <1>1, <1>2 DEF IsTable, Changed
<1> QED
  BY <1>3, <1>4, <1>5, <1>6 DEF new

LEMMA AssignNextWallet ==
  ASSUME WalletInv, NEW n \in Nodes, AssignNext(n)
  PROVE  WalletInv'
<1> DEFINE h == handledTo[n]
           sp == spentBy[n]
           T == transfers[n]
           i == Min(todo[n])
           t == T[i]
           ids == Chosen(t, ListUnspent(n, t.asset))
           mt == [t.trace EXCEPT !.merges = ids]
           m == [NewTransfer(t.trace.output, t.trace.nr, t.asset, Sum(ids), ids)
                   EXCEPT !.version = t.version, !.assigned = TRUE]
<1>1. /\ NodeInv(n) /\ ChainInv(chain) /\ todo[n] # {}
      /\ IsTable(transfers) /\ IsTable(spentBy)
      /\ SpentInv(chain, h, sp) /\ TransfersInv(chain, h, sp, T)
      /\ ListsInv(T, todo[n], aborted[n], bill[n], spending[n].stage)
      /\ T \in Seq(Range(T))
  BY DEF WalletInv, NodeInv, TransfersInv, AssignNext
<1>2. /\ i \in todo[n] /\ i \in DOMAIN T /\ IsTransfer(t) /\ t.assigned = FALSE
      /\ t.version = 0 /\ t.trace \in Traces /\ t.trace.merges = {}
      /\ t.asset = Asked(chain, t.trace).asset
  BY <1>1, FirstInLine DEF Request
<1>3. t.asset \notin aborted[n] =>
        /\ Covers(ids, t.amount) => NextBlock(chain, h, sp, t.trace, ids)
        /\ ~Covers(ids, t.amount) /\ MustMerge(ids) =>
             /\ NextBlock(chain, h, sp, mt, ids)
             /\ mt.merges # {} /\ Asked(chain, mt) = Asked(chain, t.trace)
  BY <1>1, Giving
<1>4. \/ /\ t.asset \in aborted[n]
         /\ RoundGoesOn(n, aborted[n]) /\ UNCHANGED <<spentBy, transfers>>
      \/ /\ t.asset \notin aborted[n] /\ Covers(ids, t.amount)
         /\ Assign(n, i, ids) /\ RoundGoesOn(n, aborted[n])
      \/ /\ t.asset \notin aborted[n] /\ ~Covers(ids, t.amount)
         /\ RoundGoesOn(n, aborted[n] \cup {t.asset})
         /\ IF MustMerge(ids) THEN Merge(n, i, ids) ELSE UNCHANGED <<spentBy, transfers>>
  BY DEF AssignNext, Abort
<1>5. ASSUME NEW gaveUp, RoundGoesOn(n, gaveUp), UNCHANGED <<spentBy, transfers>>,
             aborted[n] \subseteq gaveUp, t.asset \in gaveUp
      PROVE  WalletInv'
  <2>1. Changed(spentBy, spentBy', n) /\ Changed(transfers, transfers', n)
    BY <1>1, <1>5, UnchangedRow
  <2>2. ListsInv(T, todo[n] \ {i}, IF Cardinality(todo[n]) = 1 THEN {} ELSE gaveUp,
                 bill[n], spending[n].stage)
    <3>1. \A x \in DOMAIN T : \A j \in DOMAIN T : j < x => j \in DOMAIN T
      OBVIOUS
    <3> QED
      BY <1>1, <1>5, <3>1, ShorterList
  <2>3. \A k \in Nodes : Agree(spentBy'[n], spentBy[k]) /\ Agree(spentBy[k], spentBy'[n])
    BY <1>5 DEF WalletInv
  <2> QED
    BY <1>1, <1>5, <2>1, <2>2, <2>3, AssignStep
<1>6. CASE /\ t.asset \in aborted[n]
           /\ RoundGoesOn(n, aborted[n]) /\ UNCHANGED <<spentBy, transfers>>
  BY <1>5, <1>6
<1>7. CASE /\ t.asset \notin aborted[n] /\ Covers(ids, t.amount)
           /\ Assign(n, i, ids) /\ RoundGoesOn(n, aborted[n])
  <2> DEFINE new == [T EXCEPT ![i].assigned = TRUE]
  <2>1. NextBlock(chain, h, sp, t.trace, ids)
    BY <1>3, <1>7
  <2>2. Spent(n, ids, t.trace) /\ transfers' = [transfers EXCEPT ![n] = new]
    BY <1>7 DEF Assign
  <2> HIDE DEF ids
  <2>3. /\ spentBy'[n] = Given(sp, ids, t.trace) /\ Changed(spentBy, spentBy', n)
        /\ SpentInv(chain, h, spentBy'[n])
        /\ Len(spentBy'[n]) = Len(spentBy[n])
        /\ \A k \in Nodes : k # n =>
             Agree(spentBy'[n], spentBy[k]) /\ Agree(spentBy[k], spentBy'[n])
    BY <2>1, <2>2, SpentTable
  <2> HIDE DEF i
  <2>4. /\ TransfersInv(chain, h, Given(sp, ids, t.trace), new)
        /\ DOMAIN new = DOMAIN T /\ new[i].assigned
        /\ \A j \in DOMAIN T : new[j].asset = T[j].asset
        /\ \A j \in DOMAIN T : j # i => new[j] = T[j]
    BY <1>1, <1>2, <2>1, AssignedTransfer
  <2> HIDE DEF new
  <2>5. Changed(transfers, transfers', n) /\ transfers'[n] = new
    BY <1>1, <2>2 DEF IsTable, Changed
  <2>6. ListsInv(new, todo[n] \ {i}, IF Cardinality(todo[n]) = 1 THEN {} ELSE aborted[n],
                 bill[n], spending[n].stage)
    <3>1. DOMAIN T \subseteq DOMAIN new
      BY <2>4
    <3>2. \A j \in DOMAIN T : j # i => new[j].assigned = T[j].assigned
      BY <2>4
    <3>3. \A x \in DOMAIN T : \A j \in DOMAIN new : j < x => j \in DOMAIN T
      BY <2>4
    <3> QED
      BY <1>1, <2>4, <3>1, <3>2, <3>3, ShorterList DEF i
  <2>7. /\ TransfersInv(chain, h, spentBy'[n], transfers'[n])
        /\ ListsInv(transfers'[n], todo[n] \ {i},
                    IF Cardinality(todo[n]) = 1 THEN {} ELSE aborted[n],
                    bill[n], spending[n].stage)
    BY <2>3, <2>4, <2>5, <2>6
  <2> QED
    BY <1>7, <2>3, <2>5, <2>7, AssignStep DEF i
<1>8. CASE /\ t.asset \notin aborted[n] /\ ~Covers(ids, t.amount)
           /\ RoundGoesOn(n, aborted[n] \cup {t.asset}) /\ MustMerge(ids)
           /\ Merge(n, i, ids)
  <2> DEFINE new == Append(T, m)
             gaveUp == aborted[n] \cup {t.asset}
  <2>1. /\ NextBlock(chain, h, sp, mt, ids) /\ mt.merges # {}
        /\ Asked(chain, mt) = Asked(chain, t.trace)
    BY <1>3, <1>8
  <2>2. /\ m.trace = mt /\ m.asset = t.asset /\ m.assigned = TRUE /\ m.handled = FALSE
        /\ IsTransfer(m)
    <3> DEFINE b == t.trace
               a == t.asset
               s == Sum(ids)
               u == [NewTransfer(b.output, b.nr, a, s, ids)
                       EXCEPT !.version = 0, !.assigned = TRUE]
    <3>1. b \in Traces /\ m = u
      BY <1>2
    <3> HIDE DEF t, ids, m
    <3>2. /\ u.trace = [b EXCEPT !.merges = ids] /\ u.asset = a
          /\ u.assigned = TRUE /\ u.handled = FALSE /\ IsTransfer(u)
      <4> HIDE DEF b, a, s
      <4> QED
        BY <3>1, MergeItself
    <3> HIDE DEF u
    <3> QED
      BY <3>1, <3>2
  <2>3. Spent(n, ids, m.trace) /\ transfers' = [transfers EXCEPT ![n] = new]
    BY <1>8 DEF Merge
  <2> HIDE DEF ids, m, mt
  <2>4. /\ spentBy'[n] = Given(sp, ids, m.trace) /\ Changed(spentBy, spentBy', n)
        /\ SpentInv(chain, h, spentBy'[n])
        /\ Len(spentBy'[n]) = Len(spentBy[n])
        /\ \A k \in Nodes : k # n =>
             Agree(spentBy'[n], spentBy[k]) /\ Agree(spentBy[k], spentBy'[n])
    BY <2>1, <2>2, <2>3, SpentTable
  <2> HIDE DEF i
  <2>5. /\ TransfersInv(chain, h, Given(sp, ids, m.trace), new)
        /\ DOMAIN T \subseteq DOMAIN new /\ \A j \in DOMAIN T : new[j] = T[j]
        /\ \A x \in DOMAIN T : \A j \in DOMAIN new : j < x => j \in DOMAIN T
    <3>1. NextBlock(chain, h, sp, m.trace, ids) /\ m.trace.merges # {}
      BY <2>1, <2>2
    <3>2. m.asset = Asked(chain, m.trace).asset
      BY <1>2, <2>1, <2>2
    <3> QED
      BY <1>1, <2>2, <3>1, <3>2, MergedTransfer
  <2> HIDE DEF new
  <2>6. Changed(transfers, transfers', n) /\ transfers'[n] = new
    BY <1>1, <2>3 DEF IsTable, Changed
  <2>7. ListsInv(new, todo[n] \ {i}, IF Cardinality(todo[n]) = 1 THEN {} ELSE gaveUp,
                 bill[n], spending[n].stage)
    <3>1. aborted[n] \subseteq gaveUp /\ t.asset \in gaveUp
      OBVIOUS
    <3>2. /\ \A j \in DOMAIN T : new[j].asset = T[j].asset
          /\ \A j \in DOMAIN T : j # i => new[j].assigned = T[j].assigned
          /\ T[i].assigned => new[i].assigned
      BY <1>2, <2>5
    <3> HIDE DEF gaveUp
    <3> QED
      BY <1>1, <2>5, <3>1, <3>2, ShorterList DEF i
  <2>8. /\ TransfersInv(chain, h, spentBy'[n], transfers'[n])
        /\ ListsInv(transfers'[n], todo[n] \ {i},
                    IF Cardinality(todo[n]) = 1 THEN {} ELSE gaveUp,
                    bill[n], spending[n].stage)
    BY <2>4, <2>5, <2>6, <2>7
  <2> QED
    BY <1>8, <2>4, <2>6, <2>8, AssignStep DEF i
<1>9. CASE /\ t.asset \notin aborted[n] /\ RoundGoesOn(n, aborted[n] \cup {t.asset})
           /\ UNCHANGED <<spentBy, transfers>>
  BY <1>5, <1>9
<1> QED
  BY <1>4, <1>6, <1>7, <1>8, <1>9

-----------------------------------------------------------------------------
(***************************************************************************)
(* All together.                                                           *)
(***************************************************************************)
LEMMA NextWallet ==
  ASSUME PaysSomething, WalletInv, [Next]_vars
  PROVE  WalletInv'
<1>1. CASE Deposit
  BY <1>1, DepositWallet
<1>2. ASSUME NEW n \in Nodes,
             \/ Syncer(n) \/ HandleOutput(n) \/ Assigner(n)
             \/ Cashier(n) \/ Sender(n) \/ SpentSync(n) \/ Crash(n)
      PROVE  WalletInv'
  <2>1. CASE Syncer(n)
    BY <2>1, LearnWallet, RefreshWallet DEF Syncer
  <2>2. CASE HandleOutput(n)
    BY <2>2, HandleOutputWallet
  <2>3. CASE Assigner(n)
    BY <2>3, ListPendingWallet, AssignNextWallet DEF Assigner
  <2>4. CASE Cashier(n)
    BY <2>4, ListAssignedWallet, SpendWallet, CreateRawWallet, MarkHandledWallet DEF Cashier
  <2>5. CASE Sender(n)
    BY <2>5, SubmitWallet, ExpireWallet DEF Sender
  <2>6. CASE SpentSync(n)
    BY <2>6, PassWallet DEF SpentSync
  <2>7. CASE Crash(n)
    BY <2>7, CrashWallet
  <2> QED
    BY <1>2, <2>1, <2>2, <2>3, <2>4, <2>5, <2>6, <2>7
<1>3. CASE UNCHANGED vars
  <2>1. /\ UNCHANGED <<chain, deposited, view, spentBy, handledTo, transfers>>
        /\ UNCHANGED <<todo, aborted, bill, spending>>
    BY <1>3 DEF vars, netVars, tables, workers
  <2>2. \A n \in Nodes : NodeInv(n)'
    BY <2>1 DEF WalletInv, NodeInv
  <2>3. \A m, n \in Nodes : Agree(spentBy'[m], spentBy'[n])
    BY <2>1 DEF WalletInv
  <2> QED
    BY <2>1, <2>2, <2>3 DEF WalletInv
<1> QED
  BY <1>1, <1>2, <1>3 DEF Next

\* The invariant that the others follow from, of every reachable state of the
\* nodes' workers and tables, when no transfer is of nothing.
THEOREM WalletInvariant ==
  ASSUME PaysSomething
  PROVE  Spec => []WalletInv
<1>1. Init => WalletInv
  BY InitWallet
<1>2. WalletInv /\ [Next]_vars => WalletInv'
  BY NextWallet
<1> QED
  BY <1>1, <1>2, PTL DEF Spec

LEMMA WalletInvAgrees ==
  ASSUME WalletInv
  PROVE  NodesAgree
<1> SUFFICES ASSUME NEW m \in Nodes, NEW n \in Nodes,
                    NEW i \in DOMAIN transfers[m], NEW j \in DOMAIN transfers[n],
                    ListSpentBy(m, transfers[m][i]) # {},
                    ListSpentBy(n, transfers[n][j]) # {}
             PROVE  LET a == ListSpentBy(m, transfers[m][i])
                        b == ListSpentBy(n, transfers[n][j])
                    IN  IF transfers[m][i].trace = transfers[n][j].trace
                        THEN a = b ELSE a \cap b = {}
  BY ZenonT(40) DEF NodesAgree
<1> DEFINE b == transfers[m][i].trace
           c == transfers[n][j].trace
<1>1. /\ TransfersInv(chain, handledTo[m], spentBy[m], transfers[m])
      /\ TransfersInv(chain, handledTo[n], spentBy[n], transfers[n])
      /\ Agree(spentBy[m], spentBy[n])
  BY DEF WalletInv, NodeInv
<1>2. b \in Traces /\ c \in Traces
  BY <1>1 DEF TransfersInv, Request
<1>3. /\ ListSpentBy(m, transfers[m][i]) = Block(spentBy[m], b)
      /\ ListSpentBy(n, transfers[n][j]) = Block(spentBy[n], c)
  BY DEF ListSpentBy, Block
<1> HIDE DEF b, c
<1>4. CASE b = c
  BY <1>1, <1>2, <1>3, <1>4 DEF Agree, b, c
<1>5. CASE b # c
  <2>1. ASSUME NEW k \in Block(spentBy[m], b), k \in Block(spentBy[n], c) PROVE FALSE
    <3>1. /\ k \in DOMAIN spentBy[m] /\ spentBy[m][k] = b
          /\ k \in DOMAIN spentBy[n] /\ spentBy[n][k] = c
      BY <2>1 DEF Block
    <3>2. b # NoTrace /\ c # NoTrace
      BY <1>2, PaymentTrace
    <3> QED
      BY <1>1, <1>5, <3>1, <3>2 DEF Agree
  <2> QED
    BY <1>3, <1>5, <2>1 DEF b, c
<1> QED
  BY <1>4, <1>5

\* Nodes that pick outputs for one transfer pick the same ones, and no output
\* goes to two transfers, for any number of nodes, any deposits and any limits
\* of the lists, at any pace and through any crashes (Assigner.run,
\* Assigner.handleTransfer).
THEOREM NodesAgreeTheorem ==
  ASSUME PaysSomething
  PROVE  Spec => []NodesAgree
<1>1. WalletInv => NodesAgree
  BY WalletInvAgrees
<1> QED
  BY <1>1, WalletInvariant, PTL
=============================================================================
