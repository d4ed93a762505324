---------------------------- MODULE PaymentProofs ----------------------------
(***************************************************************************)
(* For any group, any deposits and any limits: a payment that the nodes    *)
(* have all marked handled is executed, or some node still holds it for    *)
(* the sender (NoPaymentDropped), provided that no transfer is of nothing. *)
(*                                                                         *)
(* The argument.  What a node signs for a transfer is fixed by the outputs *)
(* it gave it, and nodes give a transfer the same ones (WalletProofs): so  *)
(* there is one payment to a transfer, and payments that share an output   *)
(* are one (PaidInv, part 1).  A node is done with a transfer when it has  *)
(* signed the payment or seen it executed (part 2).  Once Threshold nodes  *)
(* have signed, the one that signed last, or again after a crash, is not   *)
(* done before it has kept the payment for the sender (part 3); and the    *)
(* sender forgets a payment only when its outputs are spent, which only    *)
(* the payment itself can have done.                                       *)
(***************************************************************************)
EXTENDS WalletProofs

\* The payment to the transfer with trace b, by a node with the column sp.
Due(ch, b) ==
  IF b.merges = {} THEN Asked(ch, b).amount
  ELSE SumFunction([k \in b.merges |-> ch[k].amount])
Payout(ch, sp, b) ==
  [trace |-> b, asset |-> Asked(ch, b).asset, amount |-> Due(ch, b), inputs |-> Block(sp, b)]

MergesInv(ch, sp, T) ==
  /\ \A i \in DOMAIN T : T[i].trace.merges # {} =>
       T[i].amount = Due(ch, T[i].trace) /\ Block(sp, T[i].trace) # {}
  /\ \A i, j \in DOMAIN T :
       T[i].trace.merges # {} /\ T[i].trace = T[j].trace => i = j

\* What a node has been told of an output was so, and signatures stay.
ToldInv(k, v) ==
  \/ v = Unspent
  \/ /\ v.state \in {"signed", "spent"} /\ v.tx \in SignedTxs /\ k \in v.tx.inputs
     /\ v.state = "spent" => v.tx \in executed

\* The transfer the cashier is at.
Current(n) == transfers[n][Min(bill[n])]

CashierInv(n) ==
  /\ \A i \in bill[n] : ~transfers[n][i].handled
  /\ spending[n].stage = "raw" =>
       <<spending[n].tx, n>> \in sigs /\ spending[n].tx.trace = Current(n).trace

PayerInv(n) ==
  /\ MergesInv(chain, spentBy[n], transfers[n])
  /\ \A k \in DOMAIN view[n] : ToldInv(k, view[n][k])
  /\ CashierInv(n)

Done(n, b) ==
  \/ \E i \in DOMAIN transfers[n] : transfers[n][i].trace = b /\ transfers[n][i].handled
  \/ spending[n].stage = "handled" /\ Current(n).trace = b

\* A payment of which the network has Threshold signatures is not forgotten.
Kept(tx) ==
  \/ tx \in executed
  \/ \E n \in Nodes : tx \in raws[n]
  \/ \E n \in Nodes : ~Done(n, tx.trace)

PaidInv ==
  /\ executed \subseteq SignedTxs /\ \A n \in Nodes : raws[n] \subseteq SignedTxs
  /\ \A tx \in SignedTxs :
       tx.trace \in Traces /\ \E n \in Nodes :
         Block(spentBy[n], tx.trace) # {} /\ tx = Payout(chain, spentBy[n], tx.trace)
  /\ \A n \in Nodes : \A b \in Traces : Done(n, b) =>
       \E tx \in SignedTxs : tx.trace = b /\ (tx \in executed \/ <<tx, n>> \in sigs)
  /\ \A tx \in SignedTxs : Cardinality(Signers(tx)) >= Threshold => Kept(tx)

PayInv == PaidInv /\ IsTable(raws) /\ \A n \in Nodes : PayerInv(n)

-----------------------------------------------------------------------------
(***************************************************************************)
(* There is one payment to a transfer.                                     *)
(***************************************************************************)

\* Signed payments that share a trace or an input are one, and so is what a
\* node would pay with an output that a signed payment spends.
LEMMA OnePayout ==
  ASSUME WalletInv, PaidInv, NEW tx \in SignedTxs
  PROVE  /\ \A ux \in SignedTxs : ux.trace = tx.trace => ux = tx
         /\ \A n \in Nodes : Block(spentBy[n], tx.trace) # {} =>
              tx = Payout(chain, spentBy[n], tx.trace)
         /\ \A n \in Nodes : \A b \in Traces : \A k \in Block(spentBy[n], b) :
              k \in tx.inputs => tx = Payout(chain, spentBy[n], b)
         /\ \A ux \in SignedTxs : \A k \in tx.inputs : k \in ux.inputs => ux = tx
<1>1. \A x \in SignedTxs :
        x.trace \in Traces /\ \E n \in Nodes :
          Block(spentBy[n], x.trace) # {} /\ x = Payout(chain, spentBy[n], x.trace)
  BY DEF PaidInv
<1>2. \A m, n \in Nodes : Agree(spentBy[m], spentBy[n])
  BY DEF WalletInv
<1>3. \A sp, b : /\ Payout(chain, sp, b).trace = b /\ Payout(chain, sp, b).inputs = Block(sp, b)
  BY DEF Payout
<1>a. ASSUME NEW n \in Nodes, Block(spentBy[n], tx.trace) # {}
      PROVE  tx = Payout(chain, spentBy[n], tx.trace)
  <2>1. PICK m \in Nodes : Block(spentBy[m], tx.trace) # {}
                           /\ tx = Payout(chain, spentBy[m], tx.trace)
    BY <1>1
  <2>2. Block(spentBy[m], tx.trace) = Block(spentBy[n], tx.trace)
    BY <1>1, <1>2, <1>a, <2>1 DEF Agree
  <2> QED
    BY <2>1, <2>2 DEF Payout
<1>4. ASSUME NEW ux \in SignedTxs, ux.trace = tx.trace
      PROVE  ux = tx
  <2>1. PICK n \in Nodes : Block(spentBy[n], tx.trace) # {}
                           /\ ux = Payout(chain, spentBy[n], tx.trace)
    BY <1>1, <1>4
  <2> QED
    BY <1>a, <2>1
<1>5. ASSUME NEW n \in Nodes, NEW b \in Traces, NEW k \in Block(spentBy[n], b),
             k \in tx.inputs
      PROVE  tx = Payout(chain, spentBy[n], b)
  <2>1. PICK m \in Nodes : tx = Payout(chain, spentBy[m], tx.trace)
    BY <1>1
  <2> DEFINE c == tx.trace
  <2>2. k \in Block(spentBy[m], c)
    BY <1>3, <1>5, <2>1
  <2>3. /\ k \in DOMAIN spentBy[n] /\ spentBy[n][k] = b
        /\ k \in DOMAIN spentBy[m] /\ spentBy[m][k] = c
    BY <2>2 DEF Block
  <2>4. b # NoTrace /\ c # NoTrace
    BY <1>1, PaymentTrace
  <2>5. b = c
    BY <1>2, <2>3, <2>4 DEF Agree
  <2>6. Block(spentBy[n], b) = Block(spentBy[m], b)
    BY <1>2, <2>2, <2>5 DEF Agree
  <2> QED
    BY <2>1, <2>5, <2>6 DEF Payout
<1>6. ASSUME NEW ux \in SignedTxs, NEW k \in tx.inputs, k \in ux.inputs
      PROVE  ux = tx
  <2>1. PICK m \in Nodes : ux = Payout(chain, spentBy[m], ux.trace)
    BY <1>1
  <2>2. k \in Block(spentBy[m], ux.trace)
    BY <1>3, <1>6, <2>1
  <2>3. tx = Payout(chain, spentBy[m], ux.trace)
    BY <1>1, <1>5, <2>2
  <2> QED
    BY <2>1, <2>3
<1> QED
  BY <1>a, <1>4, <1>5, <1>6

\* What a payment is does not change with more outputs, or other blocks.
LEMMA SamePayout ==
  ASSUME NEW ch, NEW ch2, NEW h, NEW sp, NEW sp2, NEW b \in Traces,
         ChainInv(ch), ChainInv(ch2), Len(ch) <= Len(ch2), \A k \in DOMAIN ch : ch2[k] = ch[k],
         SpentInv(ch, h, sp), Block(sp, b) # {}, Block(sp2, b) = Block(sp, b)
  PROVE  Due(ch2, b) = Due(ch, b) /\ Payout(ch2, sp2, b) = Payout(ch, sp, b)
<1>1. /\ DOMAIN ch = 1..Len(ch) /\ Len(ch) \in Nat
      /\ DOMAIN sp = 1..Len(sp) /\ Len(sp) \in Nat
      /\ Len(sp) <= Len(ch) /\ h \in 0..Len(sp)
  BY DEF ChainInv, SpentInv
<1>2. PICK k \in DOMAIN sp : sp[k] = b
  BY DEF Block
<1>3. Request(ch, h, b) /\ Exact(ch, b, Block(sp, b))
  BY <1>2, PaymentTrace DEF SpentInv
<1>4. Asked(ch2, b) = Asked(ch, b)
  BY <1>1, <1>3 DEF Request, Asked
<1>5. Due(ch2, b) = Due(ch, b)
  <2>1. CASE b.merges = {}
    BY <1>4, <2>1 DEF Due
  <2>2. CASE b.merges # {}
    <3>1. b.merges \in SUBSET DOMAIN ch
      <4>1. b.merges = Block(sp, b)
        BY <1>3, <2>2 DEF Exact
      <4>2. Block(sp, b) \in SUBSET DOMAIN sp /\ DOMAIN sp \subseteq DOMAIN ch
        BY <1>1 DEF Block
      <4> QED
        BY <4>1, <4>2
    <3>2. [x \in b.merges |-> ch2[x].amount] = [x \in b.merges |-> ch[x].amount]
      BY <3>1
    <3> QED
      BY <2>2, <3>2 DEF Due
  <2> QED
    BY <2>1, <2>2
<1> QED
  BY <1>4, <1>5 DEF Payout

-----------------------------------------------------------------------------
(***************************************************************************)
(* What every step has to keep.                                            *)
(***************************************************************************)
SamePayouts ==
  \A n \in Nodes : \A b \in Traces : Block(spentBy[n], b) # {} =>
    Payout(chain, spentBy[n], b)' = Payout(chain, spentBy[n], b)

LEMMA PaidStep ==
  ASSUME PaidInv, SamePayouts, sigs \subseteq sigs', executed \subseteq executed',
         executed' \subseteq SignedTxs', \A n \in Nodes : raws'[n] \subseteq SignedTxs',
         \A n \in Nodes : \A tx \in raws[n] : tx \in executed' \/ tx \in raws'[n],
         \A tx \in SignedTxs' : tx \in SignedTxs \/
           (tx.trace \in Traces /\ \E n \in Nodes :
              Block(spentBy'[n], tx.trace) # {} /\ tx = Payout(chain', spentBy'[n], tx.trace)),
         \A n \in Nodes : \A b \in Traces : Done(n, b)' => Done(n, b) \/
           \E tx \in SignedTxs' : tx.trace = b /\ (tx \in executed' \/ <<tx, n>> \in sigs'),
         \A tx \in SignedTxs' : Cardinality(Signers(tx)') >= Threshold => Kept(tx)' \/
           (/\ tx \in SignedTxs /\ Signers(tx)' = Signers(tx)
            /\ \A n \in Nodes : Done(n, tx.trace)' => Done(n, tx.trace))
  PROVE  PaidInv'
<1>1. SignedTxs \subseteq SignedTxs'
  BY DEF SignedTxs
<1>2. ASSUME NEW tx \in SignedTxs'
      PROVE  tx.trace \in Traces /\ \E n \in Nodes :
               Block(spentBy'[n], tx.trace) # {} /\ tx = Payout(chain', spentBy'[n], tx.trace)
  <2>1. CASE tx \in SignedTxs
    <3>1. PICK n \in Nodes : /\ tx.trace \in Traces /\ Block(spentBy[n], tx.trace) # {}
                             /\ tx = Payout(chain, spentBy[n], tx.trace)
      BY <2>1 DEF PaidInv
    <3>2. tx = Payout(chain', spentBy'[n], tx.trace)
      BY <3>1 DEF SamePayouts
    <3>3. Block(spentBy'[n], tx.trace) = Block(spentBy[n], tx.trace)
      <4>1. /\ tx.inputs = Block(spentBy[n], tx.trace)
            /\ tx.inputs = Block(spentBy'[n], tx.trace)
        <5> DEFINE b == tx.trace
        <5>1. /\ Payout(chain, spentBy[n], b).inputs = Block(spentBy[n], b)
              /\ Payout(chain', spentBy'[n], b).inputs = Block(spentBy'[n], b)
          BY DEF Payout
        <5> HIDE DEF b
        <5> QED
          BY <3>1, <3>2, <5>1 DEF b
      <4> QED
        BY <4>1
    <3> QED
      BY <3>1, <3>2, <3>3
  <2>2. CASE tx \notin SignedTxs
    BY <2>2
  <2> QED
    BY <2>1, <2>2
<1>3. ASSUME NEW n \in Nodes, NEW b \in Traces, Done(n, b)'
      PROVE  \E tx \in SignedTxs' : tx.trace = b /\ (tx \in executed' \/ <<tx, n>> \in sigs')
  <2>1. CASE Done(n, b)
    <3>1. PICK tx \in SignedTxs : tx.trace = b /\ (tx \in executed \/ <<tx, n>> \in sigs)
      BY <2>1 DEF PaidInv
    <3> QED
      BY <1>1, <3>1
  <2>2. CASE ~Done(n, b)
    BY <1>3, <2>2
  <2> QED
    BY <2>1, <2>2
<1>4. ASSUME NEW tx \in SignedTxs', Cardinality(Signers(tx)') >= Threshold
      PROVE  Kept(tx)'
  <2> SUFFICES ASSUME tx \in SignedTxs, Signers(tx)' = Signers(tx),
                      \A n \in Nodes : Done(n, tx.trace)' => Done(n, tx.trace)
               PROVE  Kept(tx)'
    BY <1>4
  <2>1. Kept(tx)
    BY <1>4 DEF PaidInv
  <2>2. CASE tx \in executed
    BY <2>2 DEF Kept
  <2>3. CASE \E n \in Nodes : tx \in raws[n]
    BY <2>3 DEF Kept
  <2>4. CASE \E n \in Nodes : ~Done(n, tx.trace)
    BY <2>4 DEF Kept
  <2> QED
    BY <2>1, <2>2, <2>3, <2>4 DEF Kept
<1> QED
  BY <1>2, <1>3, <1>4 DEF PaidInv

\* A step that signs nothing.
LEMMA UnsignedStep ==
  ASSUME PaidInv, SamePayouts, sigs' = sigs, executed \subseteq executed',
         executed' \subseteq SignedTxs, \A n \in Nodes : raws'[n] \subseteq SignedTxs,
         \A n \in Nodes : \A tx \in raws[n] : tx \in executed' \/ tx \in raws'[n],
         \A n \in Nodes : \A b \in Traces : Done(n, b)' => Done(n, b)
  PROVE  PaidInv'
<1>1. SignedTxs' = SignedTxs /\ \A tx : Signers(tx)' = Signers(tx)
  BY DEF SignedTxs, Signers
<1>2. \A tx \in SignedTxs : tx.trace \in Traces
  BY DEF PaidInv
<1> QED
  BY <1>1, <1>2, PaidStep

\* The row of a node that takes no part in the step.
LEMMA OtherPayer ==
  ASSUME NEW n \in Nodes, PayerInv(n), sigs \subseteq sigs', executed \subseteq executed',
         chain' = chain, spentBy'[n] = spentBy[n], transfers'[n] = transfers[n],
         view'[n] = view[n], bill'[n] = bill[n], spending'[n] = spending[n]
  PROVE  PayerInv(n)'
<1>1. SignedTxs \subseteq SignedTxs'
  BY DEF SignedTxs
<1>2. MergesInv(chain, spentBy[n], transfers[n])'
  BY DEF PayerInv
<1>3. ASSUME NEW k \in DOMAIN view[n] PROVE ToldInv(k, view[n][k])'
  <2>1. ToldInv(k, view[n][k])
    BY DEF PayerInv
  <2> QED
    BY <1>1, <2>1 DEF ToldInv
<1>4. CashierInv(n)'
  BY <1>1 DEF PayerInv, CashierInv, Current
<1> QED
  BY <1>2, <1>3, <1>4 DEF PayerInv
\* A step of the network, or of a worker that only changes raws or todo.
LEMMA NetworkStep ==
  ASSUME WalletInv, WalletInv', PayInv, Len(chain) <= Len(chain'),
         \A k \in DOMAIN chain : chain'[k] = chain[k],
         UNCHANGED <<sigs, view, spentBy, handledTo, transfers, bill, spending>>,
         executed \subseteq executed', executed' \subseteq SignedTxs,
         \A n \in Nodes : raws'[n] \subseteq SignedTxs,
         \A n \in Nodes : \A tx \in raws[n] : tx \in executed' \/ tx \in raws'[n],
         IsTable(raws')
  PROVE  PayInv'
<1>1. ChainInv(chain) /\ ChainInv(chain')
  BY DEF WalletInv
<1>2. ASSUME NEW n \in Nodes, NEW b \in Traces, Block(spentBy[n], b) # {}
      PROVE  /\ Due(chain', b) = Due(chain, b)
             /\ Payout(chain', spentBy[n], b) = Payout(chain, spentBy[n], b)
  <2> DEFINE sp == spentBy[n]
             h == handledTo[n]
  <2>1. SpentInv(chain, h, sp) /\ Block(sp, b) # {} /\ b \in Traces
    BY <1>2 DEF WalletInv, NodeInv
  <2>2. Len(chain) <= Len(chain') /\ \A k \in DOMAIN chain : chain'[k] = chain[k]
    OBVIOUS
  <2> HIDE DEF sp, h
  <2>3. Due(chain', b) = Due(chain, b) /\ Payout(chain', sp, b) = Payout(chain, sp, b)
    BY ONLY <1>1, <2>1, <2>2, SamePayout
  <2> QED
    BY <2>3 DEF sp
<1>3. SamePayouts
  BY <1>2 DEF SamePayouts
<1>4. \A n \in Nodes : \A b \in Traces : Done(n, b)' => Done(n, b)
  BY DEF Done, Current
<1>5. PaidInv'
  BY <1>3, <1>4, UnsignedStep DEF PayInv
<1>6. ASSUME NEW n \in Nodes PROVE PayerInv(n)'
  <2>1. PayerInv(n) /\ TransfersInv(chain, handledTo[n], spentBy[n], transfers[n])
    BY DEF PayInv, WalletInv, NodeInv
  <2>2. \A i \in DOMAIN transfers[n] : transfers[n][i].trace \in Traces
    BY <2>1 DEF TransfersInv, Request
  <2>3. MergesInv(chain', spentBy[n], transfers[n])
    BY <1>2, <2>1, <2>2 DEF PayerInv, MergesInv
  <2>4. SignedTxs' = SignedTxs
    BY DEF SignedTxs
  <2>5. ASSUME NEW k \in DOMAIN view[n] PROVE ToldInv(k, view[n][k])'
    <3>1. ToldInv(k, view[n][k])
      BY <2>1 DEF PayerInv
    <3> QED
      BY <2>4, <3>1 DEF ToldInv
  <2>6. CashierInv(n)'
    BY <2>1, <2>4 DEF PayerInv, CashierInv, Current
  <2> QED
    BY <2>3, <2>5, <2>6 DEF PayerInv
<1> QED
  BY <1>5, <1>6 DEF PayInv

\* The tables that matter here are as they were, but for the rows of n.
RowsKept(n) ==
  \A m \in Nodes : m # n =>
    /\ view'[m] = view[m] /\ spentBy'[m] = spentBy[m] /\ transfers'[m] = transfers[m]
    /\ bill'[m] = bill[m] /\ spending'[m] = spending[m]

\* A step of one node.
LEMMA PayerStep ==
  ASSUME PayInv, NEW n \in Nodes, RowsKept(n), chain' = chain, sigs \subseteq sigs',
         executed \subseteq executed', PayerInv(n)', PaidInv', IsTable(raws')
  PROVE  PayInv'
<1>1. ASSUME NEW m \in Nodes, m # n PROVE PayerInv(m)'
  <2>1. PayerInv(m)
    BY DEF PayInv
  <2> QED
    BY <1>1, <2>1, OtherPayer DEF RowsKept
<1> QED
  BY <1>1 DEF PayInv

\* One that pays nothing.
LEMMA QuietStep ==
  ASSUME WalletInv, PayInv, NEW n \in Nodes, RowsKept(n),
         UNCHANGED <<chain, sigs, executed, raws>>,
         \A b \in Traces : Block(spentBy[n], b) # {} =>
           Block(spentBy'[n], b) = Block(spentBy[n], b),
         \A b \in Traces : Done(n, b)' => Done(n, b),
         PayerInv(n)'
  PROVE  PayInv'
<1>1. \A m \in Nodes : \A b \in Traces : Block(spentBy[m], b) # {} =>
        Block(spentBy'[m], b) = Block(spentBy[m], b)
  BY DEF RowsKept
<1>2. SamePayouts
  BY <1>1 DEF SamePayouts, Payout, Due, Asked
<1>3. \A m \in Nodes : \A b \in Traces : Done(m, b)' => Done(m, b)
  BY DEF RowsKept, Done, Current
<1>4. PaidInv'
  <2>1. PaidInv /\ executed \subseteq SignedTxs /\ \A m \in Nodes : raws[m] \subseteq SignedTxs
    BY DEF PayInv, PaidInv
  <2> QED
    BY <1>2, <1>3, <2>1, UnsignedStep
<1> QED
  BY <1>4, PayerStep DEF PayInv

\* A step that leaves the cashier and the transfers of the node alone.
LEMMA ListenStep ==
  ASSUME WalletInv, PayInv, NEW n \in Nodes, RowsKept(n),
         UNCHANGED <<chain, sigs, executed, raws, transfers, bill, spending>>,
         \A b \in Traces : Block(spentBy'[n], b) = Block(spentBy[n], b),
         \A k \in DOMAIN view'[n] : ToldInv(k, view'[n][k])
  PROVE  PayInv'
<1>1. \A b \in Traces : Done(n, b)' => Done(n, b)
  BY DEF Done, Current
<1>2. PayerInv(n) /\ TransfersInv(chain, handledTo[n], spentBy[n], transfers[n])
  BY DEF PayInv, WalletInv, NodeInv
<1>3. \A i \in DOMAIN transfers[n] : transfers[n][i].trace \in Traces
  BY <1>2 DEF TransfersInv, Request
<1>4. MergesInv(chain, spentBy'[n], transfers[n])
  BY <1>2, <1>3 DEF PayerInv, MergesInv
<1>5. SignedTxs' = SignedTxs
  BY DEF SignedTxs
<1>6. ASSUME NEW k \in DOMAIN view'[n] PROVE ToldInv(k, view[n][k])'
  BY <1>5 DEF ToldInv
<1>7. CashierInv(n)'
  BY <1>2, <1>5 DEF PayerInv, CashierInv, Current
<1>8. PayerInv(n)'
  BY <1>4, <1>6, <1>7 DEF PayerInv
<1> QED
  BY <1>1, <1>8, QuietStep

-----------------------------------------------------------------------------
(***************************************************************************)
(* The steps.                                                              *)
(***************************************************************************)

LEMMA InitPay ==
  ASSUME Init
  PROVE  PayInv
<1>1. sigs = {} /\ executed = {} /\ \A n \in Nodes : raws[n] = {} /\ transfers[n] = <<>>
  BY DEF Init
<1>2. SignedTxs = {}
  BY <1>1 DEF SignedTxs
<1>3. \A n \in Nodes : \A b : ~Done(n, b)
  <2>1. \A n \in Nodes : spending[n].stage = "spend"
    BY DEF Init, Idle
  <2> QED
    BY <1>1, <2>1 DEF Done
<1>4. PaidInv
  BY <1>1, <1>2, <1>3 DEF PaidInv
<1>5. ASSUME NEW n \in Nodes PROVE PayerInv(n)
  <2>1. MergesInv(chain, spentBy[n], transfers[n])
    BY <1>1 DEF MergesInv
  <2>2. \A k \in DOMAIN view[n] : ToldInv(k, view[n][k])
    BY DEF Init, ToldInv
  <2>3. CashierInv(n)
    BY DEF Init, Idle, CashierInv
  <2> QED
    BY <2>1, <2>2, <2>3 DEF PayerInv
<1>6. IsTable(raws)
  <2>1. raws = [n \in Nodes |-> {}]
    BY DEF Init
  <2> QED
    BY <2>1 DEF IsTable, Range
<1> QED
  BY <1>4, <1>5, <1>6 DEF PayInv

LEMMA DepositPay ==
  ASSUME WalletInv, WalletInv', PayInv, Deposit
  PROVE  PayInv'
<1> DEFINE x == Deposits[deposited + 1]
<1>1. chain' = Append(chain, x) /\ UNCHANGED <<sigs, executed, raws>>
      /\ UNCHANGED <<view, spentBy, handledTo, transfers, bill, spending>>
  BY DEF Deposit, tables, workers
<1>2. chain \in Seq(Range(chain))
  BY DEF WalletInv, ChainInv
<1> HIDE DEF x
<1>3. Len(chain) \in Nat /\ Len(chain') = Len(chain) + 1
      /\ \A k \in DOMAIN chain : chain'[k] = chain[k]
  BY <1>1, <1>2, Appended
<1>4. /\ executed \subseteq SignedTxs /\ IsTable(raws)
      /\ \A n \in Nodes : raws[n] \subseteq SignedTxs
  BY DEF PayInv, PaidInv
<1> QED
  BY <1>1, <1>3, <1>4, NetworkStep

LEMMA SubmitPay ==
  ASSUME WalletInv, WalletInv', PayInv, NEW n \in Nodes, NEW tx, Submit(n, tx)
  PROVE  PayInv'
<1> DEFINE x == Returned(tx)
<1>1. /\ chain' = chain \o x /\ executed' = executed \cup {tx} /\ tx \in raws[n]
      /\ UNCHANGED <<sigs, raws>>
      /\ UNCHANGED <<view, spentBy, handledTo, transfers, bill, spending>>
  BY DEF Submit, tables, workers
<1>2. chain \in Seq(Range(chain)) /\ x \in Seq(Range(x))
  <2>1. chain \in Seq(Range(chain))
    BY DEF WalletInv, ChainInv
  <2>2. x \in Seq(Range(x))
    <3> DEFINE S == {Output(tx.asset, tx.amount), Output(tx.asset, Sum(tx.inputs) - tx.amount)}
    <3>1. x \in Seq(S)
      <4> DEFINE y == Output(tx.asset, tx.amount)
                 z == Output(tx.asset, Sum(tx.inputs) - tx.amount)
      <4>1. <<y>> \in Seq(S) /\ <<z>> \in Seq(S) /\ <<>> \in Seq(S)
        OBVIOUS
      <4>2. /\ x = (IF tx.trace.merges # {} THEN <<y>> ELSE <<>>)
                   \o (IF Sum(tx.inputs) - tx.amount > 0 THEN <<z>> ELSE <<>>)
        BY DEF Returned
      <4> HIDE DEF x, y, z, S
      <4> QED
        BY <4>1, <4>2
    <3> HIDE DEF x, S
    <3> QED
      BY <3>1, OwnElements
  <2> QED
    BY <2>1, <2>2
<1> HIDE DEF x
<1>3. /\ Len(chain \o x) = Len(chain) + Len(x)
      /\ \A k \in DOMAIN chain : (chain \o x)[k] = chain[k]
  BY ONLY <1>2, Continued
<1>4. Len(chain) <= Len(chain') /\ \A k \in DOMAIN chain : chain'[k] = chain[k]
  BY <1>1, <1>2, <1>3
<1>5. /\ executed \subseteq SignedTxs /\ IsTable(raws)
      /\ \A m \in Nodes : raws[m] \subseteq SignedTxs
  BY DEF PayInv, PaidInv
<1>6. executed' \subseteq SignedTxs
  BY <1>1, <1>5
<1> QED
  BY <1>1, <1>4, <1>5, <1>6, NetworkStep

\* A payment is forgotten when its outputs are spent: it spent them.
LEMMA ExpirePay ==
  ASSUME WalletInv, WalletInv', PayInv, NEW n \in Nodes, NEW tx, ExpireRawTransaction(n, tx)
  PROVE  PayInv'
<1>1. /\ raws' = [raws EXCEPT ![n] = @ \ {tx}] /\ tx \in raws[n]
      /\ UNCHANGED <<chain, sigs, executed>>
      /\ UNCHANGED <<view, spentBy, handledTo, transfers, bill, spending>>
  BY DEF ExpireRawTransaction, netVars, workers
<1>2. /\ executed \subseteq SignedTxs /\ IsTable(raws) /\ PaidInv
      /\ \A m \in Nodes : raws[m] \subseteq SignedTxs
  BY DEF PayInv, PaidInv
<1>3. tx \in executed
  <2>1. PICK done \in executed : done.inputs \cap tx.inputs # {}
    BY DEF ExpireRawTransaction
  <2>2. PICK k \in tx.inputs : k \in done.inputs
    BY <2>1
  <2>3. done = tx
    BY <1>1, <1>2, <2>2, OnePayout
  <2> QED
    BY <2>3
<1>4. /\ raws'[n] = raws[n] \ {tx} /\ Changed(raws, raws', n)
      /\ \A m \in Nodes : m # n => raws'[m] = raws[m]
  BY <1>1, <1>2 DEF IsTable, Changed
<1>5. IsTable(raws')
  BY <1>2, <1>4, ChangedRow
<1>6. /\ \A m \in Nodes : raws'[m] \subseteq SignedTxs
      /\ \A m \in Nodes : \A ux \in raws[m] : ux \in executed' \/ ux \in raws'[m]
  BY <1>1, <1>2, <1>3, <1>4
<1>7. Len(chain) <= Len(chain')
  <2>1. Len(chain) \in Nat
    BY DEF WalletInv, ChainInv
  <2> QED
    BY <1>1, <2>1
<1> QED
  BY <1>1, <1>2, <1>5, <1>6, <1>7, NetworkStep

LEMMA ListPendingPay ==
  ASSUME WalletInv, WalletInv', PayInv, NEW n \in Nodes, ListPending(n)
  PROVE  PayInv'
<1>1. /\ UNCHANGED <<chain, sigs, executed, raws>>
      /\ UNCHANGED <<view, spentBy, handledTo, transfers, bill, spending>>
  BY DEF ListPending, netVars, tables
<1>2. /\ executed \subseteq SignedTxs /\ IsTable(raws)
      /\ \A m \in Nodes : raws[m] \subseteq SignedTxs
  BY DEF PayInv, PaidInv
<1>3. Len(chain) <= Len(chain')
  <2>1. Len(chain) \in Nat
    BY DEF WalletInv, ChainInv
  <2> QED
    BY <1>1, <2>1
<1> QED
  BY <1>1, <1>2, <1>3, NetworkStep

\* What the network reports of an output is so.
LEMMA ReportedTruly ==
  ASSUME PaidInv, NEW k
  PROVE  ToldInv(k, Reported(k))
<1>1. executed \subseteq SignedTxs
  BY DEF PaidInv
<1>2. CASE \E tx \in executed : k \in tx.inputs
  <2> DEFINE tx == CHOOSE tx \in executed : k \in tx.inputs
  <2>1. tx \in executed /\ k \in tx.inputs
    BY <1>2
  <2>2. Reported(k) = [state |-> "spent", tx |-> tx]
    BY <1>2 DEF Reported
  <2> HIDE DEF tx
  <2> QED
    BY <1>1, <2>1, <2>2 DEF ToldInv
<1>3. CASE ~(\E tx \in executed : k \in tx.inputs) /\ \E tx \in SignedTxs : k \in tx.inputs
  <2> DEFINE tx == CHOOSE tx \in SignedTxs : k \in tx.inputs
  <2>1. tx \in SignedTxs /\ k \in tx.inputs
    BY <1>3
  <2>2. Reported(k) = [state |-> "signed", tx |-> tx]
    BY <1>3 DEF Reported
  <2> HIDE DEF tx
  <2> QED
    BY <2>1, <2>2 DEF ToldInv
<1>4. CASE ~(\E tx \in executed : k \in tx.inputs) /\ ~(\E tx \in SignedTxs : k \in tx.inputs)
  BY <1>4 DEF Reported, ToldInv
<1> QED
  BY <1>2, <1>3, <1>4

LEMMA RefreshPay ==
  ASSUME WalletInv, PayInv, NEW n \in Nodes, Refresh(n)
  PROVE  PayInv'
<1>1. /\ UNCHANGED <<chain, sigs, executed, raws, transfers, bill, spending>>
      /\ UNCHANGED spentBy
      /\ view' = [view EXCEPT ![n] = [k \in DOMAIN view[n] |-> Reported(k)]]
  BY DEF Refresh, netVars, workers
<1>2. IsTable(view) /\ PaidInv
  BY DEF WalletInv, PayInv
<1>3. /\ view'[n] = [k \in DOMAIN view[n] |-> Reported(k)]
      /\ \A m \in Nodes : m # n => view'[m] = view[m]
  BY <1>1, <1>2 DEF IsTable
<1>4. RowsKept(n)
  BY <1>1, <1>3 DEF RowsKept
<1>5. \A k \in DOMAIN view'[n] : ToldInv(k, view'[n][k])
  BY <1>2, <1>3, ReportedTruly
<1> QED
  BY <1>1, <1>4, <1>5, ListenStep

LEMMA LearnPay ==
  ASSUME WalletInv, PayInv, NEW n \in Nodes, Learn(n)
  PROVE  PayInv'
<1> DEFINE w == view[n]
           sp == spentBy[n]
           x == Reported(Len(w) + 1)
<1>1. /\ UNCHANGED <<chain, sigs, executed, raws, transfers, bill, spending>>
      /\ view' = [view EXCEPT ![n] = Append(w, x)]
      /\ spentBy' = [spentBy EXCEPT ![n] = Append(sp, NoTrace)]
  BY DEF Learn, netVars, workers
<1>2. /\ IsTable(view) /\ IsTable(spentBy) /\ PaidInv
      /\ w \in Seq(Range(w)) /\ SpentInv(chain, handledTo[n], sp)
      /\ \A k \in DOMAIN w : ToldInv(k, w[k])
  BY DEF WalletInv, PayInv, NodeInv, PayerInv
<1>3. ToldInv(Len(w) + 1, x)
  BY <1>2, ReportedTruly
<1> HIDE DEF x
<1>4. /\ view'[n] = Append(w, x) /\ spentBy'[n] = Append(sp, NoTrace)
      /\ \A m \in Nodes : m # n => view'[m] = view[m] /\ spentBy'[m] = spentBy[m]
  BY <1>1, <1>2 DEF IsTable
<1>5. RowsKept(n)
  BY <1>1, <1>4 DEF RowsKept
<1>6. ASSUME NEW k \in DOMAIN Append(w, x) PROVE ToldInv(k, Append(w, x)[k])
  <2> HIDE DEF w
  <2>1. /\ DOMAIN w = 1..Len(w) /\ Len(w) \in Nat /\ DOMAIN Append(w, x) = 1..(Len(w) + 1)
        /\ \A i \in DOMAIN w : Append(w, x)[i] = w[i]
        /\ Append(w, x)[Len(w) + 1] = x
    BY <1>2, Appended
  <2>2. k \in DOMAIN w \/ k = Len(w) + 1
    BY <1>6, <2>1
  <2> QED
    BY <1>2, <1>3, <2>1, <2>2
<1>7. ASSUME NEW b \in Traces
      PROVE  Block(spentBy'[n], b) = Block(spentBy[n], b)
  <2>1. sp \in Seq(Traces \cup {NoTrace}) /\ DOMAIN sp = 1..Len(sp) /\ Len(sp) \in Nat
    BY <1>2 DEF SpentInv
  <2>2. b # NoTrace
    BY PaymentTrace
  <2>3. /\ DOMAIN Append(sp, NoTrace) = 1..(Len(sp) + 1)
        /\ \A i \in DOMAIN sp : Append(sp, NoTrace)[i] = sp[i]
        /\ Append(sp, NoTrace)[Len(sp) + 1] = NoTrace
    BY <2>1
  <2>4. \A i \in DOMAIN Append(sp, NoTrace) : i \in DOMAIN sp \/ i = Len(sp) + 1
    BY <2>1, <2>3
  <2>5. DOMAIN sp \subseteq DOMAIN Append(sp, NoTrace)
    BY <2>1, <2>3
  <2> HIDE DEF sp
  <2>6. Block(Append(sp, NoTrace), b) = Block(sp, b)
    BY <2>2, <2>3, <2>4, <2>5 DEF Block
  <2> QED
    BY <1>4, <2>6 DEF sp
<1> QED
  BY <1>1, <1>4, <1>5, <1>6, <1>7, ListenStep
\* The transfer that the cashier is at.
LEMMA CurrentTransfer ==
  ASSUME WalletInv, PayInv, NEW n \in Nodes
  PROVE  LET i == Min(bill[n])
             T == transfers[n]
         IN  /\ spending[n].stage # "spend" => bill[n] # {}
             /\ \A j \in bill[n] : j \in DOMAIN T /\ T[j].assigned /\ ~T[j].handled
             /\ bill[n] # {} =>
                  /\ i \in bill[n] /\ i \in DOMAIN T
                  /\ T[i].trace \in Traces /\ T[i].asset = Asked(chain, T[i].trace).asset
                  /\ T[i].amount = Due(chain, T[i].trace)
                  \* no other transfer has its trace
                  /\ \A j \in DOMAIN T : T[j].trace = T[i].trace => j = i
<1> DEFINE i == Min(bill[n])
           T == transfers[n]
<1>1. /\ TransfersInv(chain, handledTo[n], spentBy[n], T)
      /\ ListsInv(T, todo[n], aborted[n], bill[n], spending[n].stage)
      /\ MergesInv(chain, spentBy[n], T) /\ \A j \in bill[n] : ~T[j].handled
  BY DEF WalletInv, NodeInv, PayInv, PayerInv, CashierInv
<1>2. DOMAIN T = 1..Len(T) /\ Len(T) \in Nat
  <2>1. T \in Seq(Range(T))
    BY <1>1 DEF TransfersInv
  <2> HIDE DEF T
  <2> QED
    BY <2>1
<1>3. /\ spending[n].stage # "spend" => bill[n] # {}
      /\ \A j \in bill[n] : j \in DOMAIN T /\ T[j].assigned /\ ~T[j].handled
  BY <1>1 DEF ListsInv
<1>4. ASSUME bill[n] # {}
      PROVE  /\ i \in bill[n] /\ i \in DOMAIN T
             /\ T[i].trace \in Traces /\ T[i].asset = Asked(chain, T[i].trace).asset
             /\ T[i].amount = Due(chain, T[i].trace)
             /\ \A j \in DOMAIN T : T[j].trace = T[i].trace => j = i
  <2>1. bill[n] \in SUBSET Nat
    BY <1>2, <1>3
  <2>2. i \in bill[n] /\ i \in DOMAIN T
    BY <1>3, <1>4, <2>1, LeastIsMin
  <2> HIDE DEF i, T
  <2>3. T[i].trace \in Traces /\ T[i].asset = Asked(chain, T[i].trace).asset
    BY <1>1, <2>2 DEF TransfersInv, Request
  <2>4. T[i].amount = Due(chain, T[i].trace)
    BY <1>1, <2>2 DEF TransfersInv, MergesInv, Due
  <2>5. ASSUME NEW j \in DOMAIN T, T[j].trace = T[i].trace
        PROVE  j = i
    <3>1. CASE T[i].trace.merges # {}
      BY <1>1, <2>2, <2>5, <3>1 DEF MergesInv
    <3>2. CASE T[i].trace.merges = {}
      <4> DEFINE b == T[i].trace
      <4>1. b.output \in Nat /\ b.nr \in Nat
        BY <2>3 DEF Traces
      <4>2. ~Before(b, b)
        <5> HIDE DEF b
        <5> QED
          BY <4>1 DEF Before
      <4>3. ~(i < j) /\ ~(j < i)
        BY <1>1, <2>2, <2>5, <3>2, <4>2 DEF TransfersInv
      <4> QED
        BY <1>2, <2>2, <4>3
    <3> QED
      BY <3>1, <3>2
  <2> QED
    BY <2>2, <2>3, <2>4, <2>5
<1> QED
  BY <1>3, <1>4 DEF i, T

\* Transfers keep their trace, their amount and whether they are handled; new
\* ones are not, and there is at most one merge.
MoreOf(n) ==
  LET T == transfers[n]
      new == transfers'[n]
  IN  /\ DOMAIN T \subseteq DOMAIN new
      /\ \A i \in DOMAIN T :
           /\ new[i].trace = T[i].trace /\ new[i].amount = T[i].amount
           /\ new[i].handled = T[i].handled
      /\ \A i \in DOMAIN new : i \in DOMAIN T \/
           /\ new[i].handled = FALSE
           /\ new[i].trace.merges # {} =>
                /\ new[i].amount = Due(chain, new[i].trace)
                /\ Block(spentBy'[n], new[i].trace) # {}
                /\ Block(spentBy[n], new[i].trace) = {}
                /\ DOMAIN new = DOMAIN T \cup {i}

\* A step that leaves the cashier alone.
LEMMA MoreTransfers ==
  ASSUME WalletInv, PayInv, NEW n \in Nodes, RowsKept(n),
         UNCHANGED <<chain, sigs, executed, raws, view, bill, spending>>,
         \A b \in Traces : Block(spentBy[n], b) # {} =>
           Block(spentBy'[n], b) = Block(spentBy[n], b),
         MoreOf(n)
  PROVE  PayInv'
<1> DEFINE T == transfers[n]
           new == transfers'[n]
<1>a. /\ DOMAIN T \subseteq DOMAIN new
      /\ \A i \in DOMAIN T :
           /\ new[i].trace = T[i].trace /\ new[i].amount = T[i].amount
           /\ new[i].handled = T[i].handled
      /\ \A i \in DOMAIN new : i \in DOMAIN T \/
           /\ new[i].handled = FALSE
           /\ new[i].trace.merges # {} =>
                /\ new[i].amount = Due(chain, new[i].trace)
                /\ Block(spentBy'[n], new[i].trace) # {}
                /\ Block(spentBy[n], new[i].trace) = {}
                /\ DOMAIN new = DOMAIN T \cup {i}
  BY DEF MoreOf
<1>1. /\ PayerInv(n) /\ MergesInv(chain, spentBy[n], T)
      /\ \A i \in DOMAIN T : T[i].trace \in Traces
  BY DEF PayInv, PayerInv, WalletInv, NodeInv, TransfersInv, Request
<1>2. /\ spending[n].stage # "spend" => bill[n] # {}
      /\ \A j \in bill[n] : j \in DOMAIN T /\ ~T[j].handled
      /\ bill[n] # {} => Min(bill[n]) \in DOMAIN T
  BY CurrentTransfer
<1>3. bill[n] # {} => Current(n)'.trace = Current(n).trace
  BY <1>2, <1>a DEF Current
<1>4. ASSUME NEW b \in Traces, Done(n, b)'
      PROVE  Done(n, b)
  <2>1. CASE \E i \in DOMAIN new : new[i].trace = b /\ new[i].handled
    <3>1. PICK i \in DOMAIN new : new[i].trace = b /\ new[i].handled
      BY <2>1
    <3>2. i \in DOMAIN T
      BY <1>a, <3>1
    <3> QED
      BY <1>a, <3>1, <3>2 DEF Done
  <2>2. CASE spending[n].stage = "handled" /\ Current(n)'.trace = b
    BY <1>2, <1>3, <2>2 DEF Done
  <2> QED
    BY <1>4, <2>1, <2>2 DEF Done
<1>5. MergesInv(chain, spentBy'[n], new)
  <2>1. ASSUME NEW i \in DOMAIN new, new[i].trace.merges # {}
        PROVE  new[i].amount = Due(chain, new[i].trace) /\ Block(spentBy'[n], new[i].trace) # {}
    <3>1. CASE i \in DOMAIN T
      BY <1>1, <1>a, <2>1, <3>1 DEF MergesInv
    <3>2. CASE i \notin DOMAIN T
      BY <1>a, <2>1, <3>2
    <3> QED
      BY <3>1, <3>2
  <2>2. ASSUME NEW i \in DOMAIN new, NEW j \in DOMAIN new,
               new[i].trace.merges # {}, new[i].trace = new[j].trace
        PROVE  i = j
    <3>1. CASE i \in DOMAIN T /\ j \in DOMAIN T
      BY <1>1, <1>a, <2>2, <3>1 DEF MergesInv
    <3>2. CASE i \in DOMAIN T /\ j \notin DOMAIN T
      <4>1. Block(spentBy[n], T[i].trace) # {}
        BY <1>1, <1>a, <2>2, <3>2 DEF MergesInv
      <4> QED
        BY <1>a, <2>2, <3>2, <4>1
    <3>3. CASE i \notin DOMAIN T /\ j \in DOMAIN T
      <4>1. Block(spentBy[n], T[j].trace) # {}
        BY <1>1, <1>a, <2>2, <3>3 DEF MergesInv
      <4> QED
        BY <1>a, <2>2, <3>3, <4>1
    <3>4. CASE i \notin DOMAIN T /\ j \notin DOMAIN T
      BY <1>a, <2>2, <3>4
    <3> QED
      BY <3>1, <3>2, <3>3, <3>4
  <2> QED
    BY <2>1, <2>2 DEF MergesInv
<1>6. SignedTxs' = SignedTxs
  BY DEF SignedTxs
<1>7. ASSUME NEW k \in DOMAIN view[n] PROVE ToldInv(k, view[n][k])'
  <2>1. ToldInv(k, view[n][k])
    BY <1>1 DEF PayerInv
  <2> QED
    BY <1>6, <2>1 DEF ToldInv
<1>8. CashierInv(n)'
  <2>1. \A i \in bill[n] : ~new[i].handled
    BY <1>2, <1>a
  <2>2. spending[n].stage = "raw" =>
          <<spending[n].tx, n>> \in sigs /\ spending[n].tx.trace = Current(n)'.trace
    BY <1>1, <1>2, <1>3 DEF PayerInv, CashierInv
  <2> QED
    BY <2>1, <2>2 DEF CashierInv
<1>9. PayerInv(n)'
  BY <1>5, <1>7, <1>8 DEF PayerInv
<1> QED
  BY <1>4, <1>9, QuietStep

LEMMA HandleOutputPay ==
  ASSUME WalletInv, PayInv, NEW n \in Nodes, HandleOutput(n)
  PROVE  PayInv'
<1> DEFINE k == handledTo[n] + 1
           T == transfers[n]
           p == chain[k].pays
           row(i) == NewTransfer(k, i, p[i].asset, p[i].amount, {})
           more == [i \in DOMAIN p |-> row(i)]
<1>1. /\ UNCHANGED <<chain, sigs, executed, raws, view, bill, spending>>
      /\ UNCHANGED spentBy
      /\ transfers' = [transfers EXCEPT ![n] = T \o more]
  BY DEF HandleOutput, netVars, workers
<1>2. /\ IsTable(transfers) /\ T \in Seq(Range(T)) /\ p \in Seq(Pays)
  <2>1. /\ ChainInv(chain) /\ SpentInv(chain, handledTo[n], spentBy[n])
        /\ Len(view[n]) = Len(spentBy[n]) /\ k <= Len(view[n])
    BY DEF WalletInv, NodeInv, HandleOutput
  <2>2. k \in DOMAIN chain
    <3>1. /\ DOMAIN chain = 1..Len(chain) /\ Len(chain) \in Nat
          /\ Len(spentBy[n]) \in Nat /\ Len(spentBy[n]) <= Len(chain)
          /\ handledTo[n] \in 0..Len(spentBy[n])
      BY <2>1 DEF ChainInv, SpentInv
    <3> QED
      BY <2>1, <3>1
  <2> HIDE DEF k
  <2> QED
    BY <2>1, <2>2 DEF WalletInv, NodeInv, TransfersInv, ChainInv
<1>3. more \in Seq(Range(more))
  <2>1. more \in Seq({row(i) : i \in DOMAIN p})
    <3> HIDE DEF p
    <3> QED
      BY <1>2
  <2> HIDE DEF more
  <2> QED
    BY <2>1, OwnElements
<1>4. DOMAIN more = DOMAIN p /\ DOMAIN p = 1..Len(p) /\ Len(more) = Len(p) /\ Len(p) \in Nat
  <2>1. DOMAIN p = 1..Len(p) /\ Len(p) \in Nat
    BY <1>2
  <2> HIDE DEF p
  <2> QED
    BY <2>1
<1>5. \A i \in DOMAIN p : more[i].handled = FALSE /\ more[i].trace.merges = {}
  BY DEF NewTransfer
<1> HIDE DEF more, p, k, T
<1>6. /\ Len(T \o more) = Len(T) + Len(more)
      /\ DOMAIN (T \o more) = 1..(Len(T) + Len(more))
      /\ \A i \in DOMAIN T : (T \o more)[i] = T[i]
      /\ \A i \in DOMAIN more : (T \o more)[Len(T) + i] = more[i]
  BY ONLY <1>2, <1>3, Continued
<1> DEFINE new == T \o more
<1>7. DOMAIN T = 1..Len(T) /\ Len(T) \in Nat
  BY <1>2
<1>8. ASSUME NEW i \in DOMAIN new, i \notin DOMAIN T
      PROVE  new[i].handled = FALSE /\ new[i].trace.merges = {}
  <2>1. i - Len(T) \in DOMAIN more /\ i = Len(T) + (i - Len(T))
    BY <1>4, <1>6, <1>7, <1>8
  <2>2. new[i] = more[i - Len(T)]
    BY <1>6, <2>1
  <2> QED
    BY <1>4, <1>5, <2>1, <2>2
<1>9. DOMAIN T \subseteq DOMAIN new
  BY <1>4, <1>6, <1>7
<1> HIDE DEF new
<1>10. transfers'[n] = new /\ \A m \in Nodes : m # n => transfers'[m] = transfers[m]
  BY <1>1, <1>2 DEF IsTable, new
<1>11. RowsKept(n)
  BY <1>1, <1>10 DEF RowsKept
<1>12. \A i \in DOMAIN T : new[i] = T[i]
  BY <1>6 DEF new
<1>13. MoreOf(n)
  BY <1>8, <1>9, <1>10, <1>12 DEF MoreOf, T
<1> QED
  BY <1>1, <1>11, <1>13, MoreTransfers

LEMMA PassPay ==
  ASSUME WalletInv, PayInv, NEW n \in Nodes, NEW i \in DOMAIN transfers[n], Pass(n, i)
  PROVE  PayInv'
<1> DEFINE T == transfers[n]
           t == [T[i] EXCEPT !.passed = TRUE]
           new == [T EXCEPT ![i] = t]
<1>1. /\ UNCHANGED <<chain, sigs, executed, raws, view, bill, spending>>
      /\ UNCHANGED spentBy
      /\ transfers' = [transfers EXCEPT ![n] = new]
  BY DEF Pass, netVars, workers
<1>2. IsTable(transfers) /\ IsTransfer(T[i]) /\ T[i].handled \in BOOLEAN
  BY DEF WalletInv, NodeInv, TransfersInv
<1>3. t.trace = T[i].trace /\ t.amount = T[i].amount /\ t.handled = T[i].handled
  BY <1>2, ChangedState
<1> HIDE DEF t
<1>4. DOMAIN new = DOMAIN T /\ \A j \in DOMAIN T : new[j] = IF j = i THEN t ELSE T[j]
  OBVIOUS
<1> HIDE DEF new
<1>5. transfers'[n] = new /\ \A m \in Nodes : m # n => transfers'[m] = transfers[m]
  BY <1>1, <1>2 DEF IsTable
<1>6. RowsKept(n)
  BY <1>1, <1>5 DEF RowsKept
<1>7. \A j \in DOMAIN T :
        /\ new[j].trace = T[j].trace /\ new[j].amount = T[j].amount
        /\ new[j].handled = T[j].handled
  BY <1>3, <1>4
<1>8. MoreOf(n)
  BY <1>4, <1>5, <1>7 DEF MoreOf
<1> QED
  BY <1>1, <1>6, <1>8, MoreTransfers
\* The assigner gives outputs to a transfer that had none, or to a new merge.
LEMMA AssignNextPay ==
  ASSUME WalletInv, PayInv, NEW n \in Nodes, AssignNext(n)
  PROVE  PayInv'
<1> DEFINE h == handledTo[n]
           sp == spentBy[n]
           T == transfers[n]
           i == Min(todo[n])
           t == T[i]
           ids == Chosen(t, ListUnspent(n, t.asset))
           mt == [t.trace EXCEPT !.merges = ids]
           m == [NewTransfer(t.trace.output, t.trace.nr, t.asset, Sum(ids), ids)
                   EXCEPT !.version = t.version, !.assigned = TRUE]
<1>1. /\ NodeInv(n) /\ ChainInv(chain) /\ todo[n] # {}
      /\ IsTable(transfers) /\ IsTable(spentBy)
      /\ SpentInv(chain, h, sp) /\ TransfersInv(chain, h, sp, T)
  BY DEF WalletInv, NodeInv, AssignNext
<1>2. /\ i \in DOMAIN T /\ t.version = 0 /\ t.trace \in Traces /\ T \in Seq(Range(T))
      /\ IsTransfer(t) /\ t.handled \in BOOLEAN
  BY <1>1, FirstInLine DEF Request, TransfersInv
<1>3. t.asset \notin aborted[n] =>
        /\ Covers(ids, t.amount) => NextBlock(chain, h, sp, t.trace, ids)
        /\ ~Covers(ids, t.amount) /\ MustMerge(ids) =>
             NextBlock(chain, h, sp, mt, ids) /\ mt.merges # {}
  BY <1>1, Giving
<1>4. \/ UNCHANGED <<spentBy, transfers>>
      \/ t.asset \notin aborted[n] /\ Covers(ids, t.amount) /\ Assign(n, i, ids)
      \/ /\ t.asset \notin aborted[n] /\ ~Covers(ids, t.amount) /\ MustMerge(ids)
         /\ Merge(n, i, ids)
  BY DEF AssignNext
<1>5. UNCHANGED <<chain, sigs, executed, raws, view, bill, spending>>
  BY DEF AssignNext, netVars
\* A block is given to a trace that has none.
<1>6. ASSUME NEW b, NEW B, NextBlock(chain, h, sp, b, B), Spent(n, B, b)
      PROVE  /\ Block(sp, b) = {} /\ Block(spentBy'[n], b) = B /\ B # {}
             /\ \A c \in Traces : Block(sp, c) # {} => Block(spentBy'[n], c) = Block(sp, c)
             /\ \A l \in Nodes : l # n => spentBy'[l] = spentBy[l]
  <2>1. spentBy'[n] = Given(sp, B, b) /\ \A l \in Nodes : l # n => spentBy'[l] = spentBy[l]
    BY <1>1, <1>6 DEF Spent, Given, IsTable
  <2>2. /\ Block(sp, b) = {} /\ Block(Given(sp, B, b), b) = B
        /\ \A c \in Traces : c # b => Block(Given(sp, B, b), c) = Block(sp, c)
    BY <1>1, <1>6, NewBlock
  <2>3. B # {}
    BY <1>6 DEF NextBlock, Exact
  <2> QED
    BY <2>1, <2>2, <2>3
<1>7. CASE UNCHANGED <<spentBy, transfers>>
  <2>1. RowsKept(n) /\ MoreOf(n)
    BY <1>5, <1>7 DEF RowsKept, MoreOf
  <2> QED
    BY <1>5, <1>7, <2>1, MoreTransfers
<1>8. CASE t.asset \notin aborted[n] /\ Covers(ids, t.amount) /\ Assign(n, i, ids)
  <2> DEFINE u == [t EXCEPT !.assigned = TRUE]
             new == [T EXCEPT ![i] = u]
  <2>1. /\ NextBlock(chain, h, sp, t.trace, ids) /\ Spent(n, ids, t.trace)
        /\ transfers' = [transfers EXCEPT ![n] = new]
    BY <1>3, <1>8 DEF Assign
  <2>2. u.trace = t.trace /\ u.amount = t.amount /\ u.handled = t.handled
    BY <1>2, ChangedState
  <2> HIDE DEF ids, u
  <2>3. /\ \A c \in Traces : Block(sp, c) # {} => Block(spentBy'[n], c) = Block(sp, c)
        /\ \A l \in Nodes : l # n => spentBy'[l] = spentBy[l]
    BY <1>6, <2>1
  <2>4. DOMAIN new = DOMAIN T /\ \A j \in DOMAIN T : new[j] = IF j = i THEN u ELSE T[j]
    OBVIOUS
  <2> HIDE DEF new
  <2>5. transfers'[n] = new /\ \A l \in Nodes : l # n => transfers'[l] = transfers[l]
    BY <1>1, <2>1 DEF IsTable
  <2>6. RowsKept(n)
    BY <1>5, <2>3, <2>5 DEF RowsKept
  <2>7. \A j \in DOMAIN T :
          /\ new[j].trace = T[j].trace /\ new[j].amount = T[j].amount
          /\ new[j].handled = T[j].handled
    BY <2>2, <2>4
  <2>8. MoreOf(n)
    BY <2>4, <2>5, <2>7 DEF MoreOf
  <2> QED
    BY <1>5, <2>3, <2>6, <2>8, MoreTransfers
<1>9. CASE /\ t.asset \notin aborted[n] /\ ~Covers(ids, t.amount) /\ MustMerge(ids)
           /\ Merge(n, i, ids)
  <2> DEFINE new == Append(T, m)
             b == t.trace
             a == t.asset
             s == Sum(ids)
             u == [NewTransfer(b.output, b.nr, a, s, ids) EXCEPT !.version = 0, !.assigned = TRUE]
  <2>1. NextBlock(chain, h, sp, mt, ids) /\ mt.merges # {}
    BY <1>3, <1>9
  <2>2. Spent(n, ids, m.trace) /\ transfers' = [transfers EXCEPT ![n] = new]
    BY <1>9 DEF Merge
  <2>3. m = u /\ b \in Traces
    BY <1>2
  <2> HIDE DEF t, ids, m
  <2>4. /\ u.trace = [b EXCEPT !.merges = ids] /\ u.asset = a
        /\ u.assigned = TRUE /\ u.handled = FALSE /\ IsTransfer(u)
    <3> HIDE DEF b, a, s
    <3> QED
      BY <2>3, MergeItself
  <2>5. u.amount = Sum(ids)
    BY DEF NewTransfer
  <2> HIDE DEF u
  <2>6. m.trace = mt /\ m.handled = FALSE /\ m.amount = Sum(ids)
    BY <2>3, <2>4, <2>5
  <2>7. mt.merges = ids
    BY <1>2, <2>3 DEF Traces
  <2> HIDE DEF mt
  <2>8. m.amount = Due(chain, m.trace)
    BY <2>1, <2>6, <2>7 DEF Due, Sum
  <2>9. /\ Block(sp, m.trace) = {} /\ Block(spentBy'[n], m.trace) # {}
        /\ \A c \in Traces : Block(sp, c) # {} => Block(spentBy'[n], c) = Block(sp, c)
        /\ \A l \in Nodes : l # n => spentBy'[l] = spentBy[l]
    BY <1>6, <2>1, <2>2, <2>6
  <2>10. /\ DOMAIN T = 1..Len(T) /\ Len(T) \in Nat /\ DOMAIN new = 1..(Len(T) + 1)
         /\ \A j \in DOMAIN T : new[j] = T[j]
         /\ new[Len(T) + 1] = m
    BY <1>2, Appended
  <2> HIDE DEF new
  <2>11. DOMAIN new = DOMAIN T \cup {Len(T) + 1}
    BY <2>10
  <2>12. transfers'[n] = new /\ \A l \in Nodes : l # n => transfers'[l] = transfers[l]
    BY <1>1, <2>2 DEF IsTable
  <2>13. RowsKept(n)
    BY <1>5, <2>9, <2>12 DEF RowsKept
  <2>14. MoreOf(n)
    <3> DEFINE z == Len(T) + 1
    <3>1. z = Len(T) + 1
      OBVIOUS
    <3> HIDE DEF z, T
    <3>2. \A j \in DOMAIN new : j \in DOMAIN T \/ j = z
      BY <2>11, <3>1
    <3>3. new[z] = m /\ DOMAIN new = DOMAIN T \cup {z} /\ \A j \in DOMAIN T : new[j] = T[j]
      BY <2>10, <2>11, <3>1
    <3> QED
      BY <2>6, <2>8, <2>9, <2>12, <3>2, <3>3 DEF MoreOf, T
  <2> QED
    BY <1>5, <2>9, <2>13, <2>14, MoreTransfers
<1> QED
  BY <1>4, <1>7, <1>8, <1>9

\* A step of the cashier that pays nothing: of the node's rows it changes the
\* list, the stage and whether the current transfer is handled.
LEMMA CashierStep ==
  ASSUME WalletInv, PayInv, NEW n \in Nodes, RowsKept(n),
         UNCHANGED <<chain, sigs, executed, raws, view, spentBy>>,
         UNCHANGED transfers,
         \A b \in Traces : Done(n, b)' => Done(n, b),
         CashierInv(n)'
  PROVE  PayInv'
<1>1. PayerInv(n)
  BY DEF PayInv
<1>2. SignedTxs' = SignedTxs
  BY DEF SignedTxs
<1>3. ASSUME NEW k \in DOMAIN view[n] PROVE ToldInv(k, view[n][k])'
  <2>1. ToldInv(k, view[n][k])
    BY <1>1 DEF PayerInv
  <2> QED
    BY <1>2, <2>1 DEF ToldInv
<1>4. PayerInv(n)'
  BY <1>1, <1>3 DEF PayerInv
<1> QED
  BY <1>4, QuietStep

LEMMA ListAssignedPay ==
  ASSUME WalletInv, PayInv, NEW n \in Nodes, ListAssigned(n)
  PROVE  PayInv'
<1> DEFINE L == Lowest(Assigned(n), CashierBatch)
<1>1. /\ UNCHANGED <<chain, sigs, executed, raws, view, spentBy>>
      /\ UNCHANGED <<transfers, spending>>
      /\ bill[n] = {} /\ bill' = [bill EXCEPT ![n] = L]
  BY DEF ListAssigned, netVars, tables
<1>2. /\ IsTable(bill) /\ spending[n].stage = "spend"
  BY <1>1, CurrentTransfer DEF WalletInv
<1>3. \A i \in L : ~transfers[n][i].handled
  BY DEF Lowest, Assigned
<1> HIDE DEF L
<1>4. bill'[n] = L /\ \A m \in Nodes : m # n => bill'[m] = bill[m]
  BY <1>1, <1>2 DEF IsTable
<1>5. RowsKept(n)
  BY <1>1, <1>4 DEF RowsKept
<1>6. \A b \in Traces : Done(n, b)' => Done(n, b)
  BY <1>1, <1>2 DEF Done
<1>7. CashierInv(n)'
  BY <1>1, <1>2, <1>3, <1>4 DEF CashierInv
<1> QED
  BY <1>1, <1>5, <1>6, <1>7, CashierStep

LEMMA CrashPay ==
  ASSUME WalletInv, PayInv, NEW n \in Nodes, Crash(n)
  PROVE  PayInv'
<1>1. /\ UNCHANGED <<chain, sigs, executed, raws, view, spentBy>>
      /\ UNCHANGED transfers
      /\ bill' = [bill EXCEPT ![n] = {}] /\ spending' = [spending EXCEPT ![n] = Idle]
  BY DEF Crash, netVars, tables
<1>2. IsTable(bill) /\ IsTable(spending)
  BY DEF WalletInv
<1>3. /\ bill'[n] = {} /\ spending'[n].stage = "spend"
      /\ \A m \in Nodes : m # n => bill'[m] = bill[m] /\ spending'[m] = spending[m]
  BY <1>1, <1>2 DEF IsTable, Idle
<1>4. RowsKept(n)
  BY <1>1, <1>3 DEF RowsKept
<1>5. \A b \in Traces : Done(n, b)' => Done(n, b)
  BY <1>1, <1>3 DEF Done
<1>6. CashierInv(n)'
  BY <1>3 DEF CashierInv
<1> QED
  BY <1>1, <1>4, <1>5, <1>6, CashierStep
LEMMA MarkHandledPay ==
  ASSUME WalletInv, PayInv, NEW n \in Nodes, MarkHandled(n)
  PROVE  PayInv'
<1> DEFINE T == transfers[n]
           i == Min(bill[n])
           t == [T[i] EXCEPT !.handled = TRUE]
           new == [T EXCEPT ![i] = t]
<1>1. /\ UNCHANGED <<chain, sigs, executed, raws, view, spentBy>>
      /\ transfers' = [transfers EXCEPT ![n] = new]
      /\ bill' = [bill EXCEPT ![n] = bill[n] \ {i}]
      /\ spending' = [spending EXCEPT ![n] = Idle]
      /\ spending[n].stage = "handled"
  BY DEF MarkHandled, netVars
<1>2. /\ IsTable(transfers) /\ IsTable(bill) /\ IsTable(spending) /\ PayerInv(n)
  BY DEF WalletInv, PayInv
<1>3. /\ i \in DOMAIN T /\ \A j \in bill[n] : j \in DOMAIN T /\ ~T[j].handled
  BY <1>1, CurrentTransfer
<1> HIDE DEF i
<1>4. t.trace = T[i].trace /\ t.amount = T[i].amount
  <2>1. IsTransfer(T[i]) /\ T[i].handled \in BOOLEAN
    BY <1>3 DEF WalletInv, NodeInv, TransfersInv
  <2> QED
    BY <2>1, ChangedState
<1> HIDE DEF t
<1>5. DOMAIN new = DOMAIN T /\ \A j \in DOMAIN T : new[j] = IF j = i THEN t ELSE T[j]
  BY <1>3
<1> HIDE DEF new
<1>6. /\ transfers'[n] = new /\ bill'[n] = bill[n] \ {i} /\ spending'[n].stage = "spend"
      /\ \A m \in Nodes : m # n =>
           transfers'[m] = transfers[m] /\ bill'[m] = bill[m] /\ spending'[m] = spending[m]
  BY <1>1, <1>2 DEF IsTable, Idle
<1>7. RowsKept(n)
  BY <1>1, <1>6 DEF RowsKept
<1>8. ASSUME NEW b \in Traces, Done(n, b)' PROVE Done(n, b)
  <2>1. PICK j \in DOMAIN new : new[j].trace = b /\ new[j].handled
    BY <1>6, <1>8 DEF Done
  <2>2. CASE j = i
    <3>1. Current(n).trace = b
      BY <1>3, <1>4, <1>5, <2>1, <2>2 DEF Current, i
    <3> QED
      BY <1>1, <3>1 DEF Done
  <2>3. CASE j # i
    BY <1>5, <2>1, <2>3 DEF Done
  <2> QED
    BY <2>2, <2>3
<1>9. MergesInv(chain, spentBy[n], new)
  <2>1. \A j \in DOMAIN T : new[j].trace = T[j].trace /\ new[j].amount = T[j].amount
    BY <1>4, <1>5
  <2> QED
    BY <1>2, <1>5, <2>1 DEF PayerInv, MergesInv
<1>10. SignedTxs' = SignedTxs
  BY <1>1 DEF SignedTxs
<1>11. ASSUME NEW k \in DOMAIN view[n] PROVE ToldInv(k, view[n][k])'
  <2>1. ToldInv(k, view[n][k])
    BY <1>2 DEF PayerInv
  <2> QED
    BY <1>1, <1>10, <2>1 DEF ToldInv
<1>12. CashierInv(n)'
  BY <1>3, <1>5, <1>6 DEF CashierInv
<1>13. PayerInv(n)'
  BY <1>1, <1>6, <1>9, <1>11, <1>12 DEF PayerInv
<1> QED
  BY <1>1, <1>7, <1>8, <1>13, QuietStep

\* The payment is kept for the sender: only now is the node done with it.
LEMMA CreateRawPay ==
  ASSUME WalletInv, PayInv, NEW n \in Nodes, CreateRawTransaction(n)
  PROVE  PayInv'
<1> DEFINE tx == spending[n].tx
           R == IF \E r \in raws[n] : r.trace = tx.trace THEN raws[n] ELSE raws[n] \cup {tx}
<1>1. /\ UNCHANGED <<chain, sigs, executed, view, spentBy, transfers, bill>>
      /\ spending[n].stage = "raw"
      /\ raws' = [raws EXCEPT ![n] = R]
      /\ spending' = [spending EXCEPT ![n] = [stage |-> "handled", tx |-> NoTx]]
  BY DEF CreateRawTransaction, Proceed, netVars
<1>2. /\ IsTable(spending) /\ IsTable(raws) /\ PayerInv(n) /\ PaidInv
      /\ executed \subseteq SignedTxs /\ \A m \in Nodes : raws[m] \subseteq SignedTxs
  BY DEF WalletInv, PayInv, PaidInv
<1>3. <<tx, n>> \in sigs /\ tx.trace = Current(n).trace
  BY <1>1, <1>2 DEF PayerInv, CashierInv
<1>4. tx \in SignedTxs
  BY <1>3 DEF SignedTxs
<1>5. \A ux \in SignedTxs : ux.trace = tx.trace => ux = tx
  BY <1>2, <1>4, OnePayout
<1>6. tx \in R /\ R \subseteq SignedTxs /\ raws[n] \subseteq R
  <2>1. ASSUME NEW r \in raws[n], r.trace = tx.trace PROVE tx \in R
    BY <1>2, <1>5, <2>1
  <2> QED
    BY <1>2, <1>4, <2>1
<1> HIDE DEF R
<1>7. /\ raws'[n] = R /\ Changed(raws, raws', n)
      /\ spending'[n].stage = "handled"
      /\ \A m \in Nodes : m # n => raws'[m] = raws[m] /\ spending'[m] = spending[m]
  BY <1>1, <1>2 DEF IsTable, Changed
<1>8. IsTable(raws')
  BY <1>2, <1>7, ChangedRow
<1>9. RowsKept(n)
  BY <1>1, <1>7 DEF RowsKept
<1>10. SignedTxs' = SignedTxs /\ \A ux : Signers(ux)' = Signers(ux)
  BY <1>1 DEF SignedTxs, Signers
<1>11. \A m \in Nodes : \A b : Done(m, b)' => Done(m, b) \/ (m = n /\ b = tx.trace)
  BY <1>1, <1>3, <1>7 DEF Done, Current
<1>12. PaidInv'
  <2>1. SamePayouts
    BY <1>1 DEF SamePayouts, Payout, Due, Asked
  <2>2. \A m \in Nodes : raws'[m] \subseteq SignedTxs' /\ raws[m] \subseteq raws'[m]
    BY <1>2, <1>6, <1>7, <1>10
  <2>3. ASSUME NEW m \in Nodes, NEW b \in Traces, Done(m, b)'
        PROVE  Done(m, b) \/
                 \E ux \in SignedTxs' : ux.trace = b /\ (ux \in executed' \/ <<ux, m>> \in sigs')
    BY <1>1, <1>3, <1>4, <1>10, <1>11, <2>3
  <2>4. ASSUME NEW ux \in SignedTxs'
        PROVE  Kept(ux)' \/
                 (/\ ux \in SignedTxs /\ Signers(ux)' = Signers(ux)
                  /\ \A m \in Nodes : Done(m, ux.trace)' => Done(m, ux.trace))
    <3>1. CASE ux.trace = tx.trace
      <4>1. ux = tx
        BY <1>5, <1>10, <3>1
      <4> QED
        BY <1>6, <1>7, <4>1 DEF Kept
    <3>2. CASE ux.trace # tx.trace
      BY <1>10, <1>11, <3>2
    <3> QED
      BY <3>1, <3>2
  <2>5. /\ sigs \subseteq sigs' /\ executed \subseteq executed' /\ executed' \subseteq SignedTxs'
        /\ SignedTxs' \subseteq SignedTxs
    BY <1>1, <1>2, <1>10
  <2> QED
    BY <1>2, <2>1, <2>2, <2>3, <2>4, <2>5, PaidStep
<1>13. ASSUME NEW k \in DOMAIN view[n] PROVE ToldInv(k, view[n][k])'
  <2>1. ToldInv(k, view[n][k])
    BY <1>2 DEF PayerInv
  <2> QED
    BY <1>1, <1>10, <2>1 DEF ToldInv
<1>14. CashierInv(n)'
  BY <1>1, <1>2, <1>7 DEF PayerInv, CashierInv
<1>15. PayerInv(n)'
  BY <1>1, <1>2, <1>13, <1>14 DEF PayerInv
<1> QED
  BY <1>1, <1>8, <1>9, <1>12, <1>15, PayerStep

\* What the cashier signs, or finds spent, is the payment.
LEMMA PaysItsBlock ==
  ASSUME WalletInv, PayInv, NEW n \in Nodes, bill[n] # {},
         NEW inputs, inputs = ListSpentBy(n, Current(n)),
         NEW v, v \in {view[n][k] : k \in inputs},
         NEW tx, tx = IF v.tx = NoTx THEN Transaction(Current(n), inputs) ELSE v.tx
  PROVE  /\ Current(n).trace \in Traces /\ tx.trace = Current(n).trace
         /\ Block(spentBy[n], tx.trace) # {} /\ tx = Payout(chain, spentBy[n], tx.trace)
         /\ v.state = "spent" => tx \in executed /\ tx \in SignedTxs
<1> DEFINE t == Current(n)
           sp == spentBy[n]
           b == t.trace
<1>1. /\ b \in Traces /\ t.asset = Asked(chain, b).asset /\ t.amount = Due(chain, b)
  BY CurrentTransfer DEF Current
<1>2. inputs = Block(sp, b)
  BY DEF ListSpentBy, Block
<1>3. PICK k \in inputs : v = view[n][k]
  OBVIOUS
<1>4. ToldInv(k, v)
  <2>1. /\ view[n] \in Seq(Range(view[n])) /\ Len(view[n]) = Len(sp)
        /\ sp \in Seq(Traces \cup {NoTrace})
        /\ \A x \in DOMAIN view[n] : ToldInv(x, view[n][x])
    BY DEF WalletInv, NodeInv, SpentInv, PayInv, PayerInv
  <2>2. DOMAIN view[n] = DOMAIN sp
    BY <2>1
  <2>3. k \in DOMAIN sp
    BY <1>2, <1>3 DEF Block
  <2> QED
    BY <1>3, <2>1, <2>2, <2>3
<1> HIDE DEF t, sp
<1>5. tx = Payout(chain, sp, b) /\ (v.state = "spent" => tx \in executed /\ tx \in SignedTxs)
  <2>1. CASE v = Unspent
    <3>1. tx = Transaction(t, inputs)
      BY <2>1 DEF Unspent, t
    <3> QED
      BY <1>1, <1>2, <2>1, <3>1 DEF Transaction, Payout, Unspent
  <2>2. CASE v # Unspent
    <3>1. v.tx \in SignedTxs /\ k \in v.tx.inputs /\ (v.state = "spent" => v.tx \in executed)
      BY <1>4, <2>2 DEF ToldInv
    <3>2. v.tx = Payout(chain, sp, b)
      BY <1>1, <1>2, <1>3, <3>1, OnePayout DEF PayInv, sp
    <3>3. v.tx # NoTx
      <4>1. Payout(chain, sp, b).trace = b /\ NoTx.trace = NoTrace /\ b # NoTrace
        BY <1>1, PaymentTrace DEF Payout, NoTx
      <4> QED
        BY <3>2, <4>1
    <3> QED
      BY <3>1, <3>2, <3>3
  <2> QED
    BY <2>1, <2>2
<1>6. Payout(chain, sp, b).trace = b
  BY DEF Payout
<1>7. tx.trace = b /\ Block(sp, b) # {}
  BY <1>2, <1>3, <1>5, <1>6
<1> QED
  BY <1>1, <1>5, <1>7 DEF t, sp

\* The payment is signed.
LEMMA SignPay ==
  ASSUME WalletInv, PayInv, NEW n \in Nodes, bill[n] # {}, spending[n].stage = "spend",
         NEW tx, tx.trace = Current(n).trace, tx.trace \in Traces,
         Block(spentBy[n], tx.trace) # {}, tx = Payout(chain, spentBy[n], tx.trace),
         sigs' = sigs \cup {<<tx, n>>},
         IF SignedByEnough(Signers(tx) \cup {n})
         THEN Proceed(n, "raw", tx) ELSE Proceed(n, "handled", NoTx),
         UNCHANGED <<chain, executed, view, spentBy, transfers, raws>>
  PROVE  PayInv'
<1> DEFINE T == transfers[n]
           i == Min(bill[n])
<1>1. /\ IsTable(spending) /\ IsTable(raws) /\ PayerInv(n) /\ PaidInv
      /\ executed \subseteq SignedTxs /\ \A m \in Nodes : raws[m] \subseteq SignedTxs
  BY DEF WalletInv, PayInv, PaidInv
<1>2. /\ i \in DOMAIN T /\ ~T[i].handled /\ T[i].trace = tx.trace
      /\ \A j \in DOMAIN T : T[j].trace = tx.trace => j = i
  BY CurrentTransfer DEF Current
<1> HIDE DEF T, i
<1>3. \A ux \in SignedTxs : ux.trace = tx.trace => ux = tx
  <2>1. ASSUME NEW ux \in SignedTxs, ux.trace = tx.trace PROVE ux = tx
    <3>1. ux = Payout(chain, spentBy[n], ux.trace)
      BY <1>1, <2>1, OnePayout
    <3> QED
      BY <2>1, <3>1
  <2> QED
    BY <2>1
<1>4. /\ SignedTxs \subseteq SignedTxs' /\ tx \in SignedTxs'
      /\ \A ux \in SignedTxs' : ux \in SignedTxs \/ ux = tx
  <2>1. <<tx, n>>[1] = tx
    OBVIOUS
  <2>2. \A ux \in SignedTxs' : \E s \in sigs \cup {<<tx, n>>} : ux = s[1]
    BY DEF SignedTxs
  <2> QED
    BY <2>1, <2>2 DEF SignedTxs
<1>5. Signers(tx)' = Signers(tx) \cup {n} /\ \A ux : ux # tx => Signers(ux)' = Signers(ux)
  BY DEF Signers
<1>6. /\ UNCHANGED bill /\ \A m \in Nodes : m # n => spending'[m] = spending[m]
      /\ \/ spending'[n].stage = "raw" /\ spending'[n].tx = tx
         \/ /\ spending'[n].stage = "handled"
            /\ ~(Cardinality(Signers(tx) \cup {n}) >= Threshold)
  BY <1>1 DEF Proceed, SignedByEnough, IsTable
<1>7. RowsKept(n)
  BY <1>6 DEF RowsKept
<1>8. \A m \in Nodes : \A b : Done(m, b)' => Done(m, b) \/ (m = n /\ b = tx.trace)
  BY <1>6 DEF Done, Current
<1>9. PaidInv'
  <2>1. SamePayouts
    BY DEF SamePayouts, Payout, Due, Asked
  <2>2. \A m \in Nodes : raws'[m] \subseteq SignedTxs' /\ raws[m] \subseteq raws'[m]
    BY <1>1, <1>4
  <2>3. ASSUME NEW m \in Nodes, NEW b \in Traces, Done(m, b)'
        PROVE  Done(m, b) \/
                 \E ux \in SignedTxs' : ux.trace = b /\ (ux \in executed' \/ <<ux, m>> \in sigs')
    BY <1>4, <1>8, <2>3
  <2>4. ASSUME NEW ux \in SignedTxs', Cardinality(Signers(ux)') >= Threshold
        PROVE  Kept(ux)' \/
                 (/\ ux \in SignedTxs /\ Signers(ux)' = Signers(ux)
                  /\ \A m \in Nodes : Done(m, ux.trace)' => Done(m, ux.trace))
    <3>1. CASE ux = tx
      <4>1. spending'[n].stage = "raw"
        BY <1>5, <1>6, <2>4, <3>1
      <4>2. ~Done(n, tx.trace)'
        BY <1>2, <4>1 DEF Done, T
      <4> QED
        BY <3>1, <4>2 DEF Kept
    <3>2. CASE ux # tx
      BY <1>3, <1>4, <1>5, <1>8, <3>2
    <3> QED
      BY <3>1, <3>2
  <2>5. ASSUME NEW ux \in SignedTxs'
        PROVE  ux \in SignedTxs \/
           (ux.trace \in Traces /\ \E m \in Nodes :
              Block(spentBy'[m], ux.trace) # {} /\ ux = Payout(chain', spentBy'[m], ux.trace))
    BY <1>4, <2>5
  <2>6. sigs \subseteq sigs' /\ executed \subseteq executed' /\ executed' \subseteq SignedTxs'
    BY <1>1, <1>4
  <2> QED
    BY <1>1, <2>1, <2>2, <2>3, <2>4, <2>5, <2>6, PaidStep
<1>10. ASSUME NEW k \in DOMAIN view[n] PROVE ToldInv(k, view[n][k])'
  <2>1. ToldInv(k, view[n][k])
    BY <1>1 DEF PayerInv
  <2> QED
    BY <1>4, <2>1 DEF ToldInv
<1>11. CashierInv(n)'
  BY <1>1, <1>6 DEF PayerInv, CashierInv, Current
<1>12. PayerInv(n)'
  BY <1>1, <1>10, <1>11 DEF PayerInv
<1> QED
  BY <1>1, <1>7, <1>9, <1>12, PayerStep

\* The payment is found executed.
LEMMA SpentPay ==
  ASSUME WalletInv, PayInv, NEW n \in Nodes,
         NEW tx \in executed, tx.trace = Current(n).trace,
         Proceed(n, "handled", NoTx),
         UNCHANGED <<chain, sigs, executed, view, spentBy, transfers, raws>>
  PROVE  PayInv'
<1>1. /\ IsTable(spending) /\ IsTable(raws) /\ PayerInv(n) /\ PaidInv
      /\ executed \subseteq SignedTxs /\ \A m \in Nodes : raws[m] \subseteq SignedTxs
  BY DEF WalletInv, PayInv, PaidInv
<1>2. \A ux \in SignedTxs : ux.trace = tx.trace => ux = tx
  BY <1>1, OnePayout
<1>3. /\ UNCHANGED bill /\ spending'[n].stage = "handled"
      /\ \A m \in Nodes : m # n => spending'[m] = spending[m]
  BY <1>1 DEF Proceed, IsTable
<1>4. RowsKept(n)
  BY <1>3 DEF RowsKept
<1>5. SignedTxs' = SignedTxs /\ \A ux : Signers(ux)' = Signers(ux)
  BY DEF SignedTxs, Signers
<1>6. \A m \in Nodes : \A b : Done(m, b)' => Done(m, b) \/ (m = n /\ b = tx.trace)
  BY <1>3 DEF Done, Current
<1>7. PaidInv'
  <2>1. SamePayouts
    BY DEF SamePayouts, Payout, Due, Asked
  <2>2. ASSUME NEW m \in Nodes, NEW b \in Traces, Done(m, b)'
        PROVE  Done(m, b) \/
                 \E ux \in SignedTxs' : ux.trace = b /\ (ux \in executed' \/ <<ux, m>> \in sigs')
    BY <1>1, <1>5, <1>6, <2>2
  <2>3. ASSUME NEW ux \in SignedTxs'
        PROVE  Kept(ux)' \/
                 (/\ ux \in SignedTxs /\ Signers(ux)' = Signers(ux)
                  /\ \A m \in Nodes : Done(m, ux.trace)' => Done(m, ux.trace))
    <3>1. CASE ux.trace = tx.trace
      BY <1>2, <1>5, <3>1 DEF Kept
    <3>2. CASE ux.trace # tx.trace
      BY <1>5, <1>6, <3>2
    <3> QED
      BY <3>1, <3>2
  <2>4. /\ sigs \subseteq sigs' /\ executed \subseteq executed' /\ executed' \subseteq SignedTxs'
        /\ SignedTxs' \subseteq SignedTxs
    BY <1>1, <1>5
  <2>5. \A m \in Nodes : raws'[m] \subseteq SignedTxs' /\ raws[m] \subseteq raws'[m]
    BY <1>1, <1>5
  <2> QED
    BY <1>1, <2>1, <2>2, <2>3, <2>4, <2>5, PaidStep
<1>8. ASSUME NEW k \in DOMAIN view[n] PROVE ToldInv(k, view[n][k])'
  <2>1. ToldInv(k, view[n][k])
    BY <1>1 DEF PayerInv
  <2> QED
    BY <1>5, <2>1 DEF ToldInv
<1>9. CashierInv(n)'
  BY <1>1, <1>3 DEF PayerInv, CashierInv
<1>10. PayerInv(n)'
  BY <1>1, <1>8, <1>9 DEF PayerInv
<1> QED
  BY <1>1, <1>4, <1>7, <1>10, PayerStep

\* The cashier leaves the transfer for now.
LEMMA LeavePay ==
  ASSUME WalletInv, PayInv, NEW n \in Nodes, spending[n].stage = "spend",
         UNCHANGED <<sigs, spending>>,
         NEW B \in SUBSET bill[n], bill' = [bill EXCEPT ![n] = B],
         UNCHANGED <<chain, executed, view, spentBy, transfers, raws>>
  PROVE  PayInv'
<1>1. PayerInv(n) /\ IsTable(bill)
  BY DEF PayInv, WalletInv
<1>2. bill'[n] = B /\ \A m \in Nodes : m # n => bill'[m] = bill[m]
  BY <1>1 DEF IsTable
<1>3. RowsKept(n)
  BY <1>2 DEF RowsKept
<1>4. \A b \in Traces : Done(n, b)' => Done(n, b)
  BY DEF Done
<1>5. CashierInv(n)'
  BY <1>1, <1>2 DEF PayerInv, CashierInv
<1> QED
  BY <1>3, <1>4, <1>5, CashierStep

LEMMA SpendPay ==
  ASSUME WalletInv, PayInv, NEW n \in Nodes, Spend(n)
  PROVE  PayInv'
<1> DEFINE t == Current(n)
           inputs == ListSpentBy(n, t)
           known == {view[n][k] : k \in inputs}
           same == Cardinality(known) = 1
           seen == CHOOSE v \in known : TRUE
           tx == IF seen.tx = NoTx THEN Transaction(t, inputs) ELSE seen.tx
<1>1. /\ bill[n] # {} /\ spending[n].stage = "spend"
      /\ UNCHANGED <<chain, executed, view, spentBy>>
      /\ UNCHANGED <<transfers, raws>>
  BY DEF Spend, tables
<1>2. \/ SkipEmpty(n)
      \/ /\ same /\ seen.state = "spent"
         /\ Proceed(n, "handled", NoTx) /\ UNCHANGED sigs
      \/ same /\ Sign(n, tx, t)
      \/ SpendError(n)
  BY Zenon DEF Spend, Current
<1>3. same => seen \in known
  <2>1. same => known # {}
    <3> HIDE DEF known
    <3> QED
      BY FS_EmptySet
  <2> HIDE DEF known
  <2> QED
    BY <2>1
<1> HIDE DEF seen, same
<1>4. same => /\ tx.trace = Current(n).trace /\ tx.trace \in Traces
              /\ Block(spentBy[n], tx.trace) # {} /\ tx = Payout(chain, spentBy[n], tx.trace)
              /\ seen.state = "spent" => tx \in executed
  BY <1>1, <1>3, PaysItsBlock
<1> HIDE DEF tx, inputs, known, t
<1>5. CASE same /\ Sign(n, tx, t)
  <2>1. /\ sigs' = sigs \cup {<<tx, n>>}
        /\ IF SignedByEnough(Signers(tx) \cup {n})
           THEN Proceed(n, "raw", tx) ELSE Proceed(n, "handled", NoTx)
    BY <1>5, Zenon DEF Sign
  <2> QED
    BY <1>1, <1>4, <1>5, <2>1, SignPay
<1>6. CASE same /\ seen.state = "spent" /\ Proceed(n, "handled", NoTx) /\ UNCHANGED sigs
  BY <1>1, <1>4, <1>6, SpentPay
<1>7. CASE SkipEmpty(n)
  <2>1. bill[n] \ {Min(bill[n])} \in SUBSET bill[n]
    OBVIOUS
  <2> QED
    BY <1>1, <1>7, <2>1, LeavePay DEF SkipEmpty
<1>8. CASE SpendError(n)
  <2>1. {} \in SUBSET bill[n]
    OBVIOUS
  <2> QED
    BY <1>1, <1>8, <2>1, LeavePay DEF SpendError
<1> QED
  BY <1>2, <1>5, <1>6, <1>7, <1>8

-----------------------------------------------------------------------------
(***************************************************************************)
(* All together.                                                           *)
(***************************************************************************)
LEMMA NextPay ==
  ASSUME WalletInv, WalletInv', PayInv, [Next]_vars
  PROVE  PayInv'
<1>1. CASE Deposit
  BY <1>1, DepositPay
<1>2. ASSUME NEW n \in Nodes,
             \/ Syncer(n) \/ HandleOutput(n) \/ Assigner(n)
             \/ Cashier(n) \/ Sender(n) \/ SpentSync(n) \/ Crash(n)
      PROVE  PayInv'
  <2>1. CASE Syncer(n)
    BY <2>1, LearnPay, RefreshPay DEF Syncer
  <2>2. CASE HandleOutput(n)
    BY <2>2, HandleOutputPay
  <2>3. CASE Assigner(n)
    BY <2>3, ListPendingPay, AssignNextPay DEF Assigner
  <2>4. CASE Cashier(n)
    BY <2>4, ListAssignedPay, SpendPay, CreateRawPay, MarkHandledPay DEF Cashier
  <2>5. CASE Sender(n)
    BY <2>5, SubmitPay, ExpirePay DEF Sender
  <2>6. CASE SpentSync(n)
    BY <2>6, PassPay DEF SpentSync
  <2>7. CASE Crash(n)
    BY <2>7, CrashPay
  <2> QED
    BY <1>2, <2>1, <2>2, <2>3, <2>4, <2>5, <2>6, <2>7
<1>3. CASE UNCHANGED vars
  <2>1. /\ UNCHANGED <<chain, sigs, executed, raws>>
        /\ UNCHANGED <<view, spentBy, handledTo, transfers, bill, spending>>
    BY <1>3 DEF vars, netVars, tables, workers
  <2>2. /\ executed \subseteq SignedTxs /\ \A n \in Nodes : raws[n] \subseteq SignedTxs
        /\ IsTable(raws)
    BY DEF PayInv, PaidInv
  <2>3. Len(chain) <= Len(chain')
    <3>1. Len(chain) \in Nat
      BY DEF WalletInv, ChainInv
    <3> QED
      BY <2>1, <3>1
  <2> QED
    BY <2>1, <2>2, <2>3, NetworkStep
<1> QED
  BY <1>1, <1>2, <1>3 DEF Next

\* When every node is done with a payment and it is not executed, every node
\* has signed it, which is more than enough.
LEMMA PayInvKeeps ==
  ASSUME WalletInv, PayInv
  PROVE  NoPaymentDropped
<1> SUFFICES ASSUME NEW tx \in SignedTxs,
                    \A n \in Nodes : \E i \in DOMAIN transfers[n] :
                      transfers[n][i].trace = tx.trace /\ transfers[n][i].handled
             PROVE  tx \in executed \/ \E n \in Nodes : tx \in raws[n]
  BY DEF NoPaymentDropped
<1>1. PaidInv
  BY DEF PayInv
<1>2. tx.trace \in Traces /\ \A n \in Nodes : Done(n, tx.trace)
  BY <1>1 DEF PaidInv, Done
<1>3. ASSUME NEW n \in Nodes, tx \notin executed PROVE n \in Signers(tx)
  <2>1. PICK ux \in SignedTxs : ux.trace = tx.trace /\ (ux \in executed \/ <<ux, n>> \in sigs)
    BY <1>1, <1>2 DEF PaidInv
  <2>2. ux = tx
    BY <1>1, <2>1, OnePayout
  <2> QED
    BY <1>3, <2>1, <2>2 DEF Signers
<1>4. CASE tx \notin executed
  <2>1. Signers(tx) = Nodes
    BY <1>3, <1>4 DEF Signers
  <2>2. Cardinality(Signers(tx)) >= Threshold
    BY <2>1, WalletAssumption
  <2> QED
    BY <1>1, <1>2, <2>2 DEF PaidInv, Kept
<1> QED
  BY <1>4

\* No payment is dropped, for any number of nodes, any threshold, deposits and
\* limits, at any pace and through any crashes: when every node has marked a
\* transfer handled, its transaction is executed or some node still holds it
\* for the sender (Cashier.spend, SpentSync, TxSender).
THEOREM NoPaymentDroppedTheorem ==
  ASSUME PaysSomething
  PROVE  Spec => []NoPaymentDropped
<1>1. Init => PayInv
  BY InitPay
<1>2. WalletInv /\ WalletInv' /\ PayInv /\ [Next]_vars => PayInv'
  BY NextPay
<1>3. WalletInv /\ PayInv => NoPaymentDropped
  BY PayInvKeeps
<1> QED
  BY <1>1, <1>2, <1>3, WalletInvariant, PTL DEF Spec
=============================================================================
