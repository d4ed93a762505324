---------------------------- MODULE WalletSafety ----------------------------
(***************************************************************************)
(* What the group's wallet must keep, whatever the pace of its nodes.      *)
(***************************************************************************)
EXTENDS Wallet

\* Two nodes that have each picked outputs for a transfer picked the same
\* ones, and no output goes to different transfers, though each node picks
\* from its own tables, at its own time and with outputs still missing
\* (Assigner.run, Assigner.handleTransfer).  So the signatures of a transfer
\* are all for one transaction and it is paid at most once; where this fails
\* it either finds too few signatures for ever or is paid twice.
NodesAgree ==
  \A m, n \in Nodes :
    \A i \in DOMAIN transfers[m] : \A j \in DOMAIN transfers[n] :
      LET a == ListSpentBy(m, transfers[m][i])
          b == ListSpentBy(n, transfers[n][j])
      IN  a # {} /\ b # {} =>
            IF transfers[m][i].trace = transfers[n][j].trace THEN a = b ELSE a \cap b = {}

\* The cashier never drops a payment: when every node has marked a transfer
\* handled, its transaction is executed or some node still holds it for the
\* sender (Cashier.spend records the raw transaction before it marks the
\* transfer, and may stop in between).
NoPaymentDropped ==
  \A tx \in SignedTxs :
    (\A n \in Nodes : \E i \in DOMAIN transfers[n] :
        transfers[n][i].trace = tx.trace /\ transfers[n][i].handled)
      => tx \in executed \/ \E n \in Nodes : tx \in raws[n]

\* Every transfer of a positive amount is paid once the wallet has received
\* the money for it: time and again a node has seen every transfer it created,
\* its merges too, executed by the network (all the workers together; a
\* transfer that is passed stays passed).
EveryTransferPassed ==
  <>(deposited = Len(Deposits)) =>
    \A n \in Nodes :
      []<>(\A i \in DOMAIN transfers[n] :
             transfers[n][i].amount > 0 => transfers[n][i].passed)
=============================================================================
