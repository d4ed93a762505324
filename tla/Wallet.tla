------------------------------- MODULE Wallet -------------------------------
(***************************************************************************)
(* How the nodes of the group pay a transfer out of the multisig wallet    *)
(* (worker/assigner, worker/cashier, service/wallet, worker/txsender,      *)
(* worker/spentsync and the tables of store/wallet).                       *)
(*                                                                         *)
(* The nodes never talk to each other.  Each one creates the transfers its *)
(* payee decides on, picks the outputs that pay for a transfer, and signs  *)
(* the transaction that results; the network executes a transaction that   *)
(* Threshold nodes signed.  Payments therefore only happen when the nodes  *)
(* pick the same outputs, each from its own tables and at its own pace.    *)
(*                                                                         *)
(* An output is its id: every node numbers the outputs alike (module       *)
(* OutputSync).  What a node's table says of an output's state lags behind *)
(* the network.                                                            *)
(***************************************************************************)
EXTENDS Integers, Sequences, FiniteSets, FiniteSetsExt, SequencesExt

CONSTANTS
  Nodes,         \* members of the group
  Assets,        \* assets it holds
  Threshold,     \* signatures a transaction needs
  Deposits,      \* payments to the wallet: [asset, amount, pays], where pays are
                 \* the [asset, amount] the payee transfers out for it
  Opening,       \* deposits that every node has handled when the model starts
  SpendLimit,    \* inputs of a transaction at most (32 in the code)
  PendingLimit,  \* transfers of an assigner's round (100 in the code)
  CashierBatch,  \* transfers of a cashier's round (100 by default)
  PassLimit,     \* transfers of a spent syncer's round (100 in the code)
  MaxCrashes     \* bound: restarts

ASSUME WalletAssumption ==
  /\ Threshold \in 1..Cardinality(Nodes)
  /\ SpendLimit \in Nat \ {0, 1} /\ PendingLimit \in Nat \ {0}
  /\ CashierBatch \in Nat \ {0} /\ PassLimit \in Nat \ {0} /\ MaxCrashes \in Nat
  /\ Deposits \in Seq([asset : Assets, amount : Nat,
                       pays : Seq([asset : Assets, amount : Nat])])
  /\ Opening \in 0..Len(Deposits)
  /\ \A k \in 1..Opening : Deposits[k].pays = <<>>

VARIABLES
  \* the network
  chain,      \* outputs paid to the wallet, position = id
  deposited,  \* how many deposits have been made
  sigs,       \* signatures: <<transaction, node>>
  executed,   \* transactions the network has executed
  \* each node's tables
  view,       \* outputs: state and signed_tx of each output the node has
  spentBy,    \* outputs: spent_by
  handledTo,  \* the payee's checkpoint
  transfers,  \* transfers, position = id
  raws,       \* raw_transactions
  \* each node's workers
  todo,       \* the assigner's list, worked off in order of id
  aborted,    \* assets it has given up in this round
  bill,       \* the cashier's list, worked off in order of id
  spending,   \* what the cashier does about its first
  crashes

netVars == <<chain, deposited, sigs, executed>>
tables  == <<view, spentBy, handledTo, transfers, raws>>
workers == <<todo, aborted, bill, spending>>
vars    == <<netVars, tables, workers, crashes>>

\* The empty spent_by and the empty signed_tx.
NoTrace == [output |-> 0, nr |-> 0, merges |-> {}]
NoTx == [trace |-> NoTrace, inputs |-> {}]
Unspent == [state |-> "unspent", tx |-> NoTx]
Idle == [stage |-> "spend", tx |-> NoTx]

Init ==
  /\ chain = SubSeq(Deposits, 1, Opening) /\ deposited = Opening
  /\ sigs = {} /\ executed = {}
  /\ view = [n \in Nodes |-> [k \in 1..Opening |-> Unspent]]
  /\ spentBy = [n \in Nodes |-> [k \in 1..Opening |-> NoTrace]]
  /\ handledTo = [n \in Nodes |-> Opening]
  /\ transfers = [n \in Nodes |-> <<>>]
  /\ raws = [n \in Nodes |-> {}]
  /\ todo = [n \in Nodes |-> {}]
  /\ aborted = [n \in Nodes |-> {}]
  /\ bill = [n \in Nodes |-> {}]
  /\ spending = [n \in Nodes |-> Idle]
  /\ crashes = 0

Sum(ids) == SumFunction([k \in ids |-> chain[k].amount])

\* ORDER BY id LIMIT limit
Lowest(ids, limit) == {i \in ids : Cardinality({j \in ids : j < i}) < limit}

(***************************************************************************)
(* The network: deposits, the state it reports of an output, signatures    *)
(* and the execution of transactions.                                      *)
(***************************************************************************)
Deposit ==
  /\ deposited < Len(Deposits)
  /\ deposited' = deposited + 1
  /\ chain' = Append(chain, Deposits[deposited + 1])
  /\ UNCHANGED <<sigs, executed, tables, workers, crashes>>

Signers(tx) == {n \in Nodes : <<tx, n>> \in sigs}
SignedTxs == {s[1] : s \in sigs}

Reported(k) ==
  IF \E tx \in executed : k \in tx.inputs
  THEN [state |-> "spent", tx |-> CHOOSE tx \in executed : k \in tx.inputs]
  ELSE IF \E tx \in SignedTxs : k \in tx.inputs
  THEN [state |-> "signed", tx |-> CHOOSE tx \in SignedTxs : k \in tx.inputs]
  ELSE Unspent

\* A request is refused when an input is spent, or locked by another request.
CreateMultisig(tx) ==
  /\ tx \notin executed
  /\ \A other \in SignedTxs : other # tx => other.inputs \cap tx.inputs = {}

Executable(tx) ==
  /\ Cardinality(Signers(tx)) >= Threshold
  /\ \A done \in executed : done.inputs \cap tx.inputs = {}

\* What comes back to the wallet: a merged output, and the change.
Output(asset, amount) == [asset |-> asset, amount |-> amount, pays |-> <<>>]
Returned(tx) ==
  LET change == Sum(tx.inputs) - tx.amount
  IN  (IF tx.trace.merges # {} THEN <<Output(tx.asset, tx.amount)>> ELSE <<>>)
      \o (IF change > 0 THEN <<Output(tx.asset, change)>> ELSE <<>>)

(***************************************************************************)
(* The syncer: the next output, or a page with the news of the outputs the *)
(* node has.                                                               *)
(***************************************************************************)
Learn(n) ==
  /\ Len(view[n]) < Len(chain)
  /\ view' = [view EXCEPT ![n] = Append(@, Reported(Len(@) + 1))]
  /\ spentBy' = [spentBy EXCEPT ![n] = Append(@, NoTrace)]
  /\ UNCHANGED <<netVars, handledTo, transfers, raws, workers, crashes>>

Refresh(n) ==
  /\ view' = [view EXCEPT ![n] = [k \in DOMAIN @ |-> Reported(k)]]
  /\ view' # view
  /\ UNCHANGED <<netVars, spentBy, handledTo, transfers, raws, workers, crashes>>

(***************************************************************************)
(* The payee handles the next output and creates the transfers it decides  *)
(* on.  None of its constructors sets the transfer's version.              *)
(***************************************************************************)
NewTransfer(k, i, asset, amount, merges) ==
  [trace |-> [output |-> k, nr |-> i, merges |-> merges], version |-> 0,
   asset |-> asset, amount |-> amount,
   assigned |-> FALSE, handled |-> FALSE, passed |-> FALSE]

HandleOutput(n) ==
  LET k == handledTo[n] + 1
  IN  /\ k <= Len(view[n])
      /\ handledTo' = [handledTo EXCEPT ![n] = k]
      /\ transfers' = [transfers EXCEPT ![n] = @ \o
           [i \in DOMAIN chain[k].pays |->
              NewTransfer(k, i, chain[k].pays[i].asset, chain[k].pays[i].amount, {})]]
      /\ UNCHANGED <<netVars, view, spentBy, raws, workers, crashes>>

(***************************************************************************)
(* The assigner                                                            *)
(***************************************************************************)
Pending(n) ==
  {i \in DOMAIN transfers[n] : ~transfers[n][i].handled /\ ~transfers[n][i].assigned}
Assigned(n) ==
  {i \in DOMAIN transfers[n] : ~transfers[n][i].handled /\ transfers[n][i].assigned}
Handled(n) ==
  {i \in DOMAIN transfers[n] : transfers[n][i].handled /\ ~transfers[n][i].passed}

ListPending(n) ==
  /\ todo[n] = {} /\ Pending(n) # {}
  /\ todo' = [todo EXCEPT ![n] = Lowest(Pending(n), PendingLimit)]
  /\ UNCHANGED <<netVars, tables, aborted, bill, spending, crashes>>

ListUnspent(n, asset) ==
  Lowest({k \in DOMAIN spentBy[n] : chain[k].asset = asset /\ spentBy[n][k] = NoTrace},
         SpendLimit)

\* Spend all outputs of a full list that is older than the transfer.
Wipe(t, unspent) == Cardinality(unspent) = SpendLimit /\ Max(unspent) <= t.version

Covers(ids, amount) == Sum(ids) >= amount

\* The shortest beginning of the list that pays for the transfer, else all.
Chosen(t, unspent) ==
  LET first(k) == {j \in unspent : j <= k}
      enough == {k \in unspent : Covers(first(k), t.amount)}
  IN  IF Wipe(t, unspent) \/ enough = {} THEN unspent ELSE first(Min(enough))

\* The transaction of walletStore.Assign.
Spent(n, ids, trace) ==
  spentBy' = [spentBy EXCEPT ![n] =
                [k \in DOMAIN @ |-> IF k \in ids THEN trace ELSE @[k]]]

Assign(n, i, ids) ==
  /\ Spent(n, ids, transfers[n][i].trace)
  /\ transfers' = [transfers EXCEPT ![n][i].assigned = TRUE]

MustAlwaysMerge(ids) == ids # {}
NeverMerges(ids) == FALSE

\* A full list that does not pay for the transfer is merged into one output;
\* the transfer waits for it.
MustMerge(ids) == Cardinality(ids) = SpendLimit
Merge(n, i, ids) ==
  LET t == transfers[n][i]
      m == [NewTransfer(t.trace.output, t.trace.nr, t.asset, Sum(ids), ids)
              EXCEPT !.version = t.version, !.assigned = TRUE]
  IN  /\ Spent(n, ids, m.trace)
      /\ transfers' = [transfers EXCEPT ![n] = Append(@, m)]

AbortNothing(n, asset) == aborted[n]

\* An error keeps later transfers of the asset waiting in this round.
Abort(n, asset) == aborted[n] \cup {asset}
NeverForgives(n, gaveUp) == aborted' = [aborted EXCEPT ![n] = gaveUp]
RoundGoesOn(n, gaveUp) ==
  aborted' = [aborted EXCEPT ![n] = IF Cardinality(todo[n]) = 1 THEN {} ELSE gaveUp]

AssignNext(n) ==
  /\ todo[n] # {}
  /\ todo' = [todo EXCEPT ![n] = @ \ {Min(@)}]
  /\ LET i == Min(todo[n])
         t == transfers[n][i]
     IN  \/ /\ t.asset \in aborted[n]
            /\ RoundGoesOn(n, aborted[n]) /\ UNCHANGED <<spentBy, transfers>>
         \/ /\ t.asset \notin aborted[n]
            /\ \E ids \in {Chosen(t, ListUnspent(n, t.asset))} :
                 \/ /\ Covers(ids, t.amount)
                    /\ Assign(n, i, ids) /\ RoundGoesOn(n, aborted[n])
                 \/ /\ ~Covers(ids, t.amount)
                    /\ RoundGoesOn(n, Abort(n, t.asset))
                    /\ IF MustMerge(ids)
                       THEN Merge(n, i, ids) ELSE UNCHANGED <<spentBy, transfers>>
  /\ UNCHANGED <<netVars, view, handledTo, raws, bill, spending, crashes>>

(***************************************************************************)
(* The cashier, with the default capacity 1: transfer by transfer, and the *)
(* first error ends the round.                                             *)
(***************************************************************************)
ListAssigned(n) ==
  /\ bill[n] = {} /\ Assigned(n) # {}
  /\ bill' = [bill EXCEPT ![n] = Lowest(Assigned(n), CashierBatch)]
  /\ UNCHANGED <<netVars, tables, todo, aborted, spending, crashes>>

ListSpentBy(n, t) == {k \in DOMAIN spentBy[n] : spentBy[n][k] = t.trace}

\* MakeMultisigTransaction: the memo tells the output a transfer answers and
\* whether it is a merge; the trace is the hint that fixes the output keys.
Transaction(t, inputs) ==
  [trace |-> t.trace, asset |-> t.asset, amount |-> t.amount, inputs |-> inputs]
Memo(x) == <<x.trace.output, x.trace.merges # {}>>

\* validateMultisig, validateTransaction
Validate(tx, t) ==
  tx.asset = t.asset /\ tx.amount = t.amount /\ Memo(tx) = Memo(t)

SpendError(n) ==
  /\ bill' = [bill EXCEPT ![n] = {}]
  /\ UNCHANGED <<sigs, spending>>

\* Empty outputs are logged; the round goes on with the next transfer.
SkipEmpty(n) ==
  /\ bill' = [bill EXCEPT ![n] = @ \ {Min(@)}]
  /\ UNCHANGED <<sigs, spending>>

Proceed(n, stage, tx) ==
  /\ spending' = [spending EXCEPT ![n] = [stage |-> stage, tx |-> tx]]
  /\ UNCHANGED bill

SignedByMore(signers) == Cardinality(signers) > Threshold
SignedByEnough(signers) == Cardinality(signers) >= Threshold

\* walletService.Spend up to the signature, which is on the network's side.
Sign(n, tx, t) ==
  LET signers == Signers(tx) \cup {n}
  IN  /\ CreateMultisig(tx)
      /\ n \in Signers(tx) \/ Validate(tx, t)
      /\ sigs' = sigs \cup {<<tx, n>>}
      /\ IF SignedByEnough(signers)
         THEN Proceed(n, "raw", tx) ELSE Proceed(n, "handled", NoTx)

Spend(n) ==
  /\ bill[n] # {} /\ spending[n].stage = "spend"
  /\ LET t      == transfers[n][Min(bill[n])]
         inputs == ListSpentBy(n, t)
         known  == {view[n][k] : k \in inputs}
         same   == Cardinality(known) = 1
         seen   == CHOOSE v \in known : TRUE
         tx     == IF seen.tx = NoTx THEN Transaction(t, inputs) ELSE seen.tx
     IN  \/ inputs = {} /\ SkipEmpty(n)
         \/ /\ same /\ seen.state = "spent" /\ Validate(tx, t)
            /\ Proceed(n, "handled", NoTx) /\ UNCHANGED sigs
         \/ same /\ seen.state # "spent" /\ Sign(n, tx, t)
         \/ /\ inputs # {}
            /\ ~same \/ (seen.state = "spent" /\ ~Validate(tx, t))
               \/ (seen.state # "spent" /\ (~CreateMultisig(tx)
                     \/ (n \notin Signers(tx) /\ ~Validate(tx, t))))
            /\ SpendError(n)
  /\ UNCHANGED <<chain, deposited, executed, tables, todo, aborted, crashes>>

\* Threshold reached: the transaction is kept for the sender.
CreateRawTransaction(n) ==
  /\ spending[n].stage = "raw"
  /\ LET tx == spending[n].tx
     IN  raws' = [raws EXCEPT ![n] = IF \E r \in @ : r.trace = tx.trace THEN @
                                     ELSE @ \cup {tx}]
  /\ Proceed(n, "handled", NoTx)
  /\ UNCHANGED <<netVars, view, spentBy, handledTo, transfers, todo, aborted, crashes>>

MarkHandled(n) ==
  /\ spending[n].stage = "handled"
  /\ transfers' = [transfers EXCEPT ![n][Min(bill[n])].handled = TRUE]
  /\ bill' = [bill EXCEPT ![n] = @ \ {Min(@)}]
  /\ spending' = [spending EXCEPT ![n] = Idle]
  /\ UNCHANGED <<netVars, view, spentBy, handledTo, raws, todo, aborted, crashes>>

(***************************************************************************)
(* The sender: submit, then forget, once there is a snapshot or the        *)
(* network refuses the signature because the inputs are spent.  A round    *)
(* lists 20 raw transactions in no order of its own, so any of them may be *)
(* among those.                                                            *)
(***************************************************************************)
Submit(n, tx) ==
  /\ tx \in raws[n] \ executed
  /\ Executable(tx)
  /\ executed' = executed \cup {tx}
  /\ chain' = chain \o Returned(tx)
  /\ UNCHANGED <<deposited, sigs, tables, workers, crashes>>

ExpireRawTransaction(n, tx) ==
  /\ tx \in raws[n]
  /\ \E done \in executed : done.inputs \cap tx.inputs # {}
  /\ raws' = [raws EXCEPT ![n] = @ \ {tx}]
  /\ UNCHANGED <<netVars, view, spentBy, handledTo, transfers, workers, crashes>>

(***************************************************************************)
(* The spent syncer: a handled transfer is passed once one of its outputs  *)
(* is known to be spent.  A round lists the oldest of those that are not,  *)
(* and looks at one output of each, whichever the table shows first.       *)
(***************************************************************************)
Pass(n, i) ==
  LET t == transfers[n][i]
  IN  /\ i \in Lowest(Handled(n), PassLimit)
      /\ \E k \in ListSpentBy(n, t) : view[n][k].state = "spent"
      /\ transfers' = [transfers EXCEPT ![n][i].passed = TRUE]
      /\ UNCHANGED <<netVars, view, spentBy, handledTo, raws, workers, crashes>>

Crash(n) ==
  /\ crashes < MaxCrashes
  /\ crashes' = crashes + 1
  /\ todo' = [todo EXCEPT ![n] = {}]
  /\ aborted' = [aborted EXCEPT ![n] = {}]
  /\ bill' = [bill EXCEPT ![n] = {}]
  /\ spending' = [spending EXCEPT ![n] = Idle]
  /\ UNCHANGED <<netVars, tables>>

Syncer(n)    == Learn(n) \/ Refresh(n)
Assigner(n)  == ListPending(n) \/ AssignNext(n)
Cashier(n)   == ListAssigned(n) \/ Spend(n) \/ CreateRawTransaction(n) \/ MarkHandled(n)
Sender(n)    == \E tx \in raws[n] : Submit(n, tx) \/ ExpireRawTransaction(n, tx)
SpentSync(n) == \E i \in DOMAIN transfers[n] : Pass(n, i)

Next ==
  \/ Deposit
  \/ \E n \in Nodes : \/ Syncer(n) \/ HandleOutput(n) \/ Assigner(n)
                      \/ Cashier(n) \/ Sender(n) \/ SpentSync(n) \/ Crash(n)

Spec == Init /\ [][Next]_vars

\* Every worker of every node is a loop that never ends.
FairSpec ==
  Spec /\ \A n \in Nodes :
            /\ WF_vars(Syncer(n)) /\ WF_vars(HandleOutput(n))
            /\ WF_vars(Assigner(n)) /\ WF_vars(Cashier(n))
            /\ WF_vars(Sender(n)) /\ WF_vars(SpentSync(n))
=============================================================================
