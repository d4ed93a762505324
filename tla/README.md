# A TLA+ model of the compound lending protocol

This directory models the core of `fox-one/compound`: a lending protocol that runs as a
group of nodes over a multisig wallet of the Mixin network. Users, members and price
oracles talk to the group only by *paying* it, with a memo. Every node reads the same
payments, handles them in the same order, computes the same transfers and signs the same
transactions. There is no consensus protocol between the nodes: the group works because
every node is deterministic, and because every step of a node can be repeated after a
crash. That is what the modules state and check.

## 1. The system

| part | source | state | operations | talks to |
|---|---|---|---|---|
| syncer, raw outputs | `worker/syncer`, `store/wallet/recovery.go`, `walletStore.Save` | tables `raw_outputs`, `outputs`; property `sync_checkpoint`; in memory `rawOutputID` | pull a page, save it, mark the end, save the checkpoint; in a goroutine: read raw outputs, move them | the network; payee and assigner read `outputs` |
| payee | `worker/payee/payee.go` | property `outputs_checkpoint`, `sysversion` | list a batch, handle each output, save the checkpoint | every table below; writes `transfers` |
| user actions | `worker/payee/{supply,borrow,...,liquidation}.go` | markets, supplies, borrows, transactions, users | supply, pledge, redeem, unpledge, quick-pledge, quick-redeem, borrow, repay, quick-borrow, liquidate; refunds | account service, interest model |
| governance | `worker/payee/proposal*.go`, `core/proposal` | proposals, markets, signers, properties | make, shout, vote, forward, and on passing: market, open, close, withdraw, oracle signers, properties, the system version and its migration; system version 0 has handlers of its own | payee, proposal service, the node's own wallet |
| proposal service, messenger | `service/proposal`, `worker/messenger`, `store/message`, `service/message` | table `messages`; in memory the users met | write the messages about a proposal; list, meet, send, delete | payee writes, the admins read and press buttons |
| memos | `pkg/mtg`, `core/action.go`, `core/proposal`, `cmd/proposal.go` | none | encode and scan values, actions and the contents of proposals, in the format of a version | commands, buttons, the node itself, payee |
| price oracle | `worker/payee/price.go` | market price and its time | take a report signed by enough signers | payee |
| interest model | `pkg/compound`, `utils_market.go` | columns of a market | utilization, rates, accrual, exchange rate, borrow balance | every handler |
| assigner | `worker/assigner` | `transfers.assigned`, `outputs.spent_by` | pick outputs for a transfer, or merge outputs | reads `transfers`, `outputs` |
| cashier, wallet service | `worker/cashier`, `service/wallet` | `transfers.handled`, `raw_transactions` | build or join a multisig request, sign it, keep the signed transaction | the network |
| sender | `worker/txsender` | `raw_transactions` | submit, forget | the network |
| spent sync | `worker/spentsync` | `transfers.passed` | mark a transfer whose outputs are spent | reads `outputs` |

What is hard about this code:

* **No transaction around a handler.** A handler issues up to eight separately committed
  statements. The process may stop between any two, and the retry runs on what is there.
* **Optimistic versions instead of locks.** A row carries the id of the output that last
  wrote it; handlers skip, or do not, depending on it.
* **State read early and used late.** The system version is read once per batch; raw
  outputs are read outside the transaction that moves them.
* **Order.** The network lists by update time, nodes must number by creation time; price
  reports are paid in any order.
* **Agreement without messages.** Each node picks the outputs of a payment from its own,
  differently old tables.
* **Decisions told outside the tables.** What a vote decides is announced through another
  worker and a network that may lose an answer, and a staff member's vote is paid on from the
  node's own wallet; neither is part of the statements that count the vote.
* **Formats that change by vote.** A memo is read in the format of the version at hand, and a
  vote may change that version under its own retry.
* **Rounding.** 16 digits inside, 8 digits in transfers, truncation here and rounding up
  there.

## 2. Modules

| module | models | correctness it is about |
|---|---|---|
| `FixedPoint` | decimals as scaled integers, `Truncate`, `Div`, `Ceil`, the 8-digit column | |
| `Market` | a market row and the interest model | |
| `Store` | the payee's tables; statements as records, `Apply`, the version lock | |
| `Lending` | the ten user handlers: tables, version and output to a tuple of statements | |
| `Governance` | proposals of every system version, what is announced and forwarded, prices, and the dispatch of `handleOutput` in versions 0 to 3 | |
| `Payee` | the worker: `Receive`, `LoadBatch`, `Handle`, `Execute`, `SaveCheckpoint`, `Fault` | |
| `AtomicLedger` | what the payee promises: each output takes effect once, as a whole, in order | abstract specification |
| `PayeeSafety` | properties of `Payee` | conservation, atomicity, governance, progress |
| `PayeeProofs` | theorems about `Payee`: the invariant of the tables and of an attempt | versions |
| `GovernanceProofs` | theorems about `Payee` that follow from it | votes, prices, system versions |
| `AtomicProofs` | theorems about the payee's retries: `Payee` implements `AtomicLedger` | one effect, one outcome |
| `MCPayee` | TLC instances of `PayeeSafety` | |
| `Messenger` | the messages of the proposal service, their table, and the worker that sends them | |
| `Wire` | memos as bytes: `Encode`, `Scan`, action numbers, contents of proposals, in both formats | |
| `Council` | one node and its people: `Payee`, `Messenger` and `Wire` composed, with the admins' buttons and the node's own payments | announced in order, staff votes count, the log goes on |
| `MCCouncil` | TLC instance of `Council` | |
| `CouncilProofs` | theorems about `Wire` and `Council` | memos of votes, announcements |
| `OutputSync` | syncer and raw outputs, with its properties | one numbering, nothing lost |
| `SyncProofs` | theorems about `OutputSync` | |
| `Wallet` | assigner, cashier, sender and spent sync of several nodes | |
| `WalletSafety` | properties of `Wallet` | agreement, every transfer paid |
| `MCWallet` | TLC instances of `WalletSafety` | |
| `WalletProofs`, `PaymentProofs` | theorems about `Wallet`: who gets which outputs; what is paid | |
| `SetLemmas` | facts about sets of numbers and sequences that several proofs need | |

**Payee side.** A handler is written as a pure operator `HandleX(s, v, o)` that returns the
statements it issues when it runs on tables `s` under version `v` on output `o`; its nested
conditions are the handler's early returns in their order. `Payee!Handle` computes that
tuple; `Execute` commits one statement at a time, or ends the attempt when the statement
meets a version lock or an error that is no `compound.Error`; `Fault` ends the attempt
anywhere. Computing the statements at the start is the same as reading along the way,
because the payee is the only writer of these tables. (The spent sync adds rows to the
transactions table under the traces of *transfers*, which no handler looks up.) A refund's
trace contains its message, as in the code, so two different refusals of one payment are
two transfers.

Data is abstracted as far as the properties allow: a transaction row keeps the amounts a
retry reads back, times are 15-second blocks, names and memos are model values. Amounts are
not abstracted: every truncation and rounding of the code is in the model, at the scale
`ONE = 64`, `QUANTUM = 8` instead of `10^16`, `10^8`, so that it happens all the time.

**Versions.** A payment's memo has a format: the member memos of version 0 (`"member"`, which
name the member and need no signature), the plain ones of version 1, the packed ones of version
2 and later, or none. `Route` decides by the version the batch was loaded with, as
`handleOutput` does, so a payment in the wrong format is ignored by version 1 and refunded by
version 2. Errors that are no `compound.Error` (a version or an action the build does not know,
a panic on a market without a price or with an exchange rate of zero, an insert that meets a unique
index) are the statement `Halt`: the attempt ends and the same
output is tried again.

**Council.** A handler's `notify` and `forward` statements change no table of the payee. In
`Council`, the step that issues one also appends the messages, or pays from the node's wallet;
in the other instances they have no effect. `Messenger` takes a round apart into its calls
(`ListMessages`, `Meet`, `Send`, `Delete`), each of which may fail; `SendFails` covers a call
that was carried out although its answer was lost, `SendRefused` the error 10002 that counts as
sent. The code lists messages without an order of its own; the model takes them in that of the
primary key. `PressVote` pays the memo that `Wire!ProposalMemo` writes for the button, `Arrive` brings
the node's payments back as outputs, and `Payments` reads both with `ReadMemo`, as the payee
would. A crash takes both workers down together, as they run in one process. Votes of the other
nodes come only after a member announced the proposal, which is how their staff learn of it.

**Output sync.** `Pull`, `Save`, `MarkEnd`, `SaveOffset` are the steps of `Syncer.run`;
`ReadRaws` and `AckRaws` those of `syncRawOutputs`, apart because the read is not part of
the transaction. The network may create several outputs at one time, change their state at
any moment, and list equal times in any order.

**Wallet.** Every node has its own tables and workers. What the network reports of an
output (unspent, signed with which transaction, spent) reaches a node only when its syncer
runs. `Spend`, `CreateRawTransaction` and `MarkHandled` are separate steps of the cashier
because the process may stop between them. The lists the assigner and the cashier work off hold
ids of transfers, and a worker takes the least: the code lists by id and ranges over the slice. The
sender lists raw transactions without an order and the spent sync looks at any one output of a
transfer, so there the model takes any.
An output is its id: that all nodes number the
outputs alike is what `OutputSync` checks.

Definitions for the network (deposits, multisig requests, execution of transactions,
listings of equal keys) are taken from how the code uses it and marked external in
`PROJECT.json`.

## 3. Runs

All runs switch the deadlock check off: the environment of an instance is finite (so many
payments, faults and updates), and when it is used up and all work is done the workers wait
for ever, as they do in reality. That work does get done is what `council`, `sync`, `merge` and `queue` check.

| run | instance | shows |
|---|---|---|
| `supply` | usd lent out, then any three of twelve payments | `CashConserved`, `CTokensConserved`, `PledgeCapped`, `RateNeverFalls` |
| `borrow` | alice owes usd and some of the eth she pledged, then any three of thirteen payments or price reports, among them each of the operations that check liquidity; one fault | `NonNegative`, `CashConserved`, `CTokensConserved`, `DebtConserved`, `LiquidityKept`, `SeizureBounded` |
| `crash` | any two of fourteen payments, one of every kind; two faults | `TypeOK`, `VersionsBounded`, `OneOutcome`, `AppliedOnce`, and that `Payee` implements `AtomicLedger` (`EffectsAreAtomic`) |
| `governance` | three members, threshold two, a staff member; a deployment of version 3; any three of fourteen votes (for versions 4 and 5 too, in one batch), proposals (one of a retired kind) and reports; one fault | `VotesBacked`, `StatusFollowsVotes`, `KnownVersionsOnly`, `PriceIsFresh`, `PriceIsSigned`, `RulesNeverGoBack`, `CashConserved` |
| `upgrade` | version 0, with users of an older build on two pages; any three of sixteen payments in every format, votes for versions 2 and 5 among them; one fault; one output per batch | `OneOutcome`, `AddressesMigrated`, `AppliedInWhole` |
| `council` | a node of two members, two admins; staff propose and press a button, the other member votes, a liquidation meets its own lock; two payments by people, one failed call or crash | `EveryDecisionAnnounced`, `QuotesFollowPosts`, `MemosReadable`, `EveryVoteTold`, `StaffVoteCounts`, `EveryOutputHandled` |
| `sync` | four outputs, two at a time, one update, one restart | `SyncTypeOK`, `OrderIsCanonical`, `NothingSkipped`, `EveryOutputListed` |
| `merge` | two nodes, a transfer of three outputs when a transaction takes two | `NodesAgree`, `EveryTransferPassed` |
| `queue` | a transfer that waits for its asset, ahead of a transfer of nothing; one restart | `NodesAgree`, `NoPaymentDropped`, `EveryTransferPassed` |

**Bounds.** `Prefix` is a fixed history that brings the tables into an interesting state
through the handlers themselves (markets are listed and opened by votes, debts are borrowed);
faults start after it. `MaxOutputs` leaves two or three free payments: two suffice for every
pair of actions to meet in each order, three let interest and prices move in between. Two
faults let a retry be interrupted too. `BatchLimit` 3 in `crash` makes batches end inside and
outside the free part. In `upgrade`, `BatchLimit` is 1
so that the version in force is the one the last output left; what two version votes in one batch
do is in `governance` and `downgrade`. `UserPages` puts each of the users of version 0 on a page of
its own there, where the code has 500 on one, so that a crash can leave some with their new address
and some without; in the other instances no user is of version 0. The prices of `borrow` are
chosen so that each limit of a seizure is met: the payment, the close factor, and alice's debt of
usd, which is less than the close factor of what she pledged, since she owes eth too. `PassLimit` is
1 where the code has 100, so that the spent sync goes from one transfer to the next.
In `council`, `Limit` 3 and `Batch` 2 stand for 300 and 70: a round sees fewer rows than there are, and sends fewer than it sees; what
the prefix announces has been delivered, so the messages in question are those of the free part;
one of the two admins presses buttons, since the code behind a button is the same for both. When
TLC starts, `MCCouncil` also checks that a proposal of every kind is read back as it was written
(`ContentsReadable`) and offers a vote button (`VotesOffered`). In `OutputSync`, `AckLimit` equals the largest group of equal times and
is smaller than the number of outputs, so that rounds do cut groups; `PullLimit` lets pages be
full and not full. The code's limits are 500, and its assumption is the same: no more equal
times than fit a page (`LimitAssumption`). In `Wallet`, `SpendLimit` 2 stands for 32: what
matters is that a transfer may need more outputs than a transaction takes. Nodes run at any
pace: one may pick outputs long before the other has even learned of them.

**Fairness.** Every worker is a loop that waits and runs again whatever happened
(`Payee.Run`, `Syncer.Run`, `runSync`, `Assigner.Run`, ...), so weak fairness of each worker is
what the code gives. Nothing is assumed of the environment: payments, updates and faults need
not happen. (`EveryTransferPassed` speaks of behaviours in which the instance's deposits do
arrive: a wallet without the money cannot pay.) Faults are finitely many in a behaviour; without that no retry could be promised
to succeed. `Council!FairCouncil` is one condition for both
workers and the network: infinitely often there is nothing to do (`Idle`), or steps go on. Since
people's payments and faults are bounded, steps that go on are steps of the workers or arrivals
of payments. This is less than the fairness of each, and enough for the properties.

### Disagreements

Three runs are expected to be violated: each states what an assertion or a comment says, and
TLC finds an execution of the code that does otherwise.

* `downgrade`: two version votes in one batch; the second is compared with the version loaded
  before the batch, and 4 follows 5.
* `sameasset`: a liquidation in which the seized and the repaid asset are the same updates one
  row twice; the second update meets the lock of the first, the retry skips the output, and
  the repayment never reaches the market.
* `lostupdate`: an update saved between `syncRawOutputs`' read and its transaction is lost.

Four smaller differences met while modelling have no run: `docs/design.md:190` ("Trades are
prohibited in closed markets"; a repayment goes through), `docs/design.md:57` ("less than or
equal zero"; `SeizeTokenAllowed` refuses liquidity zero), `docs/design.md:191` ("liquidation of
all markets will be prohibited"; `HasClosedMarkets` looks only at the account's markets), and the
comment at `worker/assigner/assigner.go:97` ("spent all utxo if all utxo is older than the
transfer"; no transfer of the payee has a version, so this never happens).

## 4. Proofs

Every theorem is checked by TLAPS for every value of the constants that meets the assumptions:
any sets of assets, users, members, nodes and proposals, any payments, any limits and any number
of crashes. What some of them need beyond that is an `ASSUME` of the theorem itself.

| theorem | says |
|---|---|
| `AppliedOnceTheorem` | an output changes a row at most once, however often it is attempted and wherever it was interrupted |
| `VersionsBoundedTheorem` | no row is ahead of the output being handled, no settled row ahead of the checkpoint: the handlers' skip of outdated outputs drops none that did not take effect |
| `VotesBackedTheorem` | a proposal has passed exactly when `Threshold` members voted, and each of them sent such a vote |
| `PriceIsSignedTheorem` | a settled price changes by a vote, or by a report that enough registered signers signed |
| `AddressesMigratedTheorem` | past system version 0 no user has an address of version 0, even if the migration was interrupted |
| `RulesNeverGoBackTheorem` | no payment is handled under an older version than one before it, however many version votes a batch has |
| `KnownVersionsOnlyTheorem` | the checkpoint does not pass a proposal the build does not know, if the deployment starts at version 2 or later |
| `AppliedInWholeTheorem` | however often an output is attempted and wherever the attempts stop, the tables settle to what it does in one go, or to that and what the version its own vote deployed adds; if assets are separate and no batch is stale |
| `EffectsAreAtomicTheorem` | `Payee`, with its attempts, faults, locks and retries, implements `AtomicLedger`, which has none of them; under the same conditions, if the deployment starts at version 2 or later |
| `OneOutcomeTheorem` | no payment is both carried out and refunded, or refunded twice, not even between a crash and the retry; if assets are separate and no batch is stale |
| `StatusFollowsVotesTheorem` | exactly the deployed markets and those a vote listed are listed, and each is open or closed as the last vote to pass on it since decided, even if the node stopped between counting that vote and carrying it out; if assets are separate and no batch is stale |
| `VoteMemoRead` | the memo of a vote or a shout, written in either format, is read back as it was meant |
| `EveryDecisionAnnouncedTheorem` | every vote that counted and every proposal that passed is announced to every admin, or on its way to him |
| `SyncTypeOKTheorem`, `OrderIsCanonicalTheorem`, `NothingSkippedTheorem` | the table of outputs is a beginning of the one sequence of all outputs, and the syncer's checkpoint passes none that neither table has |
| `NodesAgreeTheorem` | nodes that pick outputs for a transfer pick the same ones, and nobody else's, if no transfer is of nothing |
| `NoPaymentDroppedTheorem` | a payment that all nodes marked handled is executed, or some node still holds it for the sender, if no transfer is of nothing |

**The hypotheses.** They are not there for convenience: without them the property is false
of the code.

* `Genesis.sysversion >= 2`: the handlers of version 1 ignore a packed proposal, known or not,
  and those of version 0 both formats that need a signature. For the refinement: a vote in a
  memo of version 0 or 1 that deploys a version is not read by that version, so a crash right
  after it makes the retry ignore or refund the vote; `AppliedInWhole` allows for that.
* `AssetsSeparate`: a liquidation, and before version 4 a quick borrow, names another asset than it
  pays. With one asset both handlers update one row twice, and the second update meets the lock
  of the first (run `sameasset`).
* `NoStaleBatch`: one output per batch, or a deployment that starts in the newest version. A batch
  that straddles a change of version handles outputs under the old one; after a crash they are
  handled under the new one, which may refund for another reason, that is under another trace.
* `PaysSomething`: a transfer of amount zero takes the next output of its asset, and none where the
  node knows of none (`worker/assigner/assigner.go:108`), so nodes that have synced differently
  differ. A hazard says so; in the run `queue`, which has such a transfer, they agree because the
  transfer ahead of it takes the only output there is.

**The assumptions on constants**, each in the module that declares them:

* `BoundsAssumption`, `ScaleAssumption`, `BlocksPerYearAssumption`: bounds and scales are numbers,
  one quantum is a whole number of units.
* `LogAssumption`: outputs are numbered from 1 without gaps (for the real table that is
  `OrderIsCanonicalTheorem`); a payment is in an asset, by a user or by nobody known; a memo that
  scans names an asset, listed or not, and a liquidation's a user; a decoded proposal has the fields
  of its kind, and a vote or a shout names a proposal, made or not; a vote sets no property in which a worker keeps its
  checkpoint (`WorkerKeys`): the code lets it, and the log would go on from wherever the members put it. Nothing else is assumed of the
  payments: not of their amounts, what they ask for, or their order.
* `GenesisAssumption`: the tables have their columns, no output has written a row, a transaction or a
  transfer, there are no proposals, the version is one the build knows, and only version 0 has addresses of version 0,
  of users on a page.
* `GovernanceAssumption`: members and staff are users, the threshold is at least 1, and the
  pages of users are sets of users, none on two.
* `LimitAssumption`: a page is larger than the largest group of outputs of one time, and a round not
  smaller. The code relies on it: a page of equal update times would be listed again for ever, and
  a round full of equal creation times cannot be cut between two groups.
* `WalletAssumption`: a transaction takes at least two outputs (32 in the code), the threshold is
  at most the number of nodes, lists have room for one entry.
* `MessengerAssumption`, `CouncilAssumption`: lists have room for one entry, the announcements go to
  the admins of the configuration, the node is a member and not one of its own admins, and trace ids
  of outputs are names of proposals.

**The arguments.** None of these properties is inductive as it stands. Each module's header gives
the argument in words; in short:

* *An attempt* (`PayeeProofs`). `IInv == Control /\ TablesInv /\ PlanInv`. With an output to handle,
  the tables are in the middle of it (`During`): every row is at most at its id, a proposal at its
  id has its voter's vote or was made by it, and the tables agree with those settled before it but
  for what this output is entitled to change (`Agrees`: the votes of a member, the price of a
  signed report, what a passing vote writes). Every statement of the attempt is `Sound`: an update
  replaces a version *below* the output's id by that id, and writes nothing `Agrees` does not
  allow. Each handler has a lemma that its statements are sound (`SupplyPlan` ... `LiquidationPlan`,
  `PassedPlan`, `VotePlan`, joined by `OutputPlan`); `ApplySound` shows that a sound statement under
  its lock keeps `During`; `StepInv` puts the actions together.
* *What is decided* (`GovernanceProofs`). Prices and votes follow from `Agrees` when an output is
  settled. For the version, `PendingInv` says of the rest of an attempt that a version to be
  deployed is newer than the one it was computed under, and that the migration of the addresses,
  page by page (`ByPages`), comes before it or is done; so a crash between two pages, or before the
  version, leaves the old version, and the retry migrates the pages again. The version loaded is
  never newer than the one deployed, so the next batch is not handled under an older one.
  `WaitsInv` says that an attempt at an unknown proposal is the one statement `Halt`.
* *Retries* (`AtomicProofs`). A retry computes its statements from half-written tables. It is shown,
  handler by handler up to `OutputGoesOn`, that after any statement that committed, the plan made
  from the tables then *goes on* where the first one stands (`GoesOn`): what it repeats changes
  nothing (`Spent`: the row is at this output's version, the transaction is recorded, the transfer's
  trace is taken), and what remains is what the first had left, amounts included, since they are
  read back from the recorded transaction. So both lead to the same tables (`SameEnd`), one commit
  at a time (`CommitOnTheWay`). An attempt is on the way to the `Effect` on the settled tables
  (`FirstTime`), or past it when its vote deployed a version (`Deployed`, `Upgraded`): then the
  new version refuses the vote or does not read it. Under the mapping, `Receive` is `Pay`,
  `SaveCheckpoint` is `Settle`, and every other step stutters.
* *One outcome* (`AtomicProofs`). A plan returns the payment once and does nothing else with it
  (`Returning`), or never returns it (`Performing`); a passing vote pays nothing back to its payer
  (`Deciding`). The transfers on the way are among those of the `Effect` (`Within`), so what holds
  of the whole plan holds of a part of it, and of a retry (`Tidy`).
* *What the votes decided* (`AtomicProofs`). A statement of any plan but that of a passing vote leaves
  the passed proposals and the markets' status as they were (`Calm`): `Sound` allows a market's status
  to change by a vote only, and a proposal is inserted without votes. The one plan that is not calm
  writes a proposal that has just passed, at a version above all others, and then carries it out
  (`CountStands`), so its decision is the last (`StandsDecided`). Since an output is applied in whole
  (`Done`), the settled tables agree with the votes (`Stands`).
* *The numbering* (`SyncProofs`). A page that is not full was the end of the network's list, so what
  the node has seen then is closed under "created no later than" (`PageInv`). The mark covers such
  a closed set, and what is parked later has a higher id, so this stays true (`MarkInv`). A round
  takes the earliest rows below the mark and cuts no group, so what it read continues the table
  whatever the syncer saves before its transaction (`ReadInv`).
* *Agreement of the nodes* (`WalletProofs`). A node gives the outputs of an asset away in their order,
  a block of neighbours at a time, to transfers in their order (`SpentInv`, `ListsInv`). Where a block
  ends depends on its amounts alone (`Exact`). So two nodes that have both given an output away
  gave it to the same transfer, in the same block (`Agree`), though they know different numbers of
  outputs and nothing of each other.
* *Payment* (`PaymentProofs`, on top of it). There is one transaction to a transfer, and transactions
  that share an output are one. Once `Threshold` nodes have signed it, it is executed, or with a
  sender, or some node is not done and will sign again after a crash (`Kept`); the sender forgets it
  only when its outputs are spent, which only this transaction can have done.
* *Memos* (`CouncilProofs`). The recursive functions of `Wire` are shown to exist on the inputs that
  matter, and a memo is followed byte by byte: nineteen of them, whose first is 1, which is
  never that of the packed wrapper.
* *Announcements* (`CouncilProofs`). The messenger deletes a row only after the call that sent it
  succeeded or was refused (`Mail`). A handler's statements that tell of a vote come before the one
  that writes it (`Led`), so every vote still to be written was told of or will be first (`Pending`);
  hence what is in the tables was told (`DecidedIn`).

`SetLemmas` has what several of these need of minima of sets of numbers, of ordered lists of sets and
of sequences.

**Only model-checked**, and why:

* `EveryOutputHandled`, `EveryVoteTold`, `StaffVoteCounts`, `EveryOutputListed`,
  `EveryTransferPassed`: liveness under fairness is out of the prover's reach.
* `CashConserved`, `CTokensConserved`, `DebtConserved`: sums over all accounts after a handler's
  rounding. That an update changes such a sum by one term is provable, but what a handler does to
  both sides needs its arithmetic; and in general they are false when a liquidation seizes the
  asset it repays (run `sameasset`).
* `RateNeverFalls`, `LiquidityKept`, `SeizureBounded`: nonlinear inequalities over roundings,
  beyond the SMT backend, and true of sensible market parameters only.
* `NonNegative`, `PledgeCapped`, `TypeOK`: they hold of the instances and not of
  every parameter a vote may set. A withdrawal is compared with the reserves and not with the
  cash; a vote may lower the cap below what is pledged, or list a market whose initial rate
  is zero. (What the other theorems need of the tables' shape is part
  of `IInv`.)
* `PriceIsFresh`: it speaks of the reports all first signers sign, and holds while they are the
  signers and as many as the market asks for; a vote may change both.
* `QuotesFollowPosts`: a member may vote on a proposal nobody announced. That the votes of other nodes
  follow the announcement is how their staff learn of it, and how the instance chooses its inputs.
* `MemosReadable`: false of a button pressed after a change of format, which the instance has no room
  for; what it rests on within one format is `VoteMemoRead`.

## 5. Not modelled

* The REST and RPC handlers: they read the tables and render them; most of the code is generated.
* The wording of messages, and the names and symbols looked up for it.
* The ciphers and signatures of `pkg/mtg` and `pkg/aes`, the database columns of `CosiSignature`,
  and the memos of user actions: a payment of a user carries its decoded memo and whether it scans.
* The user cache, which nothing constructs, and the monitoring worker, which only reads.
* Commands and configuration, but for what a proposal's command pays.
* The cashier with a capacity above 1, and the replay wrapper of the wallet service.
* Several payees at once. Determinism makes equal tables of equal logs; where a crash or a random
  user address breaks that, the hazards say so.

## 6. Plan

Done: sections 2 to 4. Next, in this order:

1. Proofs: lemmas on the roundings of `FixedPoint` (what `Div` and `Ceil` bound), and with them
   `RateNeverFalls` for one handler at a time; the sums of `CTokensConserved`, on top of
   `AppliedInWhole`, which reduces them to what one output does in one go.
2. Two payees over one log, with their own addresses and crashes: equal tables and transfers at
   equal checkpoints, but for the hazards listed; their transfers as the input of `Wallet`, which
   covers the pending limit and transfers of amount zero.
3. An abstract specification of payments (a transfer is paid once, from outputs nobody else
   spends) that `Wallet` implements.
4. An upgrade over the change of format with buttons pending, and reserves that are lent out.

## 7. Running

    tlc -workers 2 -config crash.cfg MCPayee
    tlc -workers 2 -config council.cfg MCCouncil
    tlc -workers 2 -config sync.cfg OutputSync
    tlc -workers 2 -config merge.cfg MCWallet
    tlapm PayeeProofs.tla        # and GovernanceProofs, AtomicProofs, SetLemmas,
                                 # SyncProofs, WalletProofs, PaymentProofs, CouncilProofs
