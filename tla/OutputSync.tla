----------------------------- MODULE OutputSync -----------------------------
(***************************************************************************)
(* How a node numbers the outputs of the multisig wallet                   *)
(* (worker/syncer, walletStore.Save and store/wallet/recovery.go).         *)
(*                                                                         *)
(* The network lists outputs by the time of their last update.  The payee  *)
(* and the assigner of every node must see them in one order, that of      *)
(* their creation.  The syncer therefore parks an output it meets for the  *)
(* first time in the table raw_outputs, and a second goroutine (runSync)   *)
(* moves parked rows to the table outputs, in order of creation, once the  *)
(* syncer has seen the end of the network's list.                          *)
(*                                                                         *)
(* A row's data is the state the network reported: 0 unspent, 1 signed,    *)
(* 2 spent.                                                                *)
(***************************************************************************)
EXTENDS Integers, Sequences, FiniteSets, FiniteSetsExt, SequencesExt

CONSTANTS
  MaxOutputs,  \* bound: outputs of the wallet in a behaviour
  PullLimit,   \* outputs in a page of the network's list (500 in the code)
  AckLimit,    \* raw outputs moved in one round (500 in the code)
  MaxTies,     \* bound: outputs with one created_at
  MaxUpdates,  \* bound: changes of state in a behaviour
  MaxCrashes   \* bound: restarts of the node

\* A page that were full of equal update times would be listed again for ever,
\* and a round full of equal creation times cannot be cut.
ASSUME LimitAssumption ==
  /\ MaxOutputs \in Nat
  /\ PullLimit \in Nat /\ AckLimit \in Nat /\ MaxTies \in Nat
  /\ PullLimit > MaxTies /\ AckLimit >= MaxTies

\* Outputs are numbered in the order SortOutputs gives them: by creation, and
\* among equal times by transaction hash and index.  A node does not see the
\* numbers; it sees times, and compares hashes only between equal times.
UTXOs == 1..MaxOutputs

VARIABLES
  net,      \* the network: utxo -> [created, updated, state], as far as created
  clock,    \* time of the latest event of the network
  offset,   \* property "sync_checkpoint"
  syncer,   \* where Syncer.run stands
  page,     \* the outputs it pulled
  raw,      \* table raw_outputs: utxo -> [id, created, state]
  lastRaw,  \* its auto increment
  marked,   \* walletStore.rawOutputID, in memory
  reading,  \* rows syncRawOutputs has read, before its transaction
  outputs,  \* table outputs in the order of its ids
  crashes

netVars == <<net, clock>>
syncVars == <<offset, syncer, page>>
vars == <<net, clock, offset, syncer, page, raw, lastRaw, marked, reading,
          outputs, crashes>>

Init ==
  /\ net = <<>> /\ clock = 0
  /\ offset = 0 /\ syncer = "idle" /\ page = <<>>
  /\ raw = <<>> /\ lastRaw = 0 /\ marked = 0 /\ reading = <<>>
  /\ outputs = <<>>
  /\ crashes = 0

(***************************************************************************)
(* The network.                                                            *)
(***************************************************************************)
Created == DOMAIN net
Extend(f, g) == [x \in DOMAIN f \cup DOMAIN g |-> IF x \in DOMAIN g THEN g[x] ELSE f[x]]

\* The next k outputs, created at one time (the outputs of one transaction).
Appear(k) ==
  /\ Cardinality(Created) + k <= MaxOutputs
  /\ clock' = clock + 1
  /\ net' = Extend(net, [u \in Cardinality(Created) + 1 .. Cardinality(Created) + k |->
                           [created |-> clock + 1, updated |-> clock + 1, state |-> 0]])
  /\ UNCHANGED <<offset, syncer, page, raw, lastRaw, marked, reading, outputs, crashes>>

Updates == MapThenSumSet(LAMBDA u : net[u].state, Created)

ChangeState(u) ==
  /\ Updates < MaxUpdates
  /\ net[u].state < 2
  /\ clock' = clock + 1
  /\ net' = [net EXCEPT ![u].state = @ + 1, ![u].updated = clock + 1]
  /\ UNCHANGED <<offset, syncer, page, raw, lastRaw, marked, reading, outputs, crashes>>

(***************************************************************************)
(* Orderings of a finite set of rows by one of their columns: rows with    *)
(* the same value come in any order.                                       *)
(***************************************************************************)
SortedBy(s, column) ==
  \A i, j \in DOMAIN s : i < j => s[i][column] <= s[j][column]
Listings(S, limit, column) ==
  {SubSeq(s, 1, IF limit < Len(s) THEN limit ELSE Len(s)) :
     s \in {q \in SetToSeqs(S) : SortedBy(q, column)}}

\* The arrangement of a set of rows that mixinet.SortOutputs leaves: its one
\* element, since no two rows are of one utxo.
Before(a, b) == a.created < b.created \/ (a.created = b.created /\ a.utxo < b.utxo)
SortOutputs(rows) ==
  {s \in SetToSeqs(rows) : \A i, j \in DOMAIN s : i < j => Before(s[i], s[j])}

(***************************************************************************)
(* Syncer.run                                                              *)
(***************************************************************************)
Pull ==
  /\ syncer = "idle"
  /\ LET found == {[utxo |-> u, created |-> net[u].created, updated |-> net[u].updated,
                    state |-> net[u].state] :
                     u \in {v \in Created : net[v].updated >= offset}}
     IN  \E p \in Listings(found, PullLimit, "updated") :
           p # <<>> /\ page' = p
  /\ syncer' = "pulled"
  /\ UNCHANGED <<net, clock, offset, raw, lastRaw, marked, reading, outputs, crashes>>

\* save: an update of the row in outputs, else of the row in raw_outputs, else
\* a new raw output.
Listed(table) == {table[i].utxo : i \in DOMAIN table}
UpdateOutputs(table, rows) ==
  [i \in DOMAIN table |->
     IF table[i].utxo \in Listed(rows)
     THEN [table[i] EXCEPT
             !.state = rows[CHOOSE j \in DOMAIN rows : rows[j].utxo = table[i].utxo].state]
     ELSE table[i]]

\* Rows of a page, up to its i-th, that neither table has: each gets the next
\* id of raw_outputs.
Unknown(i) == {j \in 1..i : page[j].utxo \notin Listed(outputs) \cup DOMAIN raw}
Parked(u) ==
  LET i == CHOOSE j \in DOMAIN page : page[j].utxo = u
  IN  [id      |-> IF u \in DOMAIN raw THEN raw[u].id ELSE lastRaw + Cardinality(Unknown(i)),
       created |-> page[i].created,
       state   |-> page[i].state]

Save ==
  /\ syncer = "pulled"
  /\ outputs' = UpdateOutputs(outputs, page)
  /\ raw' = Extend(raw, [u \in Listed(page) \ Listed(outputs) |-> Parked(u)])
  /\ lastRaw' = lastRaw + Cardinality(Unknown(Len(page)))
  /\ syncer' = "saved"
  /\ UNCHANGED <<net, clock, offset, page, marked, reading, crashes>>

End == Len(page) < PullLimit

NextRawOutputID == lastRaw + 1
FindLastRawOutputID == IF DOMAIN raw = {} THEN 0 ELSE Max({raw[u].id : u \in DOMAIN raw})

\* The end of Save.
MarkEnd ==
  /\ syncer = "saved"
  /\ marked' = IF End /\ FindLastRawOutputID > 0 THEN FindLastRawOutputID ELSE marked
  /\ syncer' = "marked"
  /\ UNCHANGED <<net, clock, offset, page, raw, lastRaw, reading, outputs, crashes>>

NextOffsetNow == clock
NextOffset == Last(page).updated

SaveOffset ==
  /\ syncer = "marked"
  /\ offset' = NextOffset
  /\ syncer' = "idle"
  /\ page' = <<>>
  /\ UNCHANGED <<net, clock, raw, lastRaw, marked, reading, outputs, crashes>>

(***************************************************************************)
(* runSync                                                                 *)
(***************************************************************************)
\* Positions of the rows created before the last one.
Earlier(rows) == {i \in DOMAIN rows : rows[i].created # Last(rows).created}

TrimNothing(rows) == rows
TrimAlways(rows) == SubSeq(rows, 1, Max(Earlier(rows) \cup {0}))

\* A full round may end inside a group of equal creation times: leave the
\* group to the next round, unless it is all there is.
TrimSuffix(rows) ==
  IF Earlier(rows) = {} THEN rows ELSE SubSeq(rows, 1, Max(Earlier(rows)))

ReadRaws ==
  /\ reading = <<>>
  /\ LET found == {[utxo |-> u, created |-> raw[u].created, state |-> raw[u].state] :
                     u \in {v \in DOMAIN raw : raw[v].id <= marked}}
     IN  \E r \in Listings(found, AckLimit, "created") :
           /\ r # <<>>
           /\ reading' = IF Len(r) = AckLimit THEN TrimSuffix(r) ELSE r
  /\ UNCHANGED <<net, clock, offset, syncer, page, raw, lastRaw, marked, outputs, crashes>>

\* The transaction: the rows that were read are sorted and written to outputs
\* (the row there is updated, or else a new one created), and their raw
\* outputs deleted, whatever those have become since.
AckRaws ==
  /\ reading # <<>>
  /\ \E new \in SortOutputs({r \in Range(reading) : r.utxo \notin Listed(outputs)}) :
       outputs' = UpdateOutputs(outputs, reading) \o new
  /\ raw' = [u \in DOMAIN raw \ Listed(reading) |-> raw[u]]
  /\ reading' = <<>>
  /\ UNCHANGED <<net, clock, offset, syncer, page, lastRaw, marked, crashes>>

\* The process restarts: what is in memory is gone.
Crash ==
  /\ crashes < MaxCrashes
  /\ crashes' = crashes + 1
  /\ syncer' = "idle" /\ page' = <<>>
  /\ marked' = 0
  /\ reading' = <<>>
  /\ UNCHANGED <<net, clock, offset, raw, lastRaw, outputs>>

Next ==
  \/ \E k \in 1..MaxTies : Appear(k)
  \/ \E u \in Created : ChangeState(u)
  \/ Pull \/ Save \/ MarkEnd \/ SaveOffset
  \/ ReadRaws \/ AckRaws
  \/ Crash

Spec == Init /\ [][Next]_vars

\* Both loops run for ever, whatever error a round ends with.
FairSpec == /\ Spec
            /\ WF_vars(Pull \/ Save \/ MarkEnd \/ SaveOffset)
            /\ WF_vars(ReadRaws \/ AckRaws)

(***************************************************************************)
(* Properties                                                              *)
(***************************************************************************)
Rows == [utxo : UTXOs, created : Nat \ {0}, state : 0..2]
PageRows == [utxo : UTXOs, created : Nat \ {0}, updated : Nat \ {0}, state : 0..2]

\* Type invariant: the tables are keyed by trace id (an output has one row in
\* outputs), a page and a round are never longer than their limits, and
\* nothing is stamped with a time to come.
SyncTypeOK ==
  /\ Created \subseteq UTXOs
  /\ \A u \in Created : net[u].updated \in net[u].created..clock
  /\ offset \in 0..clock
  /\ syncer \in {"idle", "pulled", "saved", "marked"}
  /\ page \in Seq(PageRows) /\ Len(page) <= PullLimit
  /\ reading \in Seq(Rows) /\ Len(reading) <= AckLimit
  /\ outputs \in Seq(Rows) /\ IsInjective([i \in DOMAIN outputs |-> outputs[i].utxo])
  /\ DOMAIN raw \subseteq Created /\ marked <= lastRaw

\* The ids of the table outputs follow creation order without a gap: on every
\* node the table is a beginning of the same sequence, however far behind the
\* node was, in whatever order the network listed the outputs, and wherever
\* it restarted (walletStore.Save, syncRawOutputs, trimSuffix).  The payee
\* orders its work, and the assigner compares ages, by these ids.
OrderIsCanonical == \A i \in DOMAIN outputs : outputs[i].utxo = i

\* The syncer's checkpoint never passes an output: what it will not pull
\* again is in one of the two tables (Syncer.run saves the offset last).
NothingSkipped ==
  \A u \in Created :
    net[u].updated < offset => u \in DOMAIN raw \/ u \in Listed(outputs)

\* Every output reaches the payee: time and again the table outputs has all
\* there are, and what it has it keeps (Syncer.run and runSync together).
EveryOutputListed == []<>(Created \subseteq Listed(outputs))

\* "Save batch update multiple Output" (core/wallet.go:78): once the syncer
\* has saved an output's last update and moved on, the output's row has it.
SavedUpdatesStay ==
  \A i \in DOMAIN outputs :
    LET u == outputs[i].utxo
    IN  net[u].updated < offset => outputs[i].state = net[u].state
=============================================================================
