----------------------------- MODULE SyncProofs -----------------------------
(***************************************************************************)
(* For any number of outputs and of equal creation times, any limits of a  *)
(* page and of a round that a group of equal times fits in, and any number *)
(* of restarts: the table outputs is a beginning of the one sequence of    *)
(* all outputs (OrderIsCanonical), and the syncer's checkpoint passes      *)
(* nothing (NothingSkipped).                                               *)
(*                                                                         *)
(* The argument.  A page that is not full was the end of the network's     *)
(* list, so with it the node had seen all there was, and what appears      *)
(* later was created later: what the node has seen is closed under "was    *)
(* created no later than" (PageInv).  The id Save marks then covers whole  *)
(* such a closed set, and raw outputs parked later get higher ids, so this *)
(* stays true until the next mark (MarkInv).  A round takes the earliest   *)
(* rows below the mark and never a part of a group of equal times, so what *)
(* it read continues the table without a gap (ReadInv), whatever the       *)
(* syncer saves before its transaction.                                    *)
(***************************************************************************)
EXTENDS OutputSync, SetLemmas, TLAPS

NotLater(u) == {v \in Created : net[v].created <= net[u].created}

Stamps == [created : Nat \ {0}, updated : Nat \ {0}, state : 0..2]

\* The network: outputs are numbered in order of creation, at most MaxTies of
\* them have one time, and no time is to come.
NetInv ==
  /\ clock \in Nat
  /\ Cardinality(Created) \in Nat /\ Cardinality(Created) <= MaxOutputs
  /\ Created = 1..Cardinality(Created)
  /\ \A u \in Created : net[u] \in Stamps
  /\ \A u \in Created : net[u].created <= net[u].updated /\ net[u].updated <= clock
  /\ \A u, v \in Created : u < v => net[u].created <= net[v].created
  /\ \A t \in Nat : Cardinality({u \in Created : net[u].created = t}) <= MaxTies

\* The tables: no output has a row in both.
RowsInv ==
  /\ offset \in 0..clock
  /\ lastRaw \in Nat /\ marked \in 0..lastRaw
  /\ DOMAIN raw \subseteq Created
  /\ \A u \in DOMAIN raw :
       raw[u] \in [id : 1..lastRaw, created : {net[u].created}, state : 0..2]
  /\ outputs \in Seq(Rows) /\ Len(outputs) <= Cardinality(Created)
  /\ OrderIsCanonical
  /\ \A u \in DOMAIN raw : u > Len(outputs)

Held == DOMAIN raw \cup Listed(outputs)
Seen == IF syncer = "pulled" THEN Held \cup Listed(page) ELSE Held

\* What the syncer pulled, and what it knows with it.
PageInv ==
  /\ syncer \in {"idle", "pulled", "saved", "marked"}
  /\ page \in Seq(PageRows) /\ Len(page) <= PullLimit
  /\ \A i \in DOMAIN page : /\ page[i].utxo \in Created
                            /\ page[i].created = net[page[i].utxo].created
                            /\ page[i].updated <= clock
  /\ syncer # "idle" =>
       /\ page # <<>>
       /\ \A u \in Created : net[u].updated < Last(page).updated => u \in Seen
  /\ syncer \in {"pulled", "saved"} /\ End => \A u \in Seen : NotLater(u) \subseteq Seen

\* What runSync may read: with a row, all that was created no later.
Marked == {u \in DOMAIN raw : raw[u].id <= marked}
MarkInv == \A u \in Marked : NotLater(u) \subseteq Marked \cup Listed(outputs)

\* What it has read: the rows that come next in the table outputs.
ReadInv ==
  /\ reading \in Seq(Rows) /\ Len(reading) <= AckLimit
  /\ \A i \in DOMAIN reading :
       /\ reading[i].utxo \in DOMAIN raw /\ reading[i].utxo > Len(outputs)
       /\ reading[i].created = net[reading[i].utxo].created
       /\ Len(outputs) + 1 .. reading[i].utxo \subseteq Listed(reading)

SyncInv == NetInv /\ RowsInv /\ PageInv /\ NothingSkipped /\ MarkInv /\ ReadInv

-----------------------------------------------------------------------------
(***************************************************************************)
(* Numbers and arrangements.                                               *)
(***************************************************************************)

\* Increasing numbers above m that leave none out are m + 1, m + 2, ...
LEMMA Enumeration ==
  ASSUME NEW m \in Nat, NEW k \in Nat, NEW f \in [1..k -> Nat],
         \A i \in 1..k : f[i] > m,
         \A i, j \in 1..k : i < j => f[i] < f[j],
         \A i \in 1..k : \A v \in m + 1 .. f[i] : \E j \in 1..k : f[j] = v
  PROVE  \A i \in 1..k : f[i] = m + i
<1> SUFFICES ASSUME NEW i \in 1..k
             PROVE  f[i] = m + i
  OBVIOUS
<1> DEFINE D == 1..i
           T == m + 1 .. f[i]
           g == [j \in D |-> f[j]]
<1>1. IsFiniteSet(D) /\ Cardinality(D) = i
  BY FS_Interval
<1>2. IsFiniteSet(T) /\ Cardinality(T) = f[i] - m
  <2>1. f[i] \in Int /\ m + 1 \in Int /\ f[i] > m
    OBVIOUS
  <2>2. IsFiniteSet(T) /\ Cardinality(T) = IF m + 1 > f[i] THEN 0 ELSE f[i] - (m + 1) + 1
    BY <2>1, FS_Interval
  <2> QED
    BY <2>1, <2>2
<1>3. \A j \in D : f[j] \in T
  OBVIOUS
<1>4. g \in Injection(D, T)
  <2>1. g \in [D -> T]
    BY <1>3
  <2>2. \A a, b \in D : a # b => g[a] # g[b]
    <3> SUFFICES ASSUME NEW a \in D, NEW b \in D, a # b
                 PROVE  f[a] # f[b]
      OBVIOUS
    <3>1. a < b \/ b < a
      OBVIOUS
    <3> QED
      BY <3>1
  <2> QED
    BY <2>1, <2>2 DEF Injection, IsInjective
<1>5. g \in Surjection(D, T)
  <2>1. \A v \in T : \E j \in D : g[j] = v
    <3> SUFFICES ASSUME NEW v \in T
                 PROVE  \E j \in D : f[j] = v
      OBVIOUS
    <3>1. PICK j \in 1..k : f[j] = v
      OBVIOUS
    <3>2. ~ (i < j)
      BY <3>1
    <3> QED
      BY <3>1, <3>2
  <2> QED
    BY <1>4, <2>1 DEF Injection, Surjection
<1> HIDE DEF D, T, g
<1>6. Cardinality(D) = Cardinality(T)
  BY <1>1, <1>2, <1>4, <1>5, FS_Injection
<1> QED
  BY <1>1, <1>2, <1>6

\* A page of a list in the order of a column: a full one may stop anywhere,
\* and what it leaves out is no smaller than what it has.
LEMMA Listing ==
  ASSUME NEW S, IsFiniteSet(S), NEW limit \in Nat, NEW column,
         NEW r \in Listings(S, limit, column)
  PROVE  /\ r \in Seq(S) /\ Len(r) <= limit
         /\ SortedBy(r, column)
         /\ \A i, j \in DOMAIN r : i # j => r[i] # r[j]
         /\ Len(r) < limit => \A x \in S : \E i \in DOMAIN r : r[i] = x
         /\ \A x \in S : \/ \E i \in DOMAIN r : r[i] = x
                        \/ \A i \in DOMAIN r : r[i][column] <= x[column]
<1>1. PICK s \in SetToSeqs(S) :
         /\ SortedBy(s, column)
         /\ r = SubSeq(s, 1, IF limit < Len(s) THEN limit ELSE Len(s))
  BY DEF Listings
<1>2. /\ s \in Seq(S)
      /\ \A i, j \in DOMAIN s : i # j => s[i] # s[j]
      /\ \A x \in S : \E i \in DOMAIN s : s[i] = x
  BY Arrangement
<1> DEFINE n == IF limit < Len(s) THEN limit ELSE Len(s)
<1>3. /\ r \in Seq(S) /\ Len(r) = n
      /\ DOMAIN r = 1..n /\ DOMAIN s = 1..Len(s)
      /\ \A i \in 1..n : i \in DOMAIN s /\ r[i] = s[i]
  BY <1>1, <1>2
<1>4. SortedBy(r, column)
  BY <1>1, <1>3 DEF SortedBy
<1>5. \A i, j \in DOMAIN r : i # j => r[i] # r[j]
  BY <1>2, <1>3
<1>6. Len(r) < limit => \A x \in S : \E i \in DOMAIN r : r[i] = x
  BY <1>2, <1>3
<1>7. ASSUME NEW x \in S, ~ \E i \in DOMAIN r : r[i] = x, NEW i \in DOMAIN r
      PROVE  r[i][column] <= x[column]
  <2>1. PICK j \in DOMAIN s : s[j] = x
    BY <1>2
  <2>2. j > n
    BY <1>2, <1>3, <1>7, <2>1, SMTT(30)
  <2> QED
    BY <1>1, <1>2, <1>3, <2>1, <2>2 DEF SortedBy
<1> QED
  BY <1>2, <1>3, <1>4, <1>5, <1>6, <1>7

-----------------------------------------------------------------------------
(***************************************************************************)
(* The invariant is inductive: the network, the syncer, runSync.           *)
(***************************************************************************)

\* No output is listed or parked yet.
LEMMA InitSync == Init => SyncInv
<1> SUFFICES ASSUME Init
             PROVE  SyncInv
  OBVIOUS
<1> USE LimitAssumption
<1>1. Created = {} /\ Cardinality(Created) = 0
  BY FS_EmptySet DEF Init, Created
<1>2. NetInv
  BY <1>1, FS_EmptySet DEF Init, NetInv
<1>3. Listed(outputs) = {} /\ Listed(page) = {} /\ Listed(reading) = {} /\ DOMAIN raw = {}
  BY DEF Init, Listed
<1>4. RowsInv
  BY <1>1, <1>3 DEF Init, RowsInv, OrderIsCanonical
<1>5. PageInv
  BY <1>3 DEF Init, PageInv
<1>6. NothingSkipped /\ MarkInv /\ ReadInv
  BY <1>1, <1>3 DEF Init, NothingSkipped, MarkInv, Marked, ReadInv
<1> QED
  BY <1>2, <1>4, <1>5, <1>6 DEF SyncInv

\* Times are numbers, and none is to come.
LEMMA Times ==
  ASSUME NetInv
  PROVE  /\ clock \in Nat
         /\ \A u \in Created : /\ net[u].created \in Nat /\ net[u].updated \in Nat
                               /\ 1 <= net[u].created /\ net[u].created <= net[u].updated
                               /\ net[u].updated <= clock /\ net[u].created <= clock
<1>1. ASSUME NEW u \in Created
      PROVE  net[u].created \in Nat \ {0} /\ net[u].updated \in Nat \ {0}
  BY DEF NetInv, Stamps
<1>2. clock \in Nat
  BY DEF NetInv
<1>3. \A u \in Created : net[u].created <= net[u].updated /\ net[u].updated <= clock
  BY DEF NetInv
<1> QED
  BY <1>1, <1>2, <1>3

\* A page has rows of outputs that exist.
LEMMA PageTimes ==
  ASSUME PageInv, NEW i \in DOMAIN page
  PROVE  /\ page[i] \in PageRows /\ page[i].updated \in Nat
         /\ page[i].utxo \in Created /\ page[i].created = net[page[i].utxo].created
         /\ page[i].updated <= clock
<1>1. page[i] \in PageRows
  BY DEF PageInv
<1>2. page[i].updated \in Nat
  BY <1>1 DEF PageRows
<1> QED
  BY <1>1, <1>2 DEF PageInv

\* A step of the network alone: no output it has changes its creation, those
\* it adds are created later, and what it updates is updated later, than all
\* a node has seen.
NetStep ==
  /\ clock' = clock + 1
  /\ Created \subseteq Created'
  /\ \A u \in Created : net'[u].created = net[u].created
  /\ \A u \in Created' \ Created : net'[u].created = clock + 1
  /\ \A u \in Created' : \/ u \in Created /\ net'[u].updated = net[u].updated
                         \/ net'[u].updated = clock + 1
  /\ UNCHANGED <<offset, syncer, page, raw, lastRaw, marked, reading, outputs, crashes>>

\* Such a step keeps the invariant, when it keeps the network's part of it.
LEMMA NetStepSync ==
  ASSUME SyncInv, NetInv', NetStep
  PROVE  SyncInv'
<1> USE DEF SyncInv
<1>1. /\ Listed(outputs)' = Listed(outputs) /\ Listed(page)' = Listed(page)
      /\ Listed(reading)' = Listed(reading) /\ Seen' = Seen /\ Held' = Held
      /\ Marked' = Marked
  BY DEF NetStep, Listed, Seen, Held, Marked
<1>2. Cardinality(Created) <= Cardinality(Created') /\ Cardinality(Created') \in Nat
  <2>1. Created' = 1..Cardinality(Created') /\ Cardinality(Created') \in Nat
    BY DEF NetInv
  <2>2. Cardinality(Created) = 0 \/ Cardinality(Created) \in Created
    BY DEF NetInv
  <2> QED
    BY <2>1, <2>2 DEF NetStep, NetInv
<1>3. RowsInv'
  BY <1>2 DEF NetStep, NetInv, RowsInv, OrderIsCanonical
<1>4. Seen \subseteq Created
  BY DEF Seen, Held, RowsInv, PageInv, OrderIsCanonical, Listed, NetInv
<1>5. Marked \subseteq Created
  BY DEF Marked, RowsInv
<1>6. \A u \in Created : NotLater(u)' = NotLater(u)
  <2> SUFFICES ASSUME NEW u \in Created, NEW v \in Created'
               PROVE  net'[v].created <= net'[u].created <=>
                        v \in Created /\ net[v].created <= net[u].created
    BY DEF NotLater, NetStep
  <2>1. CASE v \in Created
    BY <2>1 DEF NetStep
  <2>2. CASE v \notin Created
    <3>1. net'[v].created = clock + 1 /\ net'[u].created = net[u].created
      BY <2>2 DEF NetStep
    <3> QED
      BY <2>2, <3>1, Times
  <2> QED
    BY <2>1, <2>2
<1>7. PageInv'
  <2>1. \A i \in DOMAIN page : /\ page[i].utxo \in Created'
                              /\ page[i].created = net'[page[i].utxo].created
                              /\ page[i].updated <= clock'
    <3> SUFFICES ASSUME NEW i \in DOMAIN page
                 PROVE  /\ page[i].utxo \in Created'
                        /\ page[i].created = net'[page[i].utxo].created
                        /\ page[i].updated <= clock'
      OBVIOUS
    <3> QED
      BY PageTimes, Times DEF NetStep
  <2>2. ASSUME syncer # "idle", NEW u \in Created', net'[u].updated < Last(page).updated
        PROVE  u \in Seen
    <3>1. Last(page) \in PageRows /\ Last(page).updated <= clock
      BY <2>2 DEF PageInv, Last
    <3>2. Last(page).updated \in Nat /\ clock \in Nat
      BY <3>1 DEF PageRows, NetInv
    <3>3. u \in Created /\ net'[u].updated = net[u].updated
      BY <2>2, <3>1, <3>2 DEF NetStep
    <3> QED
      BY <2>2, <3>3 DEF PageInv
  <2> QED
    BY <1>1, <1>4, <1>6, <2>1, <2>2 DEF PageInv, NetStep, End
<1>8. NothingSkipped'
  <2> SUFFICES ASSUME NEW u \in Created', net'[u].updated < offset
               PROVE  u \in DOMAIN raw \/ u \in Listed(outputs)
    BY <1>1 DEF NothingSkipped, NetStep
  <2>1. offset \in Nat /\ offset <= clock /\ clock \in Nat
    BY DEF RowsInv, NetInv
  <2>2. u \in Created /\ net'[u].updated = net[u].updated
    BY <2>1 DEF NetStep
  <2> QED
    BY <2>2 DEF NothingSkipped
<1>9. MarkInv'
  BY <1>1, <1>5, <1>6 DEF MarkInv
<1>10. ReadInv'
  <2>1. \A i \in DOMAIN reading : net'[reading[i].utxo].created = net[reading[i].utxo].created
    BY DEF ReadInv, RowsInv, NetStep
  <2>2. reading' = reading /\ raw' = raw /\ outputs' = outputs
    BY DEF NetStep
  <2> QED
    BY <1>1, <2>1, <2>2 DEF ReadInv
<1> QED
  BY <1>3, <1>7, <1>8, <1>9, <1>10

\* New outputs are created later than all others.
LEMMA AppearSync ==
  ASSUME SyncInv, NEW k \in 1..MaxTies, Appear(k)
  PROVE  SyncInv'
<1> USE LimitAssumption
<1> DEFINE n == Cardinality(Created)
           new == n + 1 .. n + k
<1>1. n \in Nat /\ k \in Nat /\ k >= 1 /\ Created = 1..n /\ NetInv
  BY DEF SyncInv, NetInv
<1>2. /\ Created' = 1..(n + k)
      /\ \A u \in Created : net'[u] = net[u]
      /\ \A u \in new : net'[u] = [created |-> clock + 1, updated |-> clock + 1, state |-> 0]
  BY <1>1 DEF Appear, Created, Extend
<1>3. Cardinality(Created') = n + k
  BY <1>1, <1>2, FS_Interval
<1>4. \A u \in Created' : u \in Created \/ u \in new
  BY <1>1, <1>2
<1>5. clock' = clock + 1 /\ clock \in Nat /\ n + k <= MaxOutputs
  BY <1>1 DEF Appear, NetInv
<1>6. ASSUME NEW t \in Nat
      PROVE  Cardinality({u \in Created' : net'[u].created = t}) <= MaxTies
  <2> DEFINE G == {u \in Created' : net'[u].created = t}
  <2>1. CASE t = clock + 1
    <3>1. \A u \in Created : net[u].created # t
      BY <1>1, <2>1, Times
    <3>2. G = new
      BY <1>1, <1>2, <1>4, <2>1, <3>1
    <3>3. Cardinality(new) = k
      BY <1>1, FS_Interval
    <3> HIDE DEF new
    <3> QED
      BY <3>2, <3>3
  <2>2. CASE t # clock + 1
    <3>1. G = {u \in Created : net[u].created = t}
      BY <1>1, <1>2, <1>4, <2>2
    <3> QED
      BY <1>1, <3>1 DEF NetInv
  <2> QED
    BY <2>1, <2>2
<1>7. NetInv'
  <2>1. \A u \in Created' : /\ net'[u] \in Stamps
                           /\ net'[u].created <= net'[u].updated
                           /\ net'[u].updated <= clock'
    <3>1. ASSUME NEW u \in Created
          PROVE  net[u] \in Stamps /\ net[u].created <= net[u].updated /\ net[u].updated <= clock + 1
      <4>1. net[u] \in Stamps /\ net[u].updated \in Nat /\ net[u].updated <= clock
        BY <1>1 DEF NetInv, Stamps
      <4> QED
        BY <1>1, <1>5, <4>1 DEF NetInv
    <3>2. [created |-> clock + 1, updated |-> clock + 1, state |-> 0] \in Stamps
      BY <1>5 DEF Stamps
    <3> QED
      BY <1>2, <1>4, <1>5, <3>1, <3>2
  <2>3. \A u, v \in Created' : u < v => net'[u].created <= net'[v].created
    <3> SUFFICES ASSUME NEW u \in Created', NEW v \in Created', u < v
                 PROVE  net'[u].created <= net'[v].created
      OBVIOUS
    <3>1. CASE v \in Created
      <4>1. u \in Created
        BY <1>1, <1>2, <3>1
      <4> QED
        BY <1>1, <1>2, <3>1, <4>1 DEF NetInv
    <3>2. CASE v \in new
      <4>1. net'[v].created = clock'
        BY <1>2, <1>5, <3>2
      <4>2. net'[u].created \in Nat /\ net'[u].updated \in Nat
        BY <2>1 DEF Stamps
      <4> QED
        BY <1>5, <2>1, <4>1, <4>2
    <3> QED
      BY <1>4, <3>1, <3>2
  <2> QED
    <3>1. clock' \in Nat /\ Cardinality(Created') \in Nat
      BY <1>1, <1>3, <1>5
    <3> QED
      BY <1>2, <1>3, <1>5, <1>6, <2>1, <2>3, <3>1 DEF NetInv
<1>8. NetStep
  <2>1. \A u \in Created' : \/ u \in Created /\ net'[u].updated = net[u].updated
                           \/ net'[u].updated = clock + 1
    BY <1>2, <1>4
  <2>2. \A u \in Created' \ Created : net'[u].created = clock + 1
    BY <1>2, <1>4
  <2>3. Created \subseteq Created'
    BY <1>1, <1>2
  <2> QED
    BY <1>2, <1>5, <2>1, <2>2, <2>3 DEF NetStep, Appear
<1> QED
  BY <1>7, <1>8, NetStepSync

\* A change of state touches no creation time.
LEMMA ChangeStateSync ==
  ASSUME SyncInv, NEW u \in Created, ChangeState(u)
  PROVE  SyncInv'
<1>1. NetInv /\ clock \in Nat /\ clock' = clock + 1
  BY DEF SyncInv, NetInv, ChangeState
<1>2. /\ Created' = Created
      /\ net[u] \in Stamps
      /\ net[u].state < 2
      /\ net'[u] = [net[u] EXCEPT !.state = @ + 1, !.updated = clock + 1]
      /\ \A v \in Created \ {u} : net'[v] = net[v]
  BY <1>1 DEF ChangeState, Created, NetInv
<1>3. /\ net'[u] \in Stamps
      /\ net'[u].created = net[u].created /\ net'[u].updated = clock + 1
  <2>1. /\ net[u].created \in Nat \ {0} /\ net[u].state \in 0..1
        /\ net'[u].created = net[u].created /\ net'[u].updated = clock + 1
        /\ net'[u].state = net[u].state + 1
        /\ net'[u] = [created |-> net[u].created, updated |-> clock + 1,
                      state |-> net[u].state + 1]
    <3>1. net[u] \in [created : Nat \ {0}, updated : Nat \ {0}, state : 0..2]
      BY <1>2 DEF Stamps
    <3>2. net'[u] = [created |-> net[u].created, updated |-> clock + 1,
                     state |-> net[u].state + 1]
      BY <1>2, <3>1
    <3> QED
      BY <1>2, <3>1, <3>2
  <2> QED
    BY <1>1, <2>1 DEF Stamps
<1>4. \A v \in Created : net'[v].created = net[v].created
  BY <1>2, <1>3
<1>5. NetInv'
  <2>1. \A t : {v \in Created' : net'[v].created = t} = {v \in Created : net[v].created = t}
    BY <1>2, <1>4
  <2>2. \A v \in Created' : net'[v] \in Stamps
    BY <1>1, <1>2, <1>3 DEF NetInv
  <2>3. \A v \in Created' : net'[v].created <= net'[v].updated /\ net'[v].updated <= clock'
    <3> SUFFICES ASSUME NEW v \in Created
                 PROVE  net'[v].created <= net'[v].updated /\ net'[v].updated <= clock'
      BY <1>2
    <3>1. /\ net[v].created \in Nat /\ net[v].updated \in Nat
          /\ net[v].created <= net[v].updated /\ net[v].updated <= clock
      BY <1>1 DEF NetInv, Stamps
    <3> QED
      <4>1. CASE v = u
        BY <1>1, <1>3, <3>1, <4>1
      <4>2. CASE v # u
        BY <1>1, <1>2, <3>1, <4>2
      <4> QED
        BY <4>1, <4>2
  <2> QED
    BY <1>1, <1>2, <1>4, <2>1, <2>2, <2>3 DEF NetInv
<1>6. NetStep
  BY <1>1, <1>2, <1>3, <1>4 DEF NetStep, ChangeState
<1> QED
  BY <1>5, <1>6, NetStepSync

\* What the network lists is finite.
LEMMA CreatedFinite ==
  ASSUME NetInv
  PROVE  /\ IsFiniteSet(Created) /\ Created \subseteq UTXOs /\ Created \subseteq Nat \ {0}
         /\ Cardinality(Created) \in Nat /\ Created = 1..Cardinality(Created)
<1> USE LimitAssumption
<1>1. /\ Cardinality(Created) \in Nat /\ Created = 1..Cardinality(Created)
      /\ Cardinality(Created) <= MaxOutputs
  BY DEF NetInv
<1>2. IsFiniteSet(1..Cardinality(Created))
  BY <1>1, FS_Interval
<1>3. Created \subseteq UTXOs /\ Created \subseteq Nat \ {0}
  BY <1>1 DEF UTXOs
<1> QED
  BY <1>1, <1>2, <1>3

\* A finite number of rows is read.
LEMMA FiniteRows ==
  ASSUME NEW D, IsFiniteSet(D), NEW f, DOMAIN f = D, f = [x \in D |-> f[x]]
  PROVE  IsFiniteSet({f[x] : x \in D})
<1> DEFINE T == {f[x] : x \in D}
<1>1. f \in [D -> T] /\ \A y \in T : \E x \in D : f[x] = y
  OBVIOUS
<1> HIDE DEF T
<1>2. f \in Surjection(D, T)
  BY <1>1 DEF Surjection
<1>3. IsFiniteSet(T)
  BY <1>2, FS_Surjection
<1> QED
  BY <1>3 DEF T

\* Which outputs are held: the table outputs has the first ones.
LEMMA ListedOutputs ==
  ASSUME RowsInv
  PROVE  Listed(outputs) = 1..Len(outputs) /\ Len(outputs) \in Nat
<1>1. Len(outputs) \in Nat /\ DOMAIN outputs = 1..Len(outputs)
  BY DEF RowsInv
<1> QED
  BY <1>1 DEF RowsInv, Listed, OrderIsCanonical

\* The syncer pulls a page: with a page that is not full it has seen all.
LEMMA PullSync ==
  ASSUME SyncInv, Pull
  PROVE  SyncInv'
<1> USE LimitAssumption
<1> DEFINE D == {v \in Created : net[v].updated >= offset}
           row == [u \in D |-> [utxo |-> u, created |-> net[u].created,
                                updated |-> net[u].updated, state |-> net[u].state]]
           found == {row[u] : u \in D}
<1>1. NetInv /\ RowsInv /\ PageInv /\ NothingSkipped /\ MarkInv /\ ReadInv
  BY DEF SyncInv
<1>2. IsFiniteSet(found)
  <2>1. IsFiniteSet(D)
    BY <1>1, CreatedFinite, FS_Subset
  <2>2. DOMAIN row = D /\ row = [u \in D |-> row[u]]
    OBVIOUS
  <2> HIDE DEF D, row
  <2> QED
    BY <2>1, <2>2, FiniteRows
<1>3. PICK p \in Listings(found, PullLimit, "updated") : p # <<>> /\ page' = p
  <2>1. found = {[utxo |-> u, created |-> net[u].created, updated |-> net[u].updated,
                  state |-> net[u].state] : u \in D}
    OBVIOUS
  <2> QED
    BY <2>1 DEF Pull
<1>4. /\ p \in Seq(found) /\ Len(p) <= PullLimit
      /\ SortedBy(p, "updated")
      /\ Len(p) < PullLimit => \A x \in found : \E i \in DOMAIN p : p[i] = x
      /\ \A x \in found : \/ \E i \in DOMAIN p : p[i] = x
                         \/ \A i \in DOMAIN p : p[i].updated <= x.updated
  <2> HIDE DEF found
  <2> QED
    BY <1>2, Listing
<1>5. Len(p) \in Nat /\ Len(p) # 0 /\ DOMAIN p = 1..Len(p)
  BY <1>3, <1>4
<1>full. Len(p) = PullLimit <=> ~ (Len(p) < PullLimit)
  BY <1>4
<1>6. ASSUME NEW i \in DOMAIN p
      PROVE  /\ p[i].utxo \in D /\ p[i] \in PageRows
             /\ p[i].created = net[p[i].utxo].created /\ p[i].updated = net[p[i].utxo].updated
             /\ p[i].updated <= clock
  <2>1. p[i] \in found
    BY <1>4
  <2>2. PICK u \in D : p[i] = row[u]
    BY <2>1
  <2>3. /\ p[i].utxo = u /\ p[i].created = net[u].created /\ p[i].updated = net[u].updated
        /\ p[i].state = net[u].state
        /\ p[i] = [utxo |-> p[i].utxo, created |-> p[i].created, updated |-> p[i].updated,
                  state |-> p[i].state]
    BY <2>2
  <2>4. net[u].state \in 0..2
    BY <1>1 DEF NetInv, Stamps
  <2>5. u \in UTXOs
    BY <1>1, CreatedFinite
  <2>6. net[u].created \in Nat \ {0} /\ net[u].updated \in Nat \ {0} /\ net[u].updated <= clock
    BY <1>1, Times
  <2>7. p[i] \in PageRows
    BY <2>3, <2>4, <2>5, <2>6 DEF PageRows
  <2> QED
    BY <2>2, <2>3, <2>6, <2>7
<1>7. ASSUME NEW u \in D
      PROVE  \/ \E i \in DOMAIN p : p[i].utxo = u
             \/ Len(p) = PullLimit /\ \A i \in DOMAIN p : p[i].updated <= net[u].updated
  <2>1. row[u] \in found /\ row[u].utxo = u /\ row[u].updated = net[u].updated
    OBVIOUS
  <2> HIDE DEF found, row, D
  <2>2. PICK x \in found : x.utxo = u /\ x.updated = net[u].updated
    BY <2>1
  <2>3. CASE \E i \in DOMAIN p : p[i] = x
    BY <2>2, <2>3
  <2>4. CASE ~ \E i \in DOMAIN p : p[i] = x
    <3>1. Len(p) = PullLimit
      <4>1. ~ (Len(p) < PullLimit)
        BY <1>4, <2>4, Zenon
      <4> QED
        BY <1>full, <4>1
    <3>2. \A i \in DOMAIN p : p[i].updated <= x.updated
      BY <1>4, <2>4
    <3> QED
      BY <2>2, <3>1, <3>2
  <2> QED
    BY <2>3, <2>4
<1> HIDE DEF found, row
<1>8. /\ Created' = Created /\ net' = net /\ clock' = clock /\ Listed(outputs)' = Listed(outputs)
      /\ Held' = Held /\ Marked' = Marked /\ syncer' = "pulled"
      /\ Seen' = Held \cup Listed(p)
  BY <1>3 DEF Pull, Created, Listed, Held, Marked, Seen
<1>9. NetInv' /\ RowsInv' /\ MarkInv' /\ ReadInv'
  <2>1. NetInv' /\ RowsInv'
    BY <1>1, <1>8 DEF Pull, NetInv, RowsInv, OrderIsCanonical
  <2>2. MarkInv'
    BY <1>1, <1>8 DEF MarkInv, NotLater
  <2>3. reading' = reading /\ raw' = raw /\ outputs' = outputs
    BY DEF Pull
  <2> QED
    BY <1>1, <1>8, <2>1, <2>2, <2>3 DEF ReadInv, Listed
<1>10. NothingSkipped'
  BY <1>1, <1>8 DEF Pull, NothingSkipped
<1>11. \A u \in Created : u \in D \/ u \in Held
  <2> SUFFICES ASSUME NEW u \in Created, ~ (net[u].updated >= offset)
               PROVE  u \in Held
    OBVIOUS
  <2>1. net[u].updated < offset
    BY <1>1, Times DEF RowsInv
  <2> QED
    BY <1>1, <2>1 DEF NothingSkipped, Held
<1>12. PageInv'
  <2>1. p \in Seq(PageRows)
    BY <1>4, <1>5, <1>6
  <2>2. ASSUME NEW u \in Created, net[u].updated < Last(p).updated
        PROVE  u \in Seen'
    <3>1. Len(p) \in DOMAIN p /\ Last(p) = p[Len(p)]
      BY <1>5 DEF Last
    <3>2. ~ (Last(p).updated <= net[u].updated)
      <4>1. Last(p).updated \in Nat /\ net[u].updated \in Nat
        BY <1>1, <1>6, <3>1, Times
      <4> QED
        BY <2>2, <4>1
    <3>3. u \in Held \/ \E i \in DOMAIN p : p[i].utxo = u
      BY <1>7, <1>11, <3>1, <3>2
    <3> QED
      BY <1>8, <3>3 DEF Listed
  <2>3. ASSUME Len(p) < PullLimit
        PROVE  Created \subseteq Seen'
    <3>1. Len(p) # PullLimit
      BY <1>full, <2>3
    <3> HIDE DEF D
    <3>2. ASSUME NEW u \in D PROVE u \in Listed(p)
      <4>1. \E i \in DOMAIN p : p[i].utxo = u
        BY <1>7, <3>1
      <4> QED
        BY <4>1 DEF Listed
    <3> QED
      BY <1>8, <1>11, <3>2
  <2>4. \A i \in DOMAIN p : p[i].utxo \in Created
    BY <1>6
  <2>5. /\ page' = p /\ page' # <<>> /\ syncer' = "pulled" /\ (End)' = (Len(p) < PullLimit)
    BY <1>3, <1>8 DEF End
  <2>6. \A u : NotLater(u)' \subseteq Created
    BY <1>8 DEF NotLater
  <2> HIDE DEF D
  <2> QED
    BY <1>4, <1>6, <1>8, <2>1, <2>2, <2>3, <2>4, <2>5, <2>6 DEF PageInv
<1> QED
  BY <1>9, <1>10, <1>12 DEF SyncInv

\* An update of rows that are there moves none of them.
LEMMA UpdatedRows ==
  ASSUME NEW table \in Seq(Rows), NEW rows, \A j \in DOMAIN rows : rows[j].state \in 0..2
  PROVE  /\ UpdateOutputs(table, rows) \in Seq(Rows)
         /\ Len(UpdateOutputs(table, rows)) = Len(table)
         /\ \A i \in DOMAIN table : UpdateOutputs(table, rows)[i].utxo = table[i].utxo
<1> DEFINE f == UpdateOutputs(table, rows)
<1>1. Len(table) \in Nat /\ DOMAIN table = 1..Len(table) /\ DOMAIN f = DOMAIN table
  BY DEF UpdateOutputs
<1>2. ASSUME NEW i \in DOMAIN table
      PROVE  f[i] \in Rows /\ f[i].utxo = table[i].utxo
  <2>1. table[i] \in Rows
    OBVIOUS
  <2>2. CASE table[i].utxo \in Listed(rows)
    <3> DEFINE j == CHOOSE k \in DOMAIN rows : rows[k].utxo = table[i].utxo
    <3>1. j \in DOMAIN rows
      BY <2>2 DEF Listed
    <3>2. rows[j].state \in 0..2
      BY <3>1
    <3>3. f[i] = [table[i] EXCEPT !.state = rows[j].state]
      BY <2>2 DEF UpdateOutputs
    <3> HIDE DEF j, f
    <3> QED
      BY <2>1, <3>2, <3>3 DEF Rows
  <2>3. CASE table[i].utxo \notin Listed(rows)
    BY <2>1, <2>3 DEF UpdateOutputs
  <2> QED
    BY <2>2, <2>3
<1>3. f \in [1..Len(table) -> Rows]
  <2>1. f = [i \in DOMAIN table |-> f[i]]
    BY DEF UpdateOutputs
  <2> HIDE DEF f
  <2> QED
    BY <1>1, <1>2, <2>1
<1> HIDE DEF f
<1>4. f \in Seq(Rows) /\ Len(f) = Len(table)
  BY <1>1, <1>3
<1> QED
  BY <1>2, <1>4 DEF f

\* The rows a page adds to raw_outputs get ids above all others.
LEMMA ParkedRow ==
  ASSUME SyncInv, NEW u \in Listed(page) \ Listed(outputs)
  PROVE  /\ Cardinality(Unknown(Len(page))) \in Nat
         /\ Parked(u) \in [id : 1..(lastRaw + Cardinality(Unknown(Len(page)))),
                           created : {net[u].created}, state : 0..2]
         /\ u \in DOMAIN raw => Parked(u).id = raw[u].id
         /\ u \notin DOMAIN raw => Parked(u).id > lastRaw
<1> DEFINE i == CHOOSE j \in DOMAIN page : page[j].utxo = u
           n == Cardinality(Unknown(i))
           all == Cardinality(Unknown(Len(page)))
<1>1. PageInv /\ RowsInv /\ lastRaw \in Nat
  BY DEF SyncInv, RowsInv
<1>2. i \in DOMAIN page /\ page[i].utxo = u
  BY DEF Listed
<1>3. Len(page) \in Nat /\ DOMAIN page = 1..Len(page) /\ i \in 1..Len(page)
  BY <1>1, <1>2 DEF PageInv
<1>4. page[i].created = net[u].created /\ page[i].state \in 0..2
  <2>1. page[i] \in PageRows
    BY <1>1, <1>2, PageTimes
  <2> HIDE DEF i
  <2> QED
    BY <1>1, <1>2, <2>1 DEF PageInv, PageRows
<1> HIDE DEF i
<1>5. Unknown(i) \subseteq Unknown(Len(page)) /\ Unknown(Len(page)) \subseteq 1..Len(page)
  BY <1>3 DEF Unknown
<1>6. IsFiniteSet(Unknown(Len(page))) /\ IsFiniteSet(Unknown(i))
  <2>1. Unknown(i) \subseteq 1..Len(page)
    BY <1>5
  <2> QED
    BY <1>3, <1>5, <2>1, FinitePositions
<1>7. n \in Nat /\ all \in Nat /\ n <= all
  BY <1>5, <1>6, FS_Subset, FS_CardinalityType
<1>8. u \notin DOMAIN raw => n # 0
  <2>1. u \notin DOMAIN raw => i \in Unknown(i)
    BY <1>2, <1>3 DEF Unknown
  <2> QED
    BY <1>6, <2>1, FS_EmptySet
<1>9. Parked(u) = [id |-> IF u \in DOMAIN raw THEN raw[u].id ELSE lastRaw + n,
                  created |-> page[i].created, state |-> page[i].state]
  BY DEF Parked, i
<1>10. u \in DOMAIN raw => raw[u].id \in 1..lastRaw
  BY <1>1 DEF RowsInv
<1> HIDE DEF n, all
<1>11. Parked(u).id \in 1..(lastRaw + all)
  BY <1>1, <1>7, <1>8, <1>9, <1>10
<1>12. u \notin DOMAIN raw => Parked(u).id > lastRaw
  BY <1>1, <1>7, <1>8, <1>9
<1>13. Parked(u) \in [id : 1..(lastRaw + all), created : {net[u].created}, state : 0..2]
  BY <1>4, <1>9, <1>11
<1> QED
  BY <1>7, <1>9, <1>12, <1>13 DEF all

\* The syncer saves a page: every row of it is in a table then, and none of
\* the new ones is below the mark.
LEMMA SaveSync ==
  ASSUME SyncInv, Save
  PROVE  SyncInv'
<1> DEFINE new == Listed(page) \ Listed(outputs)
           all == Cardinality(Unknown(Len(page)))
<1>1. NetInv /\ RowsInv /\ PageInv /\ NothingSkipped /\ MarkInv /\ ReadInv
  BY DEF SyncInv
<1>2. /\ net' = net /\ clock' = clock /\ offset' = offset /\ page' = page /\ marked' = marked
      /\ reading' = reading /\ syncer = "pulled" /\ syncer' = "saved"
      /\ Created' = Created /\ lastRaw' = lastRaw + all
      /\ DOMAIN raw' = DOMAIN raw \cup new
      /\ \A u \in DOMAIN raw' : raw'[u] = IF u \in new THEN Parked(u) ELSE raw[u]
  BY DEF Save, Created, Extend
<1>3. all \in Nat
  <2>1. Unknown(Len(page)) \subseteq 1..Len(page) /\ Len(page) \in Nat
    BY <1>1 DEF Unknown, PageInv
  <2> QED
    BY <2>1, FinitePositions
<1>4. /\ lastRaw \in Nat /\ marked \in Nat /\ marked <= lastRaw /\ marked <= lastRaw'
      /\ lastRaw' \in Nat /\ lastRaw <= lastRaw'
  BY <1>1, <1>2, <1>3 DEF RowsInv
<1>5. /\ outputs' \in Seq(Rows) /\ Len(outputs') = Len(outputs)
      /\ \A i \in DOMAIN outputs : outputs'[i].utxo = outputs[i].utxo
      /\ DOMAIN outputs' = DOMAIN outputs
  <2>1. ASSUME NEW j \in DOMAIN page PROVE page[j].state \in 0..2
    <3>1. page[j] \in PageRows
      BY <1>1, PageTimes
    <3> QED
      BY <3>1 DEF PageRows
  <2>2. outputs \in Seq(Rows)
    BY <1>1 DEF RowsInv
  <2>3. /\ outputs' \in Seq(Rows) /\ Len(outputs') = Len(outputs)
        /\ \A i \in DOMAIN outputs : outputs'[i].utxo = outputs[i].utxo
    BY <2>1, <2>2, UpdatedRows DEF Save
  <2> QED
    BY <2>2, <2>3
<1>6. Listed(outputs)' = Listed(outputs) /\ Listed(page)' = Listed(page)
  BY <1>2, <1>5 DEF Listed
<1>7. new \subseteq Created
  BY <1>1 DEF PageInv, Listed
<1>8. ASSUME NEW u \in DOMAIN raw'
      PROVE  /\ raw'[u] \in [id : 1..lastRaw', created : {net[u].created}, state : 0..2]
             /\ u \in DOMAIN raw => raw'[u].id = raw[u].id
             /\ u \notin DOMAIN raw => raw'[u].id > lastRaw
  <2>1. CASE u \in new
    BY <1>2, <2>1, ParkedRow
  <2>2. CASE u \notin new
    <3>1. u \in DOMAIN raw /\ raw'[u] = raw[u]
      BY <1>2, <2>2
    <3>2. raw[u] \in [id : 1..lastRaw, created : {net[u].created}, state : 0..2]
      BY <1>1, <3>1 DEF RowsInv
    <3>3. \A x \in 1..lastRaw : x \in 1..lastRaw'
      BY <1>4
    <3> QED
      BY <3>1, <3>2, <3>3
  <2> QED
    BY <2>1, <2>2
<1>9. Marked' = Marked
  <2>1. \A u \in DOMAIN raw : u \in DOMAIN raw' /\ raw'[u].id = raw[u].id
    BY <1>2, <1>8
  <2>2. \A u \in DOMAIN raw' : u \notin DOMAIN raw => ~ (raw'[u].id <= marked)
    <3> SUFFICES ASSUME NEW u \in DOMAIN raw', u \notin DOMAIN raw
                 PROVE  ~ (raw'[u].id <= marked)
      OBVIOUS
    <3>1. raw'[u].id \in 1..lastRaw' /\ raw'[u].id > lastRaw
      BY <1>8
    <3> QED
      BY <1>4, <3>1
  <2> QED
    BY <1>2, <2>1, <2>2 DEF Marked
<1>10. Seen' = Seen /\ Held \subseteq Held'
  BY <1>2, <1>6 DEF Seen, Held
<1>11. NetInv'
  BY <1>1, <1>2 DEF NetInv
<1>12. RowsInv'
  <2>1. \A u \in DOMAIN raw' : u > Len(outputs')
    <3>1. \A u \in new : u > Len(outputs)
      BY <1>1, <1>7, ListedOutputs, CreatedFinite
    <3> QED
      BY <1>1, <1>2, <1>5, <3>1 DEF RowsInv
  <2>2. OrderIsCanonical'
    BY <1>1, <1>5 DEF RowsInv, OrderIsCanonical
  <2>3. DOMAIN raw' \subseteq Created'
    BY <1>1, <1>2, <1>7 DEF RowsInv
  <2>4. \A u \in DOMAIN raw' :
          raw'[u] \in [id : 1..lastRaw', created : {net'[u].created}, state : 0..2]
    BY <1>2, <1>8
  <2> HIDE DEF all
  <2> QED
    BY <1>1, <1>2, <1>4, <1>5, <2>1, <2>2, <2>3, <2>4 DEF RowsInv
<1>13. PageInv'
  BY <1>1, <1>2, <1>10 DEF PageInv, End, NotLater
<1>14. NothingSkipped'
  BY <1>1, <1>2, <1>10 DEF NothingSkipped, Held
<1>15. MarkInv'
  BY <1>1, <1>2, <1>6, <1>9 DEF MarkInv, NotLater
<1>16. ReadInv'
  BY <1>1, <1>2, <1>5 DEF ReadInv, Listed
<1> QED
  BY <1>11, <1>12, <1>13, <1>14, <1>15, <1>16 DEF SyncInv

\* The end of Save: after the last page of the list, all raw outputs may be
\* moved.
LEMMA MarkEndSync ==
  ASSUME SyncInv, MarkEnd
  PROVE  SyncInv'
<1>1. NetInv /\ RowsInv /\ PageInv /\ NothingSkipped /\ MarkInv /\ ReadInv
  BY DEF SyncInv
<1>2. /\ net' = net /\ clock' = clock /\ offset' = offset /\ page' = page /\ raw' = raw
      /\ lastRaw' = lastRaw /\ reading' = reading /\ outputs' = outputs
      /\ syncer = "saved" /\ syncer' = "marked"
      /\ Created' = Created /\ Listed(outputs)' = Listed(outputs)
  BY DEF MarkEnd, Created, Listed
<1>3. Seen' = Held /\ Seen = Held
  BY <1>2 DEF Seen, Held
<1>4. \/ marked' = marked
      \/ End /\ marked' \in 0..lastRaw /\ \A u \in DOMAIN raw : raw[u].id <= marked'
  <2> SUFFICES ASSUME End, FindLastRawOutputID > 0, marked' = FindLastRawOutputID
               PROVE  marked' \in 0..lastRaw /\ \A u \in DOMAIN raw : raw[u].id <= marked'
    BY DEF MarkEnd
  <2> DEFINE ids == {raw[u].id : u \in DOMAIN raw}
  <2>1. \A u \in DOMAIN raw : raw[u].id \in 1..lastRaw
    BY <1>1 DEF RowsInv
  <2>2. lastRaw \in Nat
    BY <1>1 DEF RowsInv
  <2>3. DOMAIN raw # {} /\ FindLastRawOutputID = Max(ids)
    BY DEF FindLastRawOutputID
  <2>4. ids \in SUBSET Nat /\ ids # {} /\ \A x \in ids : x <= lastRaw /\ x \in 1..lastRaw
    BY <2>1, <2>2, <2>3
  <2>5. \A u \in DOMAIN raw : raw[u].id \in ids
    OBVIOUS
  <2> HIDE DEF ids
  <2>6. Max(ids) \in ids /\ \A x \in ids : x <= Max(ids)
    BY <2>2, <2>4, Greatest
  <2>7. marked' \in 1..lastRaw
    BY <2>3, <2>4, <2>6
  <2> QED
    BY <2>2, <2>3, <2>5, <2>6, <2>7
<1>5. RowsInv'
  BY <1>1, <1>2, <1>4 DEF RowsInv, OrderIsCanonical
<1>6. PageInv'
  BY <1>1, <1>2, <1>3 DEF PageInv
<1>7. MarkInv'
  <2>1. CASE marked' = marked
    BY <1>1, <1>2, <2>1 DEF MarkInv, Marked, NotLater
  <2>2. CASE End /\ \A u \in DOMAIN raw : raw[u].id <= marked'
    <3>1. Marked' = DOMAIN raw
      BY <1>2, <2>2 DEF Marked
    <3>2. \A u \in Held : NotLater(u) \subseteq Held
      BY <1>1, <1>2, <1>3, <2>2 DEF PageInv
    <3>3. \A u : NotLater(u)' = NotLater(u)
      BY <1>2 DEF NotLater
    <3> QED
      BY <1>2, <3>1, <3>2, <3>3 DEF MarkInv, Held
  <2> QED
    BY <1>4, <2>1, <2>2
<1>8. NetInv' /\ NothingSkipped' /\ ReadInv'
  BY <1>1, <1>2 DEF NetInv, NothingSkipped, ReadInv, Listed
<1> QED
  BY <1>5, <1>6, <1>7, <1>8 DEF SyncInv

\* The checkpoint moves to the last row of a page that is saved.
LEMMA SaveOffsetSync ==
  ASSUME SyncInv, SaveOffset
  PROVE  SyncInv'
<1>1. NetInv /\ RowsInv /\ PageInv /\ NothingSkipped /\ MarkInv /\ ReadInv
  BY DEF SyncInv
<1>2. /\ net' = net /\ clock' = clock /\ raw' = raw /\ marked' = marked
      /\ lastRaw' = lastRaw /\ reading' = reading /\ outputs' = outputs
      /\ syncer = "marked" /\ syncer' = "idle" /\ page' = <<>> /\ offset' = Last(page).updated
      /\ Created' = Created /\ Listed(outputs)' = Listed(outputs)
  BY DEF SaveOffset, NextOffset, Created, Listed
<1>3. Seen = Held /\ DOMAIN raw' = DOMAIN raw
  BY <1>2 DEF Seen
<1>4. offset' \in 0..clock
  <2>1. page \in Seq(PageRows) /\ page # <<>>
    BY <1>1, <1>2 DEF PageInv
  <2>2. Len(page) \in DOMAIN page
    BY <2>1
  <2>3. page[Len(page)].updated \in Nat /\ page[Len(page)].updated <= clock
    BY <1>1, <2>2, PageTimes
  <2> QED
    BY <1>1, <1>2, <2>3, Times DEF Last
<1>5. NothingSkipped'
  BY <1>1, <1>2, <1>3 DEF PageInv, NothingSkipped, Held
<1>6. RowsInv'
  BY <1>1, <1>2, <1>4 DEF RowsInv, OrderIsCanonical
<1>7. PageInv'
  BY <1>2, LimitAssumption DEF PageInv
<1>8. NetInv' /\ MarkInv' /\ ReadInv'
  BY <1>1, <1>2 DEF NetInv, MarkInv, Marked, NotLater, ReadInv, Listed
<1> QED
  BY <1>5, <1>6, <1>7, <1>8 DEF SyncInv

\* A restart: nothing is marked, pulled or read.
LEMMA CrashSync ==
  ASSUME SyncInv, Crash
  PROVE  SyncInv'
<1>1. NetInv /\ RowsInv /\ PageInv /\ NothingSkipped /\ MarkInv /\ ReadInv
  BY DEF SyncInv
<1>2. /\ net' = net /\ clock' = clock /\ raw' = raw /\ marked' = 0
      /\ lastRaw' = lastRaw /\ reading' = <<>> /\ outputs' = outputs /\ offset' = offset
      /\ syncer' = "idle" /\ page' = <<>>
      /\ Created' = Created /\ Listed(outputs)' = Listed(outputs)
  BY DEF Crash, Created, Listed
<1>3. NetInv' /\ NothingSkipped'
  BY <1>1, <1>2 DEF NetInv, NothingSkipped
<1>4. RowsInv'
  BY <1>1, <1>2 DEF RowsInv, OrderIsCanonical
<1>5. PageInv' /\ ReadInv'
  BY <1>2, LimitAssumption DEF PageInv, ReadInv
<1>6. Marked' = {}
  <2>1. \A u \in DOMAIN raw : raw[u].id \in Nat /\ raw[u].id >= 1
    BY <1>1 DEF RowsInv
  <2> QED
    BY <1>2, <2>1 DEF Marked
<1>7. MarkInv'
  BY <1>6 DEF MarkInv
<1> QED
  BY <1>3, <1>4, <1>5, <1>7 DEF SyncInv

\* r is a round of raw outputs in the order of their creation: with a row it
\* has those created before, unless the limit cut it off.
Round(r) ==
  /\ r \in Seq(Rows) /\ Len(r) <= AckLimit
  /\ \A i \in DOMAIN r : r[i].utxo \in Marked /\ r[i].created = net[r[i].utxo].created
  /\ \A i, j \in DOMAIN r : i < j => r[i].created <= r[j].created
  /\ \A i, j \in DOMAIN r : i # j => r[i].utxo # r[j].utxo
  /\ \A u \in Marked : \/ u \in Listed(r)
                       \/ /\ Len(r) = AckLimit
                          /\ \A i \in DOMAIN r : r[i].created <= net[u].created

\* With a row, all that was created no later.
Whole(rows) ==
  /\ rows \in Seq(Rows) /\ Len(rows) <= AckLimit
  /\ \A i \in DOMAIN rows :
       /\ rows[i].utxo \in Marked
       /\ rows[i].created = net[rows[i].utxo].created
       /\ \A v \in Marked : net[v].created <= rows[i].created => v \in Listed(rows)

\* A group of equal creation times is no larger than a round.
LEMMA WholeGroup ==
  ASSUME SyncInv, NEW r, Round(r), Len(r) = AckLimit, NEW t \in Nat,
         \A i \in DOMAIN r : r[i].created = t,
         NEW v \in Marked, net[v].created = t
  PROVE  v \in Listed(r)
<1> USE LimitAssumption
<1> SUFFICES ASSUME v \notin Listed(r)
             PROVE  FALSE
  OBVIOUS
<1> DEFINE G == {u \in Created : net[u].created = t}
           D == 1..Len(r)
           f == [i \in D |-> r[i].utxo]
           T == Listed(r)
<1>1. NetInv /\ RowsInv /\ Marked \subseteq Created
  BY DEF SyncInv, RowsInv, Marked
<1>2. Len(r) \in Nat /\ DOMAIN r = D
  BY DEF Round
<1>3. IsFiniteSet(G) /\ Cardinality(G) <= MaxTies /\ Cardinality(G) \in Nat
  <2>1. IsFiniteSet(G)
    BY <1>1, CreatedFinite, FS_Subset
  <2> QED
    BY <1>1, <2>1, FS_CardinalityType DEF NetInv
<1>4. T \subseteq G /\ v \in G
  <2>1. \A i \in DOMAIN r : r[i].utxo \in Marked /\ net[r[i].utxo].created = t
    BY DEF Round
  <2> QED
    BY <1>1, <2>1 DEF Listed
<1>5. f \in [D -> T] /\ (\A a, b \in D : f[a] = f[b] => a = b) /\ (\A x \in T : \E i \in D : f[i] = x)
  BY <1>2 DEF Round, Listed
<1>6. IsFiniteSet(T) /\ Cardinality(T) = Len(r)
  <2>1. IsFiniteSet(T)
    BY <1>3, <1>4, FS_Subset
  <2>2. f \in Injection(D, T) /\ f \in Surjection(D, T)
    <3> HIDE DEF D, T, f
    <3> QED
      BY <1>5 DEF Injection, IsInjective, Surjection
  <2>3. Cardinality(D) = Len(r)
    BY <1>2, FS_Interval
  <2> HIDE DEF D, T, f
  <2>4. Cardinality(D) = Cardinality(T)
    BY <2>1, <2>2, FS_Injection
  <2> QED
    BY <2>1, <2>3, <2>4
<1> HIDE DEF T, G
<1>7. Cardinality(T \cup {v}) = Len(r) + 1
  BY <1>6, FS_AddElement DEF T
<1>8. T \cup {v} \in SUBSET G
  BY <1>4
<1>9. Cardinality(T \cup {v}) <= Cardinality(G)
  BY <1>3, <1>8, FS_Subset
<1> QED
  BY <1>2, <1>3, <1>7, <1>9

\* What trimSuffix leaves of a round.
LEMMA TrimmedRound ==
  ASSUME SyncInv, NEW r, Round(r), r # <<>>,
         NEW rows, rows = IF Len(r) = AckLimit THEN TrimSuffix(r) ELSE r
  PROVE  Whole(rows)
<1> USE LimitAssumption
<1>1. NetInv /\ RowsInv /\ Marked \subseteq Created
  BY DEF SyncInv, RowsInv, Marked
<1>2. PICK n \in Nat \ {0} : Len(r) = n /\ DOMAIN r = 1..n /\ n \in DOMAIN r
  <2>1. r \in Seq(Rows)
    BY DEF Round
  <2> QED
    BY <2>1
<1>3. \A i \in DOMAIN r : r[i].created \in Nat
  BY <1>1, Times DEF Round
<1>4. \A v \in Marked : net[v].created \in Nat
  BY <1>1, Times
<1>5. CASE Len(r) < AckLimit
  <2>1. rows = r /\ \A v \in Marked : v \in Listed(r)
    BY <1>2, <1>5 DEF Round
  <2> QED
    BY <2>1 DEF Round, Whole
<1>6. CASE Len(r) = AckLimit /\ Earlier(r) = {}
  <2>1. rows = r
    BY <1>6 DEF TrimSuffix
  <2>2. \A i \in DOMAIN r : r[i].created = Last(r).created
    BY <1>6 DEF Earlier
  <2>3. Last(r).created \in Nat
    BY <1>2, <1>3 DEF Last
  <2>4. ASSUME NEW i \in DOMAIN r, NEW v \in Marked, net[v].created <= r[i].created
        PROVE  v \in Listed(r)
    <3> SUFFICES ASSUME v \notin Listed(r) PROVE FALSE
      OBVIOUS
    <3>1. r[i].created <= net[v].created
      BY DEF Round
    <3>2. net[v].created = Last(r).created
      BY <1>3, <1>4, <2>2, <2>3, <2>4, <3>1
    <3> QED
      BY <1>6, <2>2, <2>3, <3>2, WholeGroup
  <2> QED
    BY <2>1, <2>4 DEF Round, Whole
<1>7. CASE Len(r) = AckLimit /\ Earlier(r) # {}
  <2> DEFINE l == Max(Earlier(r))
             c == Last(r).created
  <2>1. Earlier(r) \in SUBSET Nat /\ \A i \in Earlier(r) : i <= n
    BY <1>2 DEF Earlier
  <2>2. l \in Earlier(r) /\ \A i \in Earlier(r) : i <= l
    BY <1>2, <1>7, <2>1, Greatest
  <2>3. l \in DOMAIN r /\ l \in 1..n /\ r[l].created # c /\ c \in Nat /\ l # n
    BY <1>2, <1>3, <2>2 DEF Earlier, Last
  <2>4. rows = SubSeq(r, 1, l)
    BY <1>7 DEF TrimSuffix
  <2> HIDE DEF l
  <2>5. rows \in Seq(Rows) /\ Len(rows) = l /\ DOMAIN rows = 1..l /\ \A i \in 1..l : rows[i] = r[i]
    <3>1. r \in Seq(Rows)
      BY DEF Round
    <3> QED
      BY <1>2, <2>3, <2>4, <3>1
  <2>6. \A i \in 1..l : i \in DOMAIN r /\ r[i].created < c
    <3> SUFFICES ASSUME NEW i \in 1..l
                 PROVE  i \in DOMAIN r /\ r[i].created < c
      OBVIOUS
    <3>1. i \in DOMAIN r /\ (i < l \/ i = l)
      BY <1>2, <2>3
    <3>2. r[i].created <= r[l].created
      BY <1>3, <2>3, <3>1 DEF Round
    <3>3. r[l].created <= c
      BY <1>2, <2>3 DEF Round, Last
    <3> QED
      BY <1>3, <2>3, <3>1, <3>2, <3>3
  <2>7. ASSUME NEW i \in 1..l, NEW v \in Marked, net[v].created <= r[i].created
        PROVE  v \in Listed(rows)
    <3>1. net[v].created < c
      BY <1>3, <1>4, <2>3, <2>6, <2>7
    <3>2. v \in Listed(r)
      <4> SUFFICES ASSUME v \notin Listed(r) PROVE FALSE
        OBVIOUS
      <4>1. c <= net[v].created
        BY <1>2 DEF Round, Last
      <4> QED
        BY <1>4, <2>3, <3>1, <4>1
    <3>3. PICK j \in DOMAIN r : r[j].utxo = v
      BY <3>2 DEF Listed
    <3>4. r[j].created # c
      BY <1>4, <2>3, <3>1, <3>3 DEF Round
    <3>5. j \in 1..l
      BY <1>2, <2>2, <2>3, <3>4 DEF Earlier
    <3> QED
      BY <2>5, <3>3, <3>5 DEF Listed
  <2> QED
    <3>1. \A i \in 1..l : r[i].utxo \in Marked /\ r[i].created = net[r[i].utxo].created
      BY <2>6 DEF Round
    <3>2. l <= AckLimit
      BY <1>2, <1>7, <2>3
    <3> QED
      BY <2>5, <2>7, <3>1, <3>2 DEF Whole
<1>8. n <= AckLimit
  BY <1>2 DEF Round
<1> QED
  BY <1>2, <1>5, <1>6, <1>7, <1>8

\* runSync reads: what it keeps continues the table outputs without a gap.
LEMMA ReadRawsSync ==
  ASSUME SyncInv, ReadRaws
  PROVE  SyncInv'
<1> USE LimitAssumption
<1> DEFINE D == {v \in DOMAIN raw : raw[v].id <= marked}
           row == [u \in D |-> [utxo |-> u, created |-> raw[u].created, state |-> raw[u].state]]
           found == {row[u] : u \in D}
<1>1. /\ NetInv /\ RowsInv /\ PageInv /\ NothingSkipped /\ MarkInv /\ ReadInv
      /\ D = Marked /\ D \subseteq Created
  BY DEF SyncInv, Marked, RowsInv
<1>2. IsFiniteSet(found)
  <2>1. IsFiniteSet(D)
    BY <1>1, CreatedFinite, FS_Subset
  <2>2. DOMAIN row = D /\ row = [u \in D |-> row[u]]
    OBVIOUS
  <2> HIDE DEF D, row
  <2> QED
    BY <2>1, <2>2, FiniteRows
<1>3. PICK r \in Listings(found, AckLimit, "created") :
         r # <<>> /\ reading' = IF Len(r) = AckLimit THEN TrimSuffix(r) ELSE r
  <2>1. found = {[utxo |-> u, created |-> raw[u].created, state |-> raw[u].state] : u \in D}
    OBVIOUS
  <2> QED
    BY <2>1 DEF ReadRaws
<1>4. /\ r \in Seq(found) /\ Len(r) <= AckLimit
      /\ SortedBy(r, "created")
      /\ \A i, j \in DOMAIN r : i # j => r[i] # r[j]
      /\ Len(r) < AckLimit => \A x \in found : \E i \in DOMAIN r : r[i] = x
      /\ \A x \in found : \/ \E i \in DOMAIN r : r[i] = x
                         \/ \A i \in DOMAIN r : r[i].created <= x.created
  <2> HIDE DEF found
  <2> QED
    BY <1>2, Listing
<1>full. Len(r) = AckLimit <=> ~ (Len(r) < AckLimit)
  BY <1>4
<1>5. ASSUME NEW i \in DOMAIN r
      PROVE  /\ r[i].utxo \in D /\ r[i] = row[r[i].utxo] /\ r[i] \in Rows
             /\ r[i].created = net[r[i].utxo].created
  <2>1. r[i] \in found
    BY <1>4
  <2>2. PICK u \in D : r[i] = row[u]
    BY <2>1
  <2>3. /\ r[i].utxo = u /\ r[i].created = raw[u].created /\ r[i].state = raw[u].state
        /\ r[i] = [utxo |-> r[i].utxo, created |-> r[i].created, state |-> r[i].state]
    BY <2>2
  <2>4. raw[u].state \in 0..2 /\ raw[u].created = net[u].created
    BY <1>1 DEF RowsInv
  <2>5. u \in UTXOs
    BY <1>1, CreatedFinite
  <2>6. net[u].created \in Nat \ {0}
    BY <1>1, Times
  <2>7. r[i] \in Rows
    BY <2>3, <2>4, <2>5, <2>6 DEF Rows
  <2> QED
    BY <2>2, <2>3, <2>4, <2>7
<1>6. ASSUME NEW u \in D
      PROVE  \/ u \in Listed(r)
             \/ Len(r) = AckLimit /\ \A i \in DOMAIN r : r[i].created <= net[u].created
  <2>1. row[u] \in found /\ row[u].utxo = u /\ row[u].created = net[u].created
    BY <1>1 DEF RowsInv
  <2> HIDE DEF found, row, D
  <2>2. PICK x \in found : x.utxo = u /\ x.created = net[u].created
    BY <2>1
  <2>3. CASE \E i \in DOMAIN r : r[i] = x
    BY <2>2, <2>3 DEF Listed
  <2>4. CASE ~ \E i \in DOMAIN r : r[i] = x
    <3>1. Len(r) = AckLimit
      <4>1. ~ (Len(r) < AckLimit)
        BY <1>4, <2>4, Zenon
      <4> QED
        BY <1>full, <4>1
    <3>2. \A i \in DOMAIN r : r[i].created <= x.created
      BY <1>4, <2>4
    <3> QED
      BY <2>2, <3>1, <3>2
  <2> QED
    BY <2>3, <2>4
<1>7. \A i, j \in DOMAIN r : i # j => r[i].utxo # r[j].utxo
  <2> HIDE DEF row, found, D
  <2> QED
    BY <1>4, <1>5
<1>8. r \in Seq(Rows)
  <2>1. PICK n \in Nat : DOMAIN r = 1..n /\ r = [i \in 1..n |-> r[i]]
    BY <1>4
  <2>2. \A i \in 1..n : r[i] \in Rows
    BY <1>5, <2>1
  <2> HIDE DEF found
  <2> QED
    BY <2>1, <2>2
<1>9. Round(r)
  <2>1. \A i \in DOMAIN r : r[i].utxo \in Marked /\ r[i].created = net[r[i].utxo].created
    BY <1>1, <1>5
  <2>2. \A i, j \in DOMAIN r : i < j => r[i].created <= r[j].created
    BY <1>4 DEF SortedBy
  <2>3. \A u \in Marked : \/ u \in Listed(r)
                         \/ /\ Len(r) = AckLimit
                            /\ \A i \in DOMAIN r : r[i].created <= net[u].created
    BY <1>1, <1>6
  <2>4. Len(r) <= AckLimit
    BY <1>4
  <2> HIDE DEF found, row, D
  <2> QED
    BY <1>7, <1>8, <2>1, <2>2, <2>3, <2>4 DEF Round
<1> HIDE DEF found, row, D
<1>10. Whole(reading')
  BY <1>3, <1>9, TrimmedRound
<1>11. /\ net' = net /\ clock' = clock /\ offset' = offset /\ page' = page /\ raw' = raw
       /\ lastRaw' = lastRaw /\ marked' = marked /\ outputs' = outputs
       /\ syncer' = syncer
       /\ Created' = Created /\ Listed(outputs)' = Listed(outputs) /\ Seen' = Seen
  BY DEF ReadRaws, Created, Listed, Seen, Held
<1>12. ReadInv'
  <2>1. ASSUME NEW i \in DOMAIN reading'
        PROVE  /\ reading'[i].utxo \in DOMAIN raw /\ reading'[i].utxo > Len(outputs)
               /\ Len(outputs) + 1 .. reading'[i].utxo \subseteq Listed(reading')
    <3> DEFINE u == reading'[i].utxo
    <3>1. u \in Marked /\ u \in Created /\ u \in DOMAIN raw /\ u > Len(outputs) /\ u \in Nat
      BY <1>1, <1>10, CreatedFinite DEF RowsInv, Marked, Whole
    <3>2. Len(outputs) \in Nat /\ Listed(outputs) = 1..Len(outputs)
      BY <1>1, ListedOutputs
    <3>3. ASSUME NEW v \in Len(outputs) + 1 .. u
          PROVE  v \in Listed(reading')
      <4>1. v \in Created /\ v \in Nat /\ (v < u \/ v = u) /\ v \notin Listed(outputs)
        BY <1>1, <3>1, <3>2, CreatedFinite
      <4>2. net[v].created <= net[u].created
        BY <1>1, <3>1, <4>1, Times, SMTT(30) DEF NetInv
      <4>3. v \in Marked
        BY <1>1, <3>1, <4>1, <4>2 DEF MarkInv, NotLater
      <4> QED
        BY <1>10, <4>2, <4>3 DEF Whole
    <3> QED
      BY <3>1, <3>3
  <2> QED
    BY <1>10, <1>11, <2>1 DEF ReadInv, Listed, Whole
<1>13. NetInv' /\ RowsInv' /\ PageInv' /\ NothingSkipped' /\ MarkInv'
  BY <1>1, <1>11 DEF NetInv, RowsInv, OrderIsCanonical, PageInv, End, NothingSkipped, MarkInv,
                     Marked, NotLater
<1> QED
  BY <1>12, <1>13 DEF SyncInv

\* The rows that were read, in the order SortOutputs gives them, are the next
\* ones of the table.
LEMMA SortedRound ==
  ASSUME SyncInv,
         NEW new \in SortOutputs({r \in Range(reading) : r.utxo \notin Listed(outputs)})
  PROVE  /\ new \in Seq(Rows)
         /\ \A i \in DOMAIN new : new[i].utxo = Len(outputs) + i
         /\ Listed(new) = Listed(reading)
<1> DEFINE S == {r \in Range(reading) : r.utxo \notin Listed(outputs)}
           m == Len(outputs)
<1>1. NetInv /\ RowsInv /\ ReadInv
  BY DEF SyncInv
<1>2. Listed(outputs) = 1..m /\ m \in Nat
  BY <1>1, ListedOutputs
<1>3. reading \in Seq(Rows) /\ \A j \in DOMAIN reading : reading[j] \in S /\ reading[j].utxo > m
  <2>1. reading \in Seq(Rows)
    BY <1>1 DEF ReadInv
  <2>2. ASSUME NEW j \in DOMAIN reading
        PROVE  reading[j] \in S /\ reading[j].utxo > m
    <3>1. reading[j].utxo > m /\ reading[j].utxo \in Created
      BY <1>1 DEF ReadInv, RowsInv
    <3>2. reading[j].utxo \in Nat
      BY <1>1, <3>1, CreatedFinite
    <3>3. reading[j].utxo \notin Listed(outputs)
      BY <1>2, <3>1, <3>2
    <3> QED
      BY <3>1, <3>3 DEF Range
  <2> QED
    BY <2>1, <2>2
<1>4. IsFiniteSet(S)
  <2>1. PICK n \in Nat : DOMAIN reading = 1..n /\ reading = [x \in 1..n |-> reading[x]]
    BY <1>3
  <2>2. IsFiniteSet(1..n)
    BY <2>1, FS_Interval
  <2>3. IsFiniteSet({reading[x] : x \in 1..n})
    BY <2>1, <2>2, FiniteRows
  <2>4. S \subseteq {reading[x] : x \in 1..n}
    BY <2>1 DEF Range
  <2> QED
    BY <2>3, <2>4, FS_Subset
<1>5. \A x \in S : \E j \in DOMAIN reading : x = reading[j]
  BY DEF Range
<1> HIDE DEF S
<1>6. new \in SetToSeqs(S) /\ \A i, j \in DOMAIN new : i < j => Before(new[i], new[j])
  BY DEF SortOutputs, S
<1>7. new \in Seq(S) /\ \A x \in S : \E i \in DOMAIN new : new[i] = x
  BY <1>4, <1>6, Arrangement
<1>8. PICK k \in Nat : DOMAIN new = 1..k /\ new = [i \in 1..k |-> new[i]]
  BY <1>7
<1>9. ASSUME NEW i \in DOMAIN new
      PROVE  \E j \in DOMAIN reading : new[i] = reading[j]
  BY <1>5, <1>7
<1>10. ASSUME NEW i \in DOMAIN new
       PROVE  /\ new[i] \in Rows /\ new[i].utxo \in Created /\ new[i].utxo \in Nat
              /\ new[i].utxo > m /\ new[i].created = net[new[i].utxo].created
              /\ m + 1 .. new[i].utxo \subseteq Listed(reading)
  <2>1. PICK j \in DOMAIN reading : new[i] = reading[j]
    BY <1>9
  <2>2. reading[j] \in Rows
    BY <1>3
  <2>3. reading[j].utxo \in Created
    BY <1>1 DEF ReadInv, RowsInv
  <2>4. reading[j].utxo \in Nat
    BY <1>1, <2>3, CreatedFinite
  <2> QED
    BY <1>1, <2>1, <2>2, <2>3, <2>4 DEF ReadInv
<1>11. new \in Seq(Rows)
  BY <1>8, <1>10
<1>12. \A j \in DOMAIN reading : \E i \in DOMAIN new : new[i] = reading[j]
  BY <1>3, <1>7
<1>13. Listed(new) = Listed(reading)
  BY <1>9, <1>12 DEF Listed
<1>14. ASSUME NEW i \in DOMAIN new, NEW j \in DOMAIN new, i < j
       PROVE  new[i].utxo < new[j].utxo
  <2>1. Before(new[i], new[j])
    BY <1>6, <1>14
  <2>2. /\ new[i].utxo \in Created /\ new[j].utxo \in Created
        /\ new[i].utxo \in Nat /\ new[j].utxo \in Nat
        /\ net[new[i].utxo].created \in Nat /\ net[new[j].utxo].created \in Nat
    BY <1>1, <1>10, Times
  <2>3. net[new[i].utxo].created < net[new[j].utxo].created \/ new[i].utxo < new[j].utxo
    BY <1>10, <2>1 DEF Before
  <2>4. new[j].utxo < new[i].utxo => net[new[j].utxo].created <= net[new[i].utxo].created
    BY <1>1, <2>2 DEF NetInv
  <2>5. new[j].utxo = new[i].utxo => net[new[j].utxo].created = net[new[i].utxo].created
    OBVIOUS
  <2> QED
    BY <2>2, <2>3, <2>4, <2>5
<1> DEFINE f == [i \in 1..k |-> new[i].utxo]
<1>15. /\ f \in [1..k -> Nat]
       /\ \A i \in 1..k : f[i] > m
       /\ \A i, j \in 1..k : i < j => f[i] < f[j]
  BY <1>8, <1>10, <1>14
<1>16. \A i \in 1..k : \A v \in m + 1 .. f[i] : \E j \in 1..k : f[j] = v
  <2> SUFFICES ASSUME NEW i \in 1..k, NEW v \in m + 1 .. new[i].utxo
               PROVE  \E j \in 1..k : new[j].utxo = v
    OBVIOUS
  <2>1. v \in Listed(new)
    BY <1>8, <1>10, <1>13
  <2> QED
    BY <1>8, <2>1 DEF Listed
<1> HIDE DEF f
<1>17. \A i \in 1..k : f[i] = m + i
  BY <1>2, <1>15, <1>16, Enumeration
<1> QED
  BY <1>8, <1>11, <1>13, <1>17 DEF f

\* The transaction of runSync: raw outputs become outputs.
LEMMA AckRawsSync ==
  ASSUME SyncInv, AckRaws
  PROVE  SyncInv'
<1>1. NetInv /\ RowsInv /\ PageInv /\ NothingSkipped /\ MarkInv /\ ReadInv
  BY DEF SyncInv
<1>2. PICK new \in SortOutputs({r \in Range(reading) : r.utxo \notin Listed(outputs)}) :
         outputs' = UpdateOutputs(outputs, reading) \o new
  BY DEF AckRaws
<1>3. /\ net' = net /\ clock' = clock /\ offset' = offset /\ page' = page
      /\ lastRaw' = lastRaw /\ marked' = marked /\ syncer' = syncer /\ reading' = <<>>
      /\ Created' = Created /\ Listed(page)' = Listed(page)
      /\ DOMAIN raw' = DOMAIN raw \ Listed(reading) /\ \A u \in DOMAIN raw' : raw'[u] = raw[u]
  BY DEF AckRaws, Created, Listed
<1> DEFINE old == UpdateOutputs(outputs, reading)
           m == Len(outputs)
<1>4. /\ new \in Seq(Rows)
      /\ \A i \in DOMAIN new : new[i].utxo = m + i
      /\ Listed(new) = Listed(reading)
  BY SortedRound
<1>5. outputs \in Seq(Rows) /\ m \in Nat /\ DOMAIN outputs = 1..m
  BY <1>1 DEF RowsInv
<1>6. old \in Seq(Rows) /\ Len(old) = m /\ \A i \in DOMAIN outputs : old[i].utxo = i
  <2>1. ASSUME NEW j \in DOMAIN reading PROVE reading[j].state \in 0..2
    <3>1. reading[j] \in Rows
      BY <1>1 DEF ReadInv
    <3> QED
      BY <3>1 DEF Rows
  <2>2. /\ old \in Seq(Rows) /\ Len(old) = m
        /\ \A i \in DOMAIN outputs : old[i].utxo = outputs[i].utxo
    BY <1>5, <2>1, UpdatedRows
  <2> QED
    BY <1>1, <2>2 DEF RowsInv, OrderIsCanonical
<1>7. PICK k \in Nat : Len(new) = k /\ DOMAIN new = 1..k
  BY <1>4
<1> HIDE DEF old
<1>8. /\ outputs' \in Seq(Rows) /\ Len(outputs') = m + k /\ DOMAIN outputs' = 1..(m + k)
      /\ \A i \in 1..m : outputs'[i] = old[i]
      /\ \A i \in m + 1 .. m + k : outputs'[i] = new[i - m] /\ i - m \in 1..k
  <2>1. outputs' = old \o new
    BY <1>2 DEF old
  <2>2. old \in Seq(Rows) /\ Len(old) = m /\ new \in Seq(Rows) /\ Len(new) = k /\ m \in Nat
    BY <1>4, <1>5, <1>6, <1>7
  <2> HIDE DEF m
  <2>3. /\ old \o new \in Seq(Rows) /\ Len(old \o new) = m + k
        /\ \A i \in 1..m : (old \o new)[i] = old[i]
        /\ \A i \in m + 1 .. m + k : (old \o new)[i] = new[i - m] /\ i - m \in 1..k
    BY <2>2
  <2>4. /\ outputs' \in Seq(Rows) /\ Len(outputs') = m + k
        /\ \A i \in 1..m : outputs'[i] = old[i]
        /\ \A i \in m + 1 .. m + k : outputs'[i] = new[i - m] /\ i - m \in 1..k
    BY <2>1, <2>3, Zenon
  <2>5. DOMAIN outputs' = 1..(m + k)
    BY <2>4
  <2> QED
    BY <2>4, <2>5
<1>9. ASSUME NEW i \in 1..(m + k)
      PROVE  outputs'[i].utxo = i
  <2>1. CASE i \in 1..m
    BY <1>5, <1>6, <1>8, <2>1
  <2>2. CASE i \in m + 1 .. m + k
    <3>1. outputs'[i] = new[i - m] /\ i - m \in DOMAIN new
      BY <1>7, <1>8, <2>2
    <3>2. outputs'[i].utxo = m + (i - m)
      BY <1>4, <3>1
    <3> QED
      BY <1>5, <2>2, <3>2
  <2> QED
    BY <1>5, <2>1, <2>2
<1>10. /\ Listed(outputs) = 1..m /\ Listed(outputs)' = 1..(m + k)
       /\ Listed(reading) = m + 1 .. m + k
  <2>1. Listed(outputs') = 1..(m + k)
    BY <1>8, <1>9 DEF Listed
  <2>2. Listed(new) = m + 1 .. m + k
    <3>1. \A i \in 1..k : m + i \in Listed(new)
      BY <1>4, <1>7 DEF Listed
    <3>2. \A v \in m + 1 .. m + k : v - m \in 1..k /\ v = m + (v - m)
      BY <1>5
    <3>3. \A v \in m + 1 .. m + k : v \in Listed(new)
      BY <3>1, <3>2
    <3>4. \A v \in Listed(new) : v \in m + 1 .. m + k
      BY <1>4, <1>5, <1>7 DEF Listed
    <3> QED
      BY <3>3, <3>4
  <2> QED
    BY <1>1, <1>4, <2>1, <2>2, ListedOutputs DEF Listed
<1>11. Listed(outputs)' = Listed(outputs) \cup Listed(reading)
  BY <1>5, <1>10
<1>12. Listed(reading) \subseteq DOMAIN raw
  BY <1>1 DEF ReadInv, Listed
<1>13. Held' = Held /\ Seen' = Seen
  BY <1>3, <1>11, <1>12 DEF Held, Seen
<1>14. NetInv'
  BY <1>1, <1>3 DEF NetInv
<1>15. RowsInv'
  <2>1. Len(outputs') <= Cardinality(Created)
    <3>1. CASE k = 0
      BY <1>1, <1>5, <1>8, <3>1 DEF RowsInv
    <3>2. CASE k # 0
      <4>1. m + k \in Created
        BY <1>1, <1>5, <1>10, <1>12, <3>2 DEF RowsInv
      <4> QED
        BY <1>1, <1>8, <4>1, CreatedFinite
    <3> QED
      BY <3>1, <3>2
  <2>2. OrderIsCanonical'
    BY <1>8, <1>9 DEF OrderIsCanonical
  <2>3. \A u \in DOMAIN raw' : u > Len(outputs')
    <3> SUFFICES ASSUME NEW u \in DOMAIN raw'
                 PROVE  u > m + k
      BY <1>8
    <3>1. u \in DOMAIN raw /\ u \notin m + 1 .. m + k
      BY <1>3, <1>10
    <3>2. u > m /\ u \in Created
      BY <1>1, <3>1 DEF RowsInv
    <3>3. u \in Nat
      BY <1>1, <3>2, CreatedFinite
    <3> QED
      BY <1>5, <3>1, <3>2, <3>3
  <2>4. DOMAIN raw' \subseteq Created' /\ \A u \in DOMAIN raw' :
          raw'[u] \in [id : 1..lastRaw', created : {net'[u].created}, state : 0..2]
    BY <1>1, <1>3 DEF RowsInv
  <2> QED
    BY <1>1, <1>3, <1>8, <2>1, <2>2, <2>3, <2>4 DEF RowsInv
<1>16. PageInv'
  BY <1>1, <1>3, <1>13 DEF PageInv, End, NotLater
<1>17. NothingSkipped'
  BY <1>1, <1>3, <1>13 DEF NothingSkipped, Held
<1>18. MarkInv'
  <2>1. Marked' = Marked \ Listed(reading)
    BY <1>3 DEF Marked
  <2>2. \A u : NotLater(u)' = NotLater(u)
    BY <1>3 DEF NotLater
  <2> QED
    BY <1>1, <1>11, <2>1, <2>2 DEF MarkInv
<1>19. ReadInv'
  BY <1>3, LimitAssumption DEF ReadInv
<1> QED
  BY <1>14, <1>15, <1>16, <1>17, <1>18, <1>19 DEF SyncInv

-----------------------------------------------------------------------------
\* The invariant holds, whatever the network, the syncer and runSync do, and
\* wherever the node restarts.
THEOREM SyncInvariant == Spec => []SyncInv
<1>1. ASSUME SyncInv, [Next]_vars
      PROVE  SyncInv'
  <2>1. CASE \E k \in 1..MaxTies : Appear(k)
    BY <1>1, <2>1, AppearSync
  <2>2. CASE \E u \in Created : ChangeState(u)
    BY <1>1, <2>2, ChangeStateSync
  <2>3. CASE Pull \/ Save \/ MarkEnd \/ SaveOffset
    BY <1>1, <2>3, PullSync, SaveSync, MarkEndSync, SaveOffsetSync
  <2>4. CASE ReadRaws \/ AckRaws \/ Crash
    BY <1>1, <2>4, ReadRawsSync, AckRawsSync, CrashSync
  <2>5. CASE UNCHANGED vars
    <3>1. /\ Created' = Created /\ Held' = Held /\ Seen' = Seen /\ Marked' = Marked
          /\ \A u : NotLater(u)' = NotLater(u)
      BY <2>5 DEF vars, Created, Held, Seen, Marked, NotLater, Listed
    <3> QED
      BY <1>1, <2>5, <3>1, SMTT(30) DEF vars, SyncInv, NetInv, RowsInv, OrderIsCanonical, PageInv, End,
                              NothingSkipped, MarkInv, ReadInv, Listed
  <2> QED
    BY <1>1, <2>1, <2>2, <2>3, <2>4, <2>5 DEF Next
<1> QED
  BY <1>1, InitSync, PTL DEF Spec

\* The type invariant of the syncer's state: an output has one row in outputs,
\* pages and rounds keep within their limits (walletStore.Save,
\* syncRawOutputs).
THEOREM SyncTypeOKTheorem == Spec => []SyncTypeOK
<1>1. SyncInv => SyncTypeOK
  <2> SUFFICES ASSUME SyncInv PROVE SyncTypeOK
    OBVIOUS
  <2>1. NetInv /\ RowsInv /\ PageInv /\ ReadInv
    BY DEF SyncInv
  <2>2. IsInjective([i \in DOMAIN outputs |-> outputs[i].utxo])
    BY <2>1 DEF RowsInv, OrderIsCanonical, IsInjective
  <2>3. Created \subseteq UTXOs /\ \A u \in Created : net[u].updated \in net[u].created..clock
    BY <2>1, CreatedFinite, Times
  <2> QED
    BY <2>1, <2>2, <2>3 DEF SyncTypeOK, RowsInv, PageInv, ReadInv
<1> QED
  BY <1>1, SyncInvariant, PTL

\* On every node the table outputs follows creation order without a gap
\* (walletStore.Save, syncRawOutputs, trimSuffix).
THEOREM OrderIsCanonicalTheorem == Spec => []OrderIsCanonical
<1>1. SyncInv => OrderIsCanonical
  BY DEF SyncInv, RowsInv
<1> QED
  BY <1>1, SyncInvariant, PTL

\* The syncer's checkpoint never passes an output that neither table has
\* (Syncer.run).
THEOREM NothingSkippedTheorem == Spec => []NothingSkipped
<1>1. SyncInv => NothingSkipped
  BY DEF SyncInv
<1> QED
  BY <1>1, SyncInvariant, PTL
=============================================================================
