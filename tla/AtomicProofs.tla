---------------------------- MODULE AtomicProofs ----------------------------
(***************************************************************************)
(* Why an output that is attempted again and again takes effect as a       *)
(* whole.  An attempt is a plan of statements made from the tables as they *)
(* are.  After each statement that commits, the plan that would be made    *)
(* from the tables now goes on where the old one stands (GoesOn): what it  *)
(* repeats changes nothing, and what it adds is what the old one had left. *)
(* That is shown handler by handler up to OutputGoesOn; then a stopped     *)
(* attempt and its retry lead to the same tables (CommitOnTheWay), and the *)
(* payee implements the ledger without attempts (EffectsAreAtomicTheorem). *)
(* The last parts count what a plan pays back, the payment once and no more*)
(* of it, or never (OneOutcomeTheorem), and follow what the votes decided  *)
(* (StatusFollowsVotesTheorem).                                            *)
(***************************************************************************)
EXTENDS GovernanceProofs, SetLemmas

(***************************************************************************)
(* The tables after each statement of a plan                               *)
(***************************************************************************)

\* f[i] are the tables s after the first i statements of p.
Trail(f, s, p, n) == f = [i \in 0..n |-> IF i = 0 THEN s ELSE Apply(f[i-1], p[i])]

Steps(f, p, n)       == \A i \in 1..n : f[i] = Apply(f[i-1], p[i])
Idle(s, p, k)        == \A i \in 1..k : Apply(s, p[i]) = s
Alike(p, k, q, l, n) == \A i \in 1..n : p[k+i] = q[l+i]
Meet(f, p, k, g, q, l, n) ==
  Steps(f, p, k + n) /\ Steps(g, q, l + n) /\ f[k] = g[l] /\ Alike(p, k, q, l, n)

\* However long the plan is, there are such tables.
LEMMA TrailExists == ASSUME NEW s, NEW p, NEW n \in Nat PROVE \E f : Trail(f, s, p, n)
<1> DEFINE T == {m \in Nat : ~\E f : Trail(f, s, p, m)}
<1>1. ASSUME T # {} PROVE FALSE
  <2>1. T \in SUBSET Nat
    OBVIOUS
  <2>2. PICK m \in T : \A k \in T : m <= k
    BY <1>1, <2>1, Least
  <2>3. CASE m = 0
    <3> DEFINE f == [i \in 0..0 |-> s]
    <3>1. f = [i \in 0..0 |-> IF i = 0 THEN s ELSE Apply(f[i-1], p[i])]
      OBVIOUS
    <3> QED BY <2>2, <2>3, <3>1 DEF Trail
  <2>4. CASE m # 0
    <3>1. m - 1 \in Nat /\ m - 1 \notin T
      BY <2>2, <2>4
    <3>2. PICK g : Trail(g, s, p, m - 1)
      BY <3>1
    <3> DEFINE last == Apply(g[m-1], p[m])
               f == [i \in 0..m |-> IF i = m THEN last ELSE g[i]]
    <3>3. \A i \in 0..m-1 : g[i] = (IF i = 0 THEN s ELSE Apply(g[i-1], p[i]))
      BY <3>1, <3>2 DEF Trail
    <3>4. \A i \in 0..m-1 : f[i] = g[i] /\ (i # 0 => i - 1 \in 0..m-1)
      BY <2>2
    <3>5. f[m] = last /\ m - 1 \in 0..m-1
      BY <2>2, <2>4
    <3>6. \A i \in 0..m : i \in 0..m-1 \/ i = m
      BY <2>2
    <3>7. f = [i \in 0..m |-> f[i]]
      OBVIOUS
    <3> HIDE DEF f
    <3>8. \A i \in 0..m : f[i] = (IF i = 0 THEN s ELSE Apply(f[i-1], p[i]))
      BY <2>4, <3>3, <3>4, <3>5, <3>6
    <3>9. f = [i \in 0..m |-> IF i = 0 THEN s ELSE Apply(f[i-1], p[i])]
      BY <3>7, <3>8
    <3> QED BY <2>2, <3>9 DEF Trail
  <2> QED BY <2>3, <2>4
<1> QED BY <1>1

\* All statements at once are the statements one after the other.
LEMMA AppliedAll ==
  ASSUME NEW s, NEW p, Len(p) \in Nat
  PROVE  \E f : ApplyAll(s, p) = f[Len(p)] /\ f[0] = s /\ Steps(f, p, Len(p))
<1> DEFINE run == CHOOSE f : Trail(f, s, p, Len(p))
<1>1. Trail(run, s, p, Len(p))
  BY TrailExists
<1>2. ApplyAll(s, p) = run[Len(p)]
  BY DEF ApplyAll, Trail
<1> HIDE DEF run
<1>3. \A i \in 0..Len(p) : run[i] = (IF i = 0 THEN s ELSE Apply(run[i-1], p[i]))
  BY <1>1 DEF Trail
<1>4. run[0] = s /\ \A i \in 1..Len(p) : run[i] = Apply(run[i-1], p[i])
  BY <1>3
<1> QED BY <1>2, <1>4 DEF Steps

\* As long as the statements change nothing, the tables stay as they are.
LEMMA TrailRests ==
  ASSUME NEW s, NEW p, NEW f, f[0] = s, NEW n \in Nat, Steps(f, p, n),
         NEW k \in 0..n, Idle(s, p, k)
  PROVE  f[k] = s
<1> DEFINE T == {m \in 0..k : f[m] # s}
<1>1. ASSUME T # {} PROVE FALSE
  <2>1. T \in SUBSET Nat
    OBVIOUS
  <2>2. PICK m \in T : \A l \in T : m <= l
    BY <1>1, <2>1, Least
  <2>3. m \in 1..k /\ m - 1 \in 0..k /\ m - 1 \notin T /\ m \in 1..n
    BY <2>2
  <2>4. f[m-1] = s /\ f[m] = Apply(f[m-1], p[m])
    BY <2>3 DEF Steps
  <2> QED BY <2>2, <2>3, <2>4 DEF Idle
<1> QED BY <1>1

\* Two plans that have come to the same tables, and go on alike, end in the same.
LEMMA TrailsMeet ==
  ASSUME NEW p, NEW q, NEW f, NEW g, NEW k \in Nat, NEW l \in Nat, NEW n \in Nat,
         Meet(f, p, k, g, q, l, n)
  PROVE  f[k + n] = g[l + n]
<1> DEFINE T == {i \in 0..n : f[k+i] # g[l+i]}
<1>1. ASSUME T # {} PROVE FALSE
  <2>1. T \in SUBSET Nat
    OBVIOUS
  <2>2. PICK i \in T : \A j \in T : i <= j
    BY <1>1, <2>1, Least
  <2>3. i # 0
    BY <2>2 DEF Meet
  <2>4. i - 1 \in 0..n /\ i - 1 \notin T
    BY <2>2, <2>3
  <2>5. /\ k + i \in 1..(k + n) /\ l + i \in 1..(l + n) /\ i \in 1..n
        /\ (k + i) - 1 = k + (i - 1) /\ (l + i) - 1 = l + (i - 1)
    BY <2>2, <2>3
  <2>6. f[k + (i - 1)] = g[l + (i - 1)] /\ p[k+i] = q[l+i]
    BY <2>4, <2>5 DEF Alike, Meet
  <2>7. f[k+i] = Apply(f[k + (i - 1)], p[k+i]) /\ g[l+i] = Apply(g[l + (i - 1)], q[l+i])
    BY <2>5 DEF Steps, Meet
  <2> QED BY <2>2, <2>6, <2>7
<1> QED BY <1>1

(***************************************************************************)
(* Going on                                                                *)
(***************************************************************************)

\* A statement that has been issued and would change nothing if it were again.
\* The ones a handler issues only while they are needed are then no more issued.
Rigid == {"tx", "user", "newsupply", "newborrow", "halt"} \cup Versioned
Spent(t, w) == w.t \notin Rigid /\ Apply(t, w) = t

\* Plan r, made from tables t, goes on where k statements of q have been issued:
\* it has left out the first e of them, the rest of the k are spent, and what
\* follows is what followed in q.
GoesOn(q, k, t, r) ==
  \E e \in 0..k :
    /\ e <= Len(q) /\ Len(r) = Len(q) - e
    /\ \A j \in 1..Len(r) : IF j + e > k THEN r[j] = q[j + e] ELSE Spent(t, r[j])

\* The next statement of q, made from tables t, is the k-th.
Cut(t, q, k) ==
  /\ k \in 1..Len(q) /\ q[k].t \notin {"nop", "halt", "sysversion"}
  /\ \A j \in 1..k-1 : Spent(t, q[j])

\* Doing nothing is spent.
LEMMA NopSpent == \A t : Spent(t, Nop) /\ Apply(t, Nop) = t
BY DEF Spent, Nop, Rigid, Versioned, Apply

\* A plan goes on with itself from where it stands.
LEMMA GoesStraight ==
  ASSUME NEW q, Len(q) \in Nat, NEW r, Len(r) = Len(q), NEW k \in Nat, NEW t,
         \A j \in 1..Len(q) : IF j > k THEN r[j] = q[j] ELSE Spent(t, r[j])
  PROVE  GoesOn(q, k, t, r)
<1> DEFINE e == 0
<1>1. /\ e \in 0..k /\ e <= Len(q) /\ Len(r) = Len(q) - e
      /\ \A j \in 1..Len(r) : IF j + e > k THEN r[j] = q[j + e] ELSE Spent(t, r[j])
  OBVIOUS
<1> HIDE DEF e
<1> QED BY <1>1 DEF GoesOn

\* After the last statement there is nothing to go on with.
LEMMA GoesNowhere ==
  ASSUME NEW q, Len(q) \in Nat, NEW k \in Nat, k = Len(q), NEW t
  PROVE  GoesOn(q, k, t, <<>>)
<1> DEFINE e == k
           r == <<>>
<1>1. /\ e \in 0..k /\ e <= Len(q) /\ Len(r) = Len(q) - e
      /\ \A j \in 1..Len(r) : IF j + e > k THEN r[j] = q[j + e] ELSE Spent(t, r[j])
  OBVIOUS
<1> HIDE DEF e, r
<1>2. GoesOn(q, k, t, r)
  BY <1>1 DEF GoesOn
<1> QED BY <1>2 DEF r

HaltFree(q) == \A j \in 1..Len(q) : q[j] # Halt

\* The plan of a retry leads to where the plan before it would have led, and it
\* stops for an upgrade if that one did.
LEMMA SameEnd ==
  ASSUME NEW t, NEW q, Len(q) \in Nat, NEW k, Cut(t, q, k), NEW r, Len(r) \in Nat,
         GoesOn(q, k, Apply(t, q[k]), r)
  PROVE  /\ ApplyAll(Apply(t, q[k]), r) = ApplyAll(t, q)
         /\ HaltFree(r) => HaltFree(q)
<1> DEFINE t1 == Apply(t, q[k])
<1>1. PICK e \in 0..k :
        /\ e <= Len(q) /\ Len(r) = Len(q) - e
        /\ \A j \in 1..Len(r) : IF j + e > k THEN r[j] = q[j + e] ELSE Spent(t1, r[j])
  BY DEF GoesOn
<1>2. PICK f : ApplyAll(t, q) = f[Len(q)] /\ f[0] = t /\ Steps(f, q, Len(q))
  BY AppliedAll
<1>3. PICK g : ApplyAll(t1, r) = g[Len(r)] /\ g[0] = t1 /\ Steps(g, r, Len(r))
  BY AppliedAll
<1>4. k \in 1..Len(q) /\ q[k].t # "halt" /\ \A j \in 1..k-1 : Spent(t, q[j])
  BY DEF Cut
<1>5. f[k-1] = t
  <2>1. k - 1 \in 0..Len(q) /\ Idle(t, q, k - 1)
    BY <1>4 DEF Spent, Idle
  <2> QED BY <1>2, <2>1, TrailRests
<1>6. f[k] = t1
  BY <1>2, <1>4, <1>5 DEF Steps
<1> HIDE DEF t1
<1>7. g[k - e] = t1
  <2>1. k - e \in 0..Len(r) /\ \A i \in 1..(k - e) : i \in 1..Len(r) /\ ~(i + e > k)
    BY <1>1, <1>4
  <2>2. Idle(t1, r, k - e)
    BY <1>1, <2>1 DEF Spent, Idle
  <2> QED BY <1>3, <2>1, <2>2, TrailRests
<1>8. f[Len(q)] = g[Len(r)]
  <2>1. /\ k \in 0..Len(q) /\ k - e \in 0..Len(r) /\ Len(q) - k = Len(r) - (k - e)
    BY <1>1, <1>4
  <2>2. \A i \in 1..(Len(q) - k) : /\ (k - e) + i \in 1..Len(r) /\ ((k - e) + i) + e = k + i
                                   /\ k + i > k
    BY <1>1, <1>4
  <2>3. Alike(q, k, r, k - e, Len(q) - k)
    BY <1>1, <2>2 DEF Alike
  <2> DEFINE l == k - e
             n == Len(q) - k
  <2>0. Len(r) = Len(q) - e /\ e \in 0..k /\ k \in 1..Len(q) /\ Len(q) \in Nat
    BY <1>1, <1>4
  <2>4. l \in Nat /\ n \in Nat /\ k \in Nat /\ k + n = Len(q) /\ l + n = Len(r)
    BY <2>0
  <2>5. Meet(f, q, k, g, r, l, n)
    BY <1>2, <1>3, <1>6, <1>7, <2>3, <2>4 DEF Meet
  <2> HIDE DEF l, n
  <2>6. f[k + n] = g[l + n]
    BY <2>4, <2>5, TrailsMeet
  <2> QED BY <2>4, <2>6
<1>9. ASSUME \A j \in 1..Len(r) : r[j] # Halt, NEW j \in 1..Len(q) PROVE q[j] # Halt
  <2>1. Halt.t = "halt" /\ "halt" \in Rigid
    BY DEF Halt, Rigid
  <2>2. CASE j < k
    BY <1>4, <2>1, <2>2 DEF Spent
  <2>3. CASE j = k
    BY <1>4, <2>1, <2>3
  <2>4. CASE j > k
    <3>1. j - e \in 1..Len(r) /\ (j - e) + e = j /\ (j - e) + e > k
      BY <1>1, <1>4, <2>4
    <3>2. r[j - e] = q[j]
      BY <1>1, <3>1
    <3> QED BY <1>9, <3>1, <3>2
  <2> QED BY <1>4, <2>2, <2>3, <2>4
<1> QED BY <1>2, <1>3, <1>8, <1>9 DEF t1, HaltFree

\* Statement k of the attempt is the next one of the plan made from the tables as
\* they are, and what goes on after that one goes on after the attempt's.
LEMMA GoesOnTogether ==
  ASSUME NEW p, Len(p) \in Nat, NEW c \in Nat, NEW t, NEW q, Len(q) \in Nat, GoesOn(p, c, t, q),
         NEW k \in 1..Len(p), k > c, p[k].t \notin {"nop", "halt", "sysversion"},
         \A j \in c+1..k-1 : p[j] = Nop
  PROVE  \E l \in 1..k : /\ Cut(t, q, l) /\ q[l] = p[k]
                         /\ \A t1, r : Len(r) \in Nat /\ GoesOn(q, l, t1, r) => GoesOn(p, k, t1, r)
<1>1. PICK e \in 0..c :
        /\ e <= Len(p) /\ Len(q) = Len(p) - e
        /\ \A j \in 1..Len(q) : IF j + e > c THEN q[j] = p[j + e] ELSE Spent(t, q[j])
  BY DEF GoesOn
<1> DEFINE l == k - e
<1>2. l \in 1..Len(q) /\ l \in 1..k /\ l + e = k
  BY <1>1
<1>3. q[l] = p[k]
  BY <1>1, <1>2
<1>4. ASSUME NEW j \in 1..l-1 PROVE Spent(t, q[j])
  <2>1. j \in 1..Len(q) /\ (j + e > c => j + e \in c+1..k-1)
    BY <1>1, <1>2
  <2> QED BY <1>1, <2>1, NopSpent
<1>5. Cut(t, q, l)
  BY <1>2, <1>3, <1>4 DEF Cut
<1>6. ASSUME NEW t1, NEW r, Len(r) \in Nat, GoesOn(q, l, t1, r) PROVE GoesOn(p, k, t1, r)
  <2>1. PICK d \in 0..l :
          /\ d <= Len(q) /\ Len(r) = Len(q) - d
          /\ \A j \in 1..Len(r) : IF j + d > l THEN r[j] = q[j + d] ELSE Spent(t1, r[j])
    BY <1>6 DEF GoesOn
  <2> DEFINE b == d + e
  <2>2. b \in 0..k /\ b <= Len(p) /\ Len(r) = Len(p) - b
    BY <1>1, <1>2, <2>1
  <2>3. ASSUME NEW j \in 1..Len(r)
        PROVE  IF j + b > k THEN r[j] = p[j + b] ELSE Spent(t1, r[j])
    <3>1. CASE j + b > k
      <4>1. j + d > l /\ j + d \in 1..Len(q) /\ (j + d) + e > c /\ (j + d) + e = j + b
        BY <1>1, <1>2, <2>1, <3>1
      <4>2. r[j] = q[j + d] /\ q[j + d] = p[(j + d) + e]
        BY <1>1, <2>1, <4>1
      <4> QED BY <3>1, <4>1, <4>2
    <3>2. CASE ~(j + b > k)
      <4>1. ~(j + d > l)
        BY <1>1, <1>2, <2>1, <3>2
      <4> QED BY <2>1, <3>2, <4>1
    <3> QED BY <3>1, <3>2
  <2> HIDE DEF b
  <2> QED BY <2>2, <2>3 DEF GoesOn
<1> QED BY <1>2, <1>3, <1>5, <1>6

(***************************************************************************)
(* What a handler reads                                                    *)
(***************************************************************************)

\* All a user's handler reads: everything but the transfers.
Untouched(t, s) ==
  /\ t.market = s.market /\ t.supply = s.supply /\ t.borrow = s.borrow /\ t.proposal = s.proposal
  /\ t.tx = s.tx /\ t.user = s.user /\ t.signers = s.signers /\ t.legacy = s.legacy
  /\ t.ver = s.ver

\* Tables whose rows are the same are read alike.
LEMMA ReadAlike ==
  ASSUME NEW t, NEW s
  PROVE  /\ t.market = s.market =>
              /\ \A c : (HasMarket(t, c) <=> HasMarket(s, c)) /\ (HasCToken(t, c) <=> HasCToken(s, c))
              /\ \A a : FindMarket(t, a) = FindMarket(s, a)
              /\ \A a, o : Loaded(t, a, o) = Loaded(s, a, o)
         /\ t.ver = s.ver =>
              /\ \A a, o : Outdated(t, a, o) <=> Outdated(s, a, o)
              /\ \A a, m, id : UpdateMarket(t, a, m, id) = UpdateMarket(s, a, m, id)
              /\ \A u, a, r, id : UpdateSupply(t, u, a, r, id) = UpdateSupply(s, u, a, r, id)
              /\ \A u, a, r, id : UpdateBorrow(t, u, a, r, id) = UpdateBorrow(s, u, a, r, id)
         /\ t.tx = s.tx =>
              /\ \A o : First(t, o) <=> First(s, o)
              /\ \A o, x : Record(t, o, x) = Record(s, o, x) /\ Decided(t, o, x) = Decided(s, o, x)
         /\ t.supply = s.supply =>
              /\ \A u, a : GetOrCreateSupply(t, u, a) = GetOrCreateSupply(s, u, a)
              /\ \A a, m, n : PledgeFits(t, a, m, n) <=> PledgeFits(s, a, m, n)
         /\ t.borrow = s.borrow =>
              \A u, a : GetOrCreateBorrow(t, u, a) = GetOrCreateBorrow(s, u, a)
         /\ t.market = s.market /\ t.supply = s.supply /\ t.borrow = s.borrow =>
              /\ \A u, ms : CalculateAccountLiquidity(t, u, ms) = CalculateAccountLiquidity(s, u, ms)
              /\ \A u : HasClosedMarkets(t, u) <=> HasClosedMarkets(s, u)
<1>1. ASSUME t.market = s.market
      PROVE  /\ \A c : (HasMarket(t, c) <=> HasMarket(s, c)) /\ (HasCToken(t, c) <=> HasCToken(s, c))
             /\ \A a : FindMarket(t, a) = FindMarket(s, a)
             /\ \A a, o : Loaded(t, a, o) = Loaded(s, a, o)
  BY <1>1 DEF HasMarket, HasCToken, FindMarket, Loaded
<1>2. ASSUME t.ver = s.ver
      PROVE  /\ \A a, o : Outdated(t, a, o) <=> Outdated(s, a, o)
             /\ \A a, m, id : UpdateMarket(t, a, m, id) = UpdateMarket(s, a, m, id)
             /\ \A u, a, r, id : UpdateSupply(t, u, a, r, id) = UpdateSupply(s, u, a, r, id)
             /\ \A u, a, r, id : UpdateBorrow(t, u, a, r, id) = UpdateBorrow(s, u, a, r, id)
  BY <1>2 DEF Outdated, UpdateMarket, UpdateSupply, UpdateBorrow, Update
<1>3. ASSUME t.tx = s.tx
      PROVE  /\ \A o : First(t, o) <=> First(s, o)
             /\ \A o, x : Record(t, o, x) = Record(s, o, x) /\ Decided(t, o, x) = Decided(s, o, x)
  BY <1>3 DEF First, Record, Decided, HasTx, FindTx
<1>4. ASSUME t.supply = s.supply
      PROVE  /\ \A u, a : GetOrCreateSupply(t, u, a) = GetOrCreateSupply(s, u, a)
             /\ \A a, m, n : PledgeFits(t, a, m, n) <=> PledgeFits(s, a, m, n)
  BY <1>4 DEF GetOrCreateSupply, PledgeFits, SumOfSupplies
<1>5. ASSUME t.borrow = s.borrow
      PROVE  \A u, a : GetOrCreateBorrow(t, u, a) = GetOrCreateBorrow(s, u, a)
  BY <1>5 DEF GetOrCreateBorrow
<1>6. ASSUME t.market = s.market, t.supply = s.supply, t.borrow = s.borrow
      PROVE  /\ \A u, ms : CalculateAccountLiquidity(t, u, ms) = CalculateAccountLiquidity(s, u, ms)
             /\ \A u : HasClosedMarkets(t, u) <=> HasClosedMarkets(s, u)
  BY <1>6 DEF CalculateAccountLiquidity, HasClosedMarkets
<1> QED BY <1>1, <1>2, <1>3, <1>4, <1>5, <1>6

\* So is a single market of theirs.
LEMMA MarketAlike ==
  ASSUME NEW t, NEW s, NEW a, t.market[a] = s.market[a],
         t.ver[<<"market", a>>] = s.ver[<<"market", a>>]
  PROVE  /\ HasCToken(t, CToken(a)) <=> HasCToken(s, CToken(a))
         /\ HasMarket(t, Currency(a)) <=> HasMarket(s, Currency(a))
         /\ \A c : c.asset = a => (HasMarket(t, c) <=> HasMarket(s, c))
         /\ \A c : c.asset = a => (HasCToken(t, c) <=> HasCToken(s, c))
         /\ \A o : Loaded(t, a, o) = Loaded(s, a, o) /\ (Outdated(t, a, o) <=> Outdated(s, a, o))
         /\ \A m, id : UpdateMarket(t, a, m, id) = UpdateMarket(s, a, m, id)
BY DEF HasMarket, HasCToken, CToken, Currency, FindMarket, Loaded, Outdated, UpdateMarket, Update

(***************************************************************************)
(* What a statement leaves behind                                          *)
(***************************************************************************)

\* A transfer that was made is not made again, nor another with its trace.
LEMMA AfterTransfer ==
  ASSUME NEW s, TablesShape(s), NEW x
  PROVE  LET t == Apply(s, InsertTransfer(x))
         IN  /\ Untouched(t, s) /\ t.sysversion = s.sysversion
             /\ \A y : y.trace = x.trace => Spent(t, InsertTransfer(y))
             /\ \A y : Spent(s, InsertTransfer(y)) => Spent(t, InsertTransfer(y))
<1> DEFINE t == Apply(s, InsertTransfer(x))
<1>1. t = IF \E z \in s.transfer : z.trace = x.trace THEN s
          ELSE [s EXCEPT !.transfer = @ \cup {x}]
  BY DEF Apply, InsertTransfer
<1>2. Untouched(t, s) /\ t.sysversion = s.sysversion
  BY <1>1 DEF Untouched, TablesShape, Tables
<1>3. s.transfer \subseteq t.transfer /\ \E z \in t.transfer : z.trace = x.trace
  BY <1>1 DEF TablesShape, Tables
<1>4. \A u, y : (\E z \in u.transfer : z.trace = y.trace) => Spent(u, InsertTransfer(y))
  BY DEF Spent, Apply, InsertTransfer, Rigid, Versioned
<1>5. ASSUME NEW y, Spent(s, InsertTransfer(y)) PROVE \E z \in s.transfer : z.trace = y.trace
  <2>1. CASE \E z \in s.transfer : z.trace = y.trace
    BY <2>1
  <2>2. CASE ~\E z \in s.transfer : z.trace = y.trace
    <3>1. s = [s EXCEPT !.transfer = @ \cup {y}]
      BY <1>5, <2>2 DEF Spent, Apply, InsertTransfer
    <3>2. y \in s.transfer
      BY <3>1 DEF TablesShape, Tables
    <3> QED BY <3>2
  <2> QED BY <2>1, <2>2
<1> HIDE DEF t
<1>6. \A y : y.trace = x.trace => Spent(t, InsertTransfer(y))
  BY <1>3, <1>4
<1>7. \A y : Spent(s, InsertTransfer(y)) => Spent(t, InsertTransfer(y))
  BY <1>3, <1>4, <1>5
<1> QED BY <1>2, <1>6, <1>7 DEF t

\* The decision is recorded, and it is the one found from then on.
LEMMA AfterRecord ==
  ASSUME NEW s, TablesShape(s), NEW o, NEW x, x.id = o.id, Record(s, o, x).t # "nop"
  PROVE  LET t == Apply(s, Record(s, o, x))
         IN  /\ ~HasTx(s, o.id) /\ HasTx(t, o.id) /\ FindTx(t, o.id) = x
             /\ t.market = s.market /\ t.supply = s.supply /\ t.borrow = s.borrow
             /\ t.user = s.user /\ t.ver = s.ver
<1> DEFINE t == Apply(s, Record(s, o, x))
<1>1. ~HasTx(s, o.id) /\ Record(s, o, x) = InsertTx(x)
  BY DEF Record, Nop
<1>2. t = [s EXCEPT !.tx = @ \cup {x}]
  BY <1>1 DEF Apply, InsertTx, HasTx
<1>3. /\ t.market = s.market /\ t.supply = s.supply /\ t.borrow = s.borrow
      /\ t.user = s.user /\ t.ver = s.ver /\ t.tx = s.tx \cup {x}
  BY <1>2 DEF TablesShape, Tables
<1>4. \A y \in t.tx : y.id = o.id <=> y = x
  BY <1>1, <1>3 DEF HasTx
<1>5. x \in t.tx
  BY <1>3
<1> HIDE DEF t
<1>6. HasTx(t, o.id) /\ FindTx(t, o.id) = x
  BY <1>4, <1>5 DEF HasTx, FindTx
<1> QED BY <1>1, <1>3, <1>6 DEF t

\* Tables t are tables s with a row of a user's created.
SupplyMade(t, s, u, a) ==
  /\ t.market = s.market /\ t.borrow = s.borrow /\ t.tx = s.tx /\ t.user = s.user /\ t.ver = s.ver
  /\ GetOrCreateSupply(t, u, a) = Nop
BorrowMade(t, s, u, a) ==
  /\ t.market = s.market /\ t.supply = s.supply /\ t.tx = s.tx /\ t.user = s.user /\ t.ver = s.ver
  /\ GetOrCreateBorrow(t, u, a) = Nop

\* The row is there from then on.
LEMMA AfterCreate ==
  ASSUME NEW s, TablesShape(s), NEW u \in Users, NEW a \in Assets, NEW w, w.t # "nop", NEW t, t = Apply(s, w)
  PROVE  /\ w = GetOrCreateSupply(s, u, a) => SupplyMade(t, s, u, a)
         /\ w = GetOrCreateBorrow(s, u, a) => BorrowMade(t, s, u, a)
<1> DEFINE k == <<u, a>>
<1>0. k \in Positions
  BY DEF Positions
<1>1. ASSUME w = GetOrCreateSupply(s, u, a) PROVE SupplyMade(t, s, u, a)
  <2>1. w = CreateSupply(u, a)
    BY <1>1 DEF GetOrCreateSupply, Nop
  <2>2. t = [s EXCEPT !.supply[k].exists = TRUE]
    BY <2>1 DEF Apply, CreateSupply
  <2>3. /\ t.market = s.market /\ t.borrow = s.borrow /\ t.tx = s.tx
        /\ t.user = s.user /\ t.ver = s.ver
        /\ t.supply = [s.supply EXCEPT ![k] = [s.supply[k] EXCEPT !.exists = TRUE]]
    BY <2>2 DEF TablesShape, Tables
  <2>4. t.supply[k].exists = TRUE
    BY <1>0, <2>3 DEF TablesShape
  <2> QED BY <2>3, <2>4 DEF GetOrCreateSupply, SupplyMade
<1>2. ASSUME w = GetOrCreateBorrow(s, u, a) PROVE BorrowMade(t, s, u, a)
  <2>1. w = CreateBorrow(u, a)
    BY <1>2 DEF GetOrCreateBorrow, Nop
  <2>2. t = [s EXCEPT !.borrow[k].exists = TRUE]
    BY <2>1 DEF Apply, CreateBorrow
  <2>3. /\ t.market = s.market /\ t.supply = s.supply /\ t.tx = s.tx
        /\ t.user = s.user /\ t.ver = s.ver
        /\ t.borrow = [s.borrow EXCEPT ![k] = [s.borrow[k] EXCEPT !.exists = TRUE]]
    BY <2>2 DEF TablesShape, Tables
  <2>4. t.borrow[k].exists = TRUE
    BY <1>0, <2>3 DEF TablesShape
  <2> QED BY <2>3, <2>4 DEF GetOrCreateBorrow, BorrowMade
<1> QED BY <1>1, <1>2

\* The rows of other kinds have the versions they had, and other markets their row.
MarketsSince(t, s)      == \A b \in Assets : t.ver[<<"market", b>>] = s.ver[<<"market", b>>]
OtherMarkets(t, s, a)   == \A b \in Assets : b # a => /\ t.ver[<<"market", b>>] = s.ver[<<"market", b>>]
                                                      /\ t.market[b] = s.market[b]
SuppliesSince(t, s)     == \A k \in Positions : t.ver[<<"supply", k>>] = s.ver[<<"supply", k>>]
BorrowsSince(t, s)      == \A k \in Positions : t.ver[<<"borrow", k>>] = s.ver[<<"borrow", k>>]
ProposalsSince(t, s)    == \A p \in Proposals : t.ver[<<"proposal", p>>] = s.ver[<<"proposal", p>>]

\* The outputs are numbered.
Numbered(o) == o.id \in Nat \ {0}

\* Tables t are tables s with one row written for output o.
SupplyWritten(t, s, u, a, x, o) ==
  /\ t.market = s.market /\ t.borrow = s.borrow /\ t.tx = s.tx /\ t.user = s.user
  /\ MarketsSince(t, s) /\ BorrowsSince(t, s)
  /\ t.supply[<<u, a>>] = x
  /\ \A y : UpdateSupply(t, u, a, y, o.id) = Nop

\* An updated row is not updated again by the same output.
LEMMA AfterSupply ==
  ASSUME NEW s, TablesShape(s), NEW u \in Users, NEW a \in Assets, NEW x, NEW o, Numbered(o),
         NEW w, w = UpdateSupply(s, u, a, x, o.id), w.t # "nop", NEW t, t = Apply(s, w)
  PROVE  SupplyWritten(t, s, u, a, x, o)
<1> DEFINE k == <<u, a>>
           id == o.id
<1>0. k \in Positions /\ <<"supply", k>> \in Rows
  BY RowKinds DEF Positions
<1>1. w = [t |-> "supply", key |-> k, data |-> x, old |-> s.ver[<<"supply", k>>], new |-> id]
  BY DEF UpdateSupply, Update, Nop
<1>2. t = [s EXCEPT !.supply[k] = x, !.ver[<<"supply", k>>] = id]
  BY <1>1 DEF Apply
<1>3. /\ t.market = s.market /\ t.borrow = s.borrow /\ t.tx = s.tx /\ t.user = s.user
      /\ t.supply = [s.supply EXCEPT ![k] = x]
      /\ t.ver = [s.ver EXCEPT ![<<"supply", k>>] = id]
  BY <1>2 DEF TablesShape, Tables
<1>4. t.supply[k] = x /\ t.ver[<<"supply", k>>] = id
  BY <1>0, <1>3 DEF TablesShape
<1>5. MarketsSince(t, s) /\ BorrowsSince(t, s)
  BY <1>3, RowKinds DEF TablesShape, MarketsSince, BorrowsSince
<1> HIDE DEF k, id
<1>6. \A y : UpdateSupply(t, u, a, y, o.id) = Nop
  BY <1>4 DEF UpdateSupply, Update, k, id, Numbered
<1> QED BY <1>3, <1>4, <1>5, <1>6 DEF k, SupplyWritten

\* The same for a loan and for a market.
BorrowWritten(t, s, u, a, x, o) ==
  /\ t.market = s.market /\ t.supply = s.supply /\ t.tx = s.tx /\ t.user = s.user
  /\ MarketsSince(t, s) /\ SuppliesSince(t, s)
  /\ t.borrow[<<u, a>>] = x
  /\ \A y : UpdateBorrow(t, u, a, y, o.id) = Nop

\* Nor is an updated loan.
LEMMA AfterBorrow ==
  ASSUME NEW s, TablesShape(s), NEW u \in Users, NEW a \in Assets, NEW x, NEW o, Numbered(o),
         NEW w, w = UpdateBorrow(s, u, a, x, o.id), w.t # "nop", NEW t, t = Apply(s, w)
  PROVE  BorrowWritten(t, s, u, a, x, o)
<1> DEFINE k == <<u, a>>
           id == o.id
<1>0. k \in Positions /\ <<"borrow", k>> \in Rows
  BY RowKinds DEF Positions
<1>1. w = [t |-> "borrow", key |-> k, data |-> x, old |-> s.ver[<<"borrow", k>>], new |-> id]
  BY DEF UpdateBorrow, Update, Nop
<1>2. t = [s EXCEPT !.borrow[k] = x, !.ver[<<"borrow", k>>] = id]
  BY <1>1 DEF Apply
<1>3. /\ t.market = s.market /\ t.supply = s.supply /\ t.tx = s.tx /\ t.user = s.user
      /\ t.borrow = [s.borrow EXCEPT ![k] = x]
      /\ t.ver = [s.ver EXCEPT ![<<"borrow", k>>] = id]
  BY <1>2 DEF TablesShape, Tables
<1>4. t.borrow[k] = x /\ t.ver[<<"borrow", k>>] = id
  BY <1>0, <1>3 DEF TablesShape
<1>5. MarketsSince(t, s) /\ SuppliesSince(t, s)
  BY <1>3, RowKinds DEF TablesShape, MarketsSince, SuppliesSince
<1> HIDE DEF k, id
<1>6. \A y : UpdateBorrow(t, u, a, y, o.id) = Nop
  BY <1>4 DEF UpdateBorrow, Update, k, id, Numbered
<1> QED BY <1>3, <1>4, <1>5, <1>6 DEF k, BorrowWritten

MarketWritten(t, s, a, x, o) ==
  /\ t.supply = s.supply /\ t.borrow = s.borrow /\ t.tx = s.tx /\ t.user = s.user
  /\ t.proposal = s.proposal /\ t.signers = s.signers /\ t.legacy = s.legacy /\ t.transfer = s.transfer
  /\ OtherMarkets(t, s, a) /\ SuppliesSince(t, s) /\ BorrowsSince(t, s) /\ ProposalsSince(t, s)
  /\ t.market[a] = x /\ Outdated(t, a, o)
  /\ \A y : UpdateMarket(t, a, y, o.id) = Nop

\* An updated market makes the output an old one, and leaves all else.
LEMMA AfterMarket ==
  ASSUME NEW s, TablesShape(s), NEW a \in Assets, NEW x, NEW o, Numbered(o),
         NEW w, w = UpdateMarket(s, a, x, o.id), w.t # "nop", NEW t, t = Apply(s, w)
  PROVE  MarketWritten(t, s, a, x, o)
<1> DEFINE id == o.id
<1>0. <<"market", a>> \in Rows
  BY RowKinds
<1>1. w = [t |-> "market", key |-> a, data |-> x, old |-> s.ver[<<"market", a>>], new |-> id]
  BY DEF UpdateMarket, Update, Nop
<1> HIDE DEF id
<1>2. t = [s EXCEPT !.market[a] = x, !.ver[<<"market", a>>] = id]
  BY <1>1 DEF Apply
<1>3. /\ t.supply = s.supply /\ t.borrow = s.borrow /\ t.tx = s.tx /\ t.user = s.user
      /\ t.proposal = s.proposal /\ t.signers = s.signers /\ t.legacy = s.legacy /\ t.transfer = s.transfer
      /\ t.market = [s.market EXCEPT ![a] = x]
      /\ t.ver = [s.ver EXCEPT ![<<"market", a>>] = id]
  BY <1>2 DEF TablesShape, Tables
<1>4. t.market[a] = x /\ t.ver[<<"market", a>>] = id
  BY <1>0, <1>3 DEF TablesShape
<1>5. OtherMarkets(t, s, a) /\ SuppliesSince(t, s) /\ BorrowsSince(t, s) /\ ProposalsSince(t, s)
  BY <1>3, RowKinds DEF TablesShape, OtherMarkets, SuppliesSince, BorrowsSince, ProposalsSince
<1>6. Outdated(t, a, o) /\ \A y : UpdateMarket(t, a, y, o.id) = Nop
  BY <1>4 DEF UpdateMarket, Update, Outdated, id, Numbered
<1> QED BY <1>3, <1>4, <1>5, <1>6 DEF id, MarketWritten

(***************************************************************************)
(* Plans that differ in nothing but what is spent                          *)
(***************************************************************************)

\* Issued by a handler: not a no-op, not a stop, and not a new system version.
Issued(w) == w.t \notin {"nop", "halt", "sysversion"}

\* The next statement of a short plan.
LEMMA CutShort ==
  ASSUME NEW t, NEW k
  PROVE  /\ ~Cut(t, <<>>, k)
         /\ \A a : Cut(t, <<a>>, k) => k = 1 /\ Issued(a)
         /\ \A a, b : Cut(t, <<a, b>>, k) => \/ k = 1 /\ Issued(a)
                                             \/ k = 2 /\ Spent(t, a) /\ Issued(b)
         /\ \A a, b, c : Cut(t, <<a, b, c>>, k)
              => \/ k = 1 /\ Issued(a)
                 \/ k = 2 /\ Spent(t, a) /\ Issued(b)
                 \/ k = 3 /\ Spent(t, a) /\ Spent(t, b) /\ Issued(c)
BY DEF Cut, Issued

\* Of a plan of four statements,
LEMMA Cut4 ==
  ASSUME NEW t, NEW k, NEW a, NEW b, NEW c, NEW d, Cut(t, <<a, b, c, d>>, k)
  PROVE  \/ k = 1 /\ Issued(a)
         \/ k = 2 /\ Spent(t, a) /\ Issued(b)
         \/ k = 3 /\ Spent(t, a) /\ Spent(t, b) /\ Issued(c)
         \/ k = 4 /\ Spent(t, a) /\ Spent(t, b) /\ Spent(t, c) /\ Issued(d)
BY DEF Cut, Issued

\* and of five.
LEMMA Cut5 ==
  ASSUME NEW t, NEW k, NEW a, NEW b, NEW c, NEW d, NEW e, Cut(t, <<a, b, c, d, e>>, k)
  PROVE  \/ k = 1 /\ Issued(a)
         \/ k = 2 /\ Spent(t, a) /\ Issued(b)
         \/ k = 3 /\ Spent(t, a) /\ Spent(t, b) /\ Issued(c)
         \/ k = 4 /\ Spent(t, a) /\ Spent(t, b) /\ Spent(t, c) /\ Issued(d)
         \/ k = 5 /\ Spent(t, a) /\ Spent(t, b) /\ Spent(t, c) /\ Spent(t, d) /\ Issued(e)
BY DEF Cut, Issued

\* Going on after the next statement of a short plan.
LEMMA GoesShort ==
  ASSUME NEW t
  PROVE  /\ \A a, e : Spent(t, e) => GoesOn(<<a>>, 1, t, <<e>>)
         /\ \A a, b, e, f : Spent(t, e) /\ f = b => GoesOn(<<a, b>>, 1, t, <<e, f>>)
         /\ \A a, b, e, f : Spent(t, e) /\ Spent(t, f) => GoesOn(<<a, b>>, 2, t, <<e, f>>)
         /\ \A a, b, c, e, f, g : Spent(t, e) /\ f = b /\ g = c
              => GoesOn(<<a, b, c>>, 1, t, <<e, f, g>>)
         /\ \A a, b, c, e, f, g : Spent(t, e) /\ Spent(t, f) /\ g = c
              => GoesOn(<<a, b, c>>, 2, t, <<e, f, g>>)
         /\ \A a, b, c, e, f, g : Spent(t, e) /\ Spent(t, f) /\ Spent(t, g)
              => GoesOn(<<a, b, c>>, 3, t, <<e, f, g>>)
<1>1. ASSUME NEW a, NEW e, Spent(t, e) PROVE GoesOn(<<a>>, 1, t, <<e>>)
  BY <1>1, GoesStraight
<1>2. ASSUME NEW a, NEW b, NEW e, NEW f, Spent(t, e) PROVE f = b => GoesOn(<<a, b>>, 1, t, <<e, f>>)
  BY <1>2, GoesStraight
<1>3. ASSUME NEW a, NEW b, NEW e, NEW f, Spent(t, e), Spent(t, f) PROVE GoesOn(<<a, b>>, 2, t, <<e, f>>)
  BY <1>3, GoesStraight
<1>4. ASSUME NEW a, NEW b, NEW c, NEW e, NEW f, NEW g, Spent(t, e)
      PROVE  f = b /\ g = c => GoesOn(<<a, b, c>>, 1, t, <<e, f, g>>)
  BY <1>4, GoesStraight
<1>5. ASSUME NEW a, NEW b, NEW c, NEW e, NEW f, NEW g, Spent(t, e), Spent(t, f)
      PROVE  g = c => GoesOn(<<a, b, c>>, 2, t, <<e, f, g>>)
  BY <1>5, GoesStraight
<1>6. ASSUME NEW a, NEW b, NEW c, NEW e, NEW f, NEW g, Spent(t, e), Spent(t, f), Spent(t, g)
      PROVE  GoesOn(<<a, b, c>>, 3, t, <<e, f, g>>)
  BY <1>6, GoesStraight
<1> QED BY <1>1, <1>2, <1>3, <1>4, <1>5, <1>6

\* Plans of four statements that go on with one of four,
LEMMA Goes4 ==
  ASSUME NEW t, NEW a, NEW b, NEW c, NEW d, NEW e, NEW f, NEW g, NEW h, Spent(t, e)
  PROVE  /\ f = b /\ g = c /\ h = d => GoesOn(<<a, b, c, d>>, 1, t, <<e, f, g, h>>)
         /\ Spent(t, f) /\ g = c /\ h = d => GoesOn(<<a, b, c, d>>, 2, t, <<e, f, g, h>>)
         /\ Spent(t, f) /\ Spent(t, g) /\ h = d => GoesOn(<<a, b, c, d>>, 3, t, <<e, f, g, h>>)
         /\ Spent(t, f) /\ Spent(t, g) /\ Spent(t, h) => GoesOn(<<a, b, c, d>>, 4, t, <<e, f, g, h>>)
<1>1. f = b /\ g = c /\ h = d => GoesOn(<<a, b, c, d>>, 1, t, <<e, f, g, h>>)
  BY GoesStraight
<1>2. Spent(t, f) /\ g = c /\ h = d => GoesOn(<<a, b, c, d>>, 2, t, <<e, f, g, h>>)
  BY GoesStraight
<1>3. Spent(t, f) /\ Spent(t, g) /\ h = d => GoesOn(<<a, b, c, d>>, 3, t, <<e, f, g, h>>)
  BY GoesStraight
<1>4. Spent(t, f) /\ Spent(t, g) /\ Spent(t, h) => GoesOn(<<a, b, c, d>>, 4, t, <<e, f, g, h>>)
  BY GoesStraight
<1> QED BY <1>1, <1>2, <1>3, <1>4

\* and of five, the last of which is still to come.
LEMMA Goes5 ==
  ASSUME NEW t, NEW a, NEW b, NEW c, NEW d, NEW x, NEW e, NEW f, NEW g, NEW h, NEW y, Spent(t, e), y = x
  PROVE  /\ f = b /\ g = c /\ h = d => GoesOn(<<a, b, c, d, x>>, 1, t, <<e, f, g, h, y>>)
         /\ Spent(t, f) /\ g = c /\ h = d => GoesOn(<<a, b, c, d, x>>, 2, t, <<e, f, g, h, y>>)
         /\ Spent(t, f) /\ Spent(t, g) /\ h = d => GoesOn(<<a, b, c, d, x>>, 3, t, <<e, f, g, h, y>>)
         /\ Spent(t, f) /\ Spent(t, g) /\ Spent(t, h)
              => GoesOn(<<a, b, c, d, x>>, 4, t, <<e, f, g, h, y>>)
<1>1. f = b /\ g = c /\ h = d => GoesOn(<<a, b, c, d, x>>, 1, t, <<e, f, g, h, y>>)
  BY GoesStraight
<1>2. Spent(t, f) /\ g = c /\ h = d => GoesOn(<<a, b, c, d, x>>, 2, t, <<e, f, g, h, y>>)
  BY GoesStraight
<1>3. Spent(t, f) /\ Spent(t, g) /\ h = d => GoesOn(<<a, b, c, d, x>>, 3, t, <<e, f, g, h, y>>)
  BY GoesStraight
<1>4. Spent(t, f) /\ Spent(t, g) /\ Spent(t, h)
        => GoesOn(<<a, b, c, d, x>>, 4, t, <<e, f, g, h, y>>)
  BY GoesStraight
<1> QED BY <1>1, <1>2, <1>3, <1>4

(***************************************************************************)
(* Money that was sent, and the handlers that look at everything else      *)
(***************************************************************************)

\* A refund or a payout is a transfer, or nothing at all.
Payment(w) == w = Nop \/ \E x : w = InsertTransfer(x)

\* All the outcomes a handler chooses from.
LEMMA Payments ==
  ASSUME NEW o
  PROVE  /\ \A kind, cur, amount : Payment(Transfer(o, kind, cur, amount))
         /\ Payment(RefundV0(o))
         /\ \A msg, fl : Payment(Raise(o, msg, fl))
         /\ \A v, msg, fl : Payment(Reject(v, o, msg, fl))
<1>1. \A kind, cur, amount : Payment(Transfer(o, kind, cur, amount))
  BY DEF Transfer, Payment
<1>2. Payment(RefundV0(o))
  BY <1>1 DEF RefundV0
<1>3. \A msg, fl : Payment(Raise(o, msg, fl))
  BY <1>1 DEF Raise, Payment
<1> QED BY <1>1, <1>2, <1>3 DEF Reject

\* A transfer that was made stays made, and so does every other.
LEMMA PaymentSpent ==
  ASSUME NEW s, TablesShape(s), NEW w, Payment(w), Issued(w)
  PROVE  LET t == Apply(s, w)
         IN  /\ Untouched(t, s) /\ TablesShape(t) /\ t.sysversion = s.sysversion
             /\ Spent(t, w)
             /\ \A x : Payment(x) /\ Spent(s, x) => Spent(t, x)
<1> DEFINE t == Apply(s, w)
<1>1. PICK x : w = InsertTransfer(x)
  BY DEF Payment, Issued, Nop
<1>2. /\ Untouched(t, s) /\ t.sysversion = s.sysversion
      /\ \A y : y.trace = x.trace => Spent(t, InsertTransfer(y))
      /\ \A y : Spent(s, InsertTransfer(y)) => Spent(t, InsertTransfer(y))
  BY <1>1, AfterTransfer
<1>3. t = s \/ t = [s EXCEPT !.transfer = @ \cup {x}]
  BY <1>1 DEF Apply, InsertTransfer
<1>4. Tables \subseteq DOMAIN t
  BY <1>3 DEF TablesShape, Tables
<1> HIDE DEF t
<1>5. TablesShape(t)
  BY <1>2, <1>4 DEF TablesShape, Untouched
<1> QED BY <1>1, <1>2, <1>5, NopSpent DEF Payment, t

\* The transfer that was made is found by its trace.
LEMMA TransferFound ==
  ASSUME NEW s, TablesShape(s), NEW t, t.transfer = s.transfer
  PROVE  /\ \A x, y : Spent(s, InsertTransfer(x)) /\ y.trace = x.trace => Spent(t, InsertTransfer(y))
         /\ \A w : Payment(w) /\ Spent(s, w) => Spent(t, w)
<1>1. ASSUME NEW y, Spent(s, InsertTransfer(y)) PROVE \E z \in s.transfer : z.trace = y.trace
  <2>1. CASE \E z \in s.transfer : z.trace = y.trace
    BY <2>1
  <2>2. CASE ~\E z \in s.transfer : z.trace = y.trace
    <3>1. s = [s EXCEPT !.transfer = @ \cup {y}]
      BY <1>1, <2>2 DEF Spent, Apply, InsertTransfer
    <3>2. y \in s.transfer
      BY <3>1 DEF TablesShape, Tables
    <3> QED BY <3>2
  <2> QED BY <2>1, <2>2
<1>2. \A y : (\E z \in t.transfer : z.trace = y.trace) => Spent(t, InsertTransfer(y))
  BY DEF Spent, Apply, InsertTransfer, Rigid, Versioned
<1>3. \A x, y : Spent(s, InsertTransfer(x)) /\ y.trace = x.trace => Spent(t, InsertTransfer(y))
  BY <1>1, <1>2
<1> QED BY <1>3, NopSpent DEF Payment

\* What is spent of a user's statements is a payment.
LEMMA SpentRigid ==
  ASSUME NEW s
  PROVE  /\ \A o, x : Spent(s, Record(s, o, x)) => HasTx(s, o.id)
         /\ \A o, x : HasTx(s, o.id) => Record(s, o, x) = Nop
         /\ \A u, a : Spent(s, GetOrCreateSupply(s, u, a)) => GetOrCreateSupply(s, u, a) = Nop
         /\ \A u, a : Spent(s, GetOrCreateBorrow(s, u, a)) => GetOrCreateBorrow(s, u, a) = Nop
         /\ \A u, a, r, id : Spent(s, UpdateSupply(s, u, a, r, id)) => UpdateSupply(s, u, a, r, id) = Nop
         /\ \A u, a, r, id : Spent(s, UpdateBorrow(s, u, a, r, id)) => UpdateBorrow(s, u, a, r, id) = Nop
         /\ \A a, m, id : Spent(s, UpdateMarket(s, a, m, id)) => UpdateMarket(s, a, m, id) = Nop
         /\ \A u, a, r, x, id : UpdateSupply(s, u, a, r, id) = Nop => UpdateSupply(s, u, a, x, id) = Nop
         /\ \A u, a, r, x, id : UpdateBorrow(s, u, a, r, id) = Nop => UpdateBorrow(s, u, a, x, id) = Nop
<1> USE DEF Spent, Rigid, Versioned
<1>1. \A o, x : Spent(s, Record(s, o, x)) => HasTx(s, o.id)
  BY DEF Record, InsertTx
<1>2. \A o, x : HasTx(s, o.id) => Record(s, o, x) = Nop
  BY DEF Record
<1>3. /\ \A u, a : Spent(s, GetOrCreateSupply(s, u, a)) => GetOrCreateSupply(s, u, a) = Nop
      /\ \A u, a : Spent(s, GetOrCreateBorrow(s, u, a)) => GetOrCreateBorrow(s, u, a) = Nop
  BY DEF GetOrCreateSupply, GetOrCreateBorrow, CreateSupply, CreateBorrow
<1>4. /\ \A u, a, r, id : Spent(s, UpdateSupply(s, u, a, r, id)) => UpdateSupply(s, u, a, r, id) = Nop
      /\ \A u, a, r, id : Spent(s, UpdateBorrow(s, u, a, r, id)) => UpdateBorrow(s, u, a, r, id) = Nop
      /\ \A a, m, id : Spent(s, UpdateMarket(s, a, m, id)) => UpdateMarket(s, a, m, id) = Nop
  BY DEF UpdateSupply, UpdateBorrow, UpdateMarket, Update
<1>5. \A table, key, r, x, id : table # "nop" /\ Update(s, table, key, r, id) = Nop => Update(s, table, key, x, id) = Nop
  BY DEF Update, Nop
<1>6. /\ \A u, a, r, x, id : UpdateSupply(s, u, a, r, id) = Nop => UpdateSupply(s, u, a, x, id) = Nop
      /\ \A u, a, r, x, id : UpdateBorrow(s, u, a, r, id) = Nop => UpdateBorrow(s, u, a, x, id) = Nop
  BY <1>5 DEF UpdateSupply, UpdateBorrow
<1> QED BY <1>1, <1>2, <1>3, <1>4, <1>6

\* A row or a user created in tables that are the same but for the transfers.
LEMMA CreateAlike ==
  ASSUME NEW t, NEW s, TablesShape(t), TablesShape(s), Untouched(t, s), NEW w,
         w.t \in {"nop", "newsupply", "newborrow", "user"}
  PROVE  Untouched(Apply(t, w), Apply(s, w))
<1>1. CASE w.t = "nop"
  BY <1>1 DEF Apply
<1>2. CASE w.t = "user"
  BY <1>2 DEF Apply, Untouched, TablesShape, Tables
<1>3. CASE w.t = "newsupply"
  BY <1>3 DEF Apply, Untouched, TablesShape, Tables
<1>4. CASE w.t = "newborrow"
  BY <1>4 DEF Apply, Untouched, TablesShape, Tables
<1> QED BY <1>1, <1>2, <1>3, <1>4

\* Creating a row leaves tables in shape.
LEMMA CreateShape ==
  ASSUME NEW s, TablesShape(s), NEW u, NEW a
  PROVE  /\ TablesShape(Apply(s, GetOrCreateSupply(s, u, a)))
         /\ TablesShape(Apply(s, GetOrCreateBorrow(s, u, a)))
         /\ \A t : /\ GetOrCreateSupply(t, u, a).t \in {"nop", "newsupply", "newborrow", "user"}
                   /\ GetOrCreateBorrow(t, u, a).t \in {"nop", "newsupply", "newborrow", "user"}
<1>1. \A t : /\ GetOrCreateSupply(t, u, a).t \in {"nop", "newsupply", "newborrow", "user"}
             /\ GetOrCreateBorrow(t, u, a).t \in {"nop", "newsupply", "newborrow", "user"}
  BY DEF GetOrCreateSupply, GetOrCreateBorrow, CreateSupply, CreateBorrow, Nop
<1> QED BY <1>1, Creates

\* No handler of a user's action looks at the transfers.
LEMMA UserAlike ==
  ASSUME NEW t, NEW s, TablesShape(t), TablesShape(s), Untouched(t, s), NEW v, NEW o
  PROVE  HandleUserAction(t, v, o) = HandleUserAction(s, v, o)
<1>0. /\ t.market = s.market /\ t.supply = s.supply /\ t.borrow = s.borrow
      /\ t.tx = s.tx /\ t.user = s.user /\ t.ver = s.ver
  BY DEF Untouched
<1>1. /\ \A c : (HasMarket(t, c) <=> HasMarket(s, c)) /\ (HasCToken(t, c) <=> HasCToken(s, c))
      /\ \A a : Loaded(t, a, o) = Loaded(s, a, o) /\ (Outdated(t, a, o) <=> Outdated(s, a, o))
  BY <1>0, ReadAlike
<1>2. /\ \A a, m, id : UpdateMarket(t, a, m, id) = UpdateMarket(s, a, m, id)
      /\ \A u, a, r, id : UpdateSupply(t, u, a, r, id) = UpdateSupply(s, u, a, r, id)
      /\ \A u, a, r, id : UpdateBorrow(t, u, a, r, id) = UpdateBorrow(s, u, a, r, id)
  BY <1>0, ReadAlike
<1>3. /\ First(t, o) <=> First(s, o)
      /\ \A x : Record(t, o, x) = Record(s, o, x) /\ Decided(t, o, x) = Decided(s, o, x)
  BY <1>0, ReadAlike
<1>4. /\ \A u, ms : CalculateAccountLiquidity(t, u, ms) = CalculateAccountLiquidity(s, u, ms)
      /\ \A u : HasClosedMarkets(t, u) <=> HasClosedMarkets(s, u)
  BY <1>0, ReadAlike
<1>5. ASSUME NEW u, NEW a
      PROVE  LET w == GetOrCreateSupply(s, u, a)
             IN  /\ GetOrCreateSupply(t, u, a) = w /\ Apply(t, w).supply = Apply(s, w).supply
                 /\ \A m, n : PledgeFits(Apply(t, w), a, m, n) <=> PledgeFits(Apply(s, w), a, m, n)
  <2> DEFINE w == GetOrCreateSupply(s, u, a)
  <2>1. GetOrCreateSupply(t, u, a) = w
    BY <1>0, ReadAlike
  <2>2. Untouched(Apply(t, w), Apply(s, w))
    BY CreateShape, CreateAlike
  <2>3. Apply(t, w).supply = Apply(s, w).supply
    BY <2>2 DEF Untouched
  <2> HIDE DEF w
  <2> QED BY <2>1, <2>3, ReadAlike DEF w
<1>6. ASSUME NEW u, NEW a
      PROVE  LET w == GetOrCreateBorrow(s, u, a)
             IN  /\ GetOrCreateBorrow(t, u, a) = w /\ Apply(t, w).borrow = Apply(s, w).borrow
                 /\ \A ms : CalculateAccountLiquidity(Apply(t, w), u, ms)
                              = CalculateAccountLiquidity(Apply(s, w), u, ms)
  <2> DEFINE w == GetOrCreateBorrow(s, u, a)
  <2>1. GetOrCreateBorrow(t, u, a) = w
    BY <1>0, ReadAlike
  <2>2. Untouched(Apply(t, w), Apply(s, w))
    BY CreateShape, CreateAlike
  <2>3. /\ Apply(t, w).supply = Apply(s, w).supply /\ Apply(t, w).borrow = Apply(s, w).borrow
        /\ Apply(t, w).market = Apply(s, w).market
    BY <2>2 DEF Untouched
  <2> HIDE DEF w
  <2> QED BY <2>1, <2>3, ReadAlike DEF w
<1>7. ASSUME NEW u, NEW a, NEW b
      PROVE  LET w == GetOrCreateSupply(s, u, a)
                 x == GetOrCreateBorrow(s, u, b)
                 t2 == Apply(Apply(t, w), x)
                 s2 == Apply(Apply(s, w), x)
             IN  /\ t2.supply = s2.supply /\ t2.borrow = s2.borrow
                 /\ \A ms : CalculateAccountLiquidity(t2, u, ms) = CalculateAccountLiquidity(s2, u, ms)
                 /\ \A m, n : PledgeFits(t2, a, m, n) <=> PledgeFits(s2, a, m, n)
  <2> DEFINE w == GetOrCreateSupply(s, u, a)
             x == GetOrCreateBorrow(s, u, b)
             t1 == Apply(t, w)
             s1 == Apply(s, w)
             t2 == Apply(t1, x)
             s2 == Apply(s1, x)
  <2>1. w = GetOrCreateSupply(t, u, a)
    BY <1>5
  <2>2. Untouched(t1, s1) /\ TablesShape(t1) /\ TablesShape(s1)
    BY <2>1, CreateShape, CreateAlike
  <2>3. x.t \in {"nop", "newsupply", "newborrow", "user"}
    BY CreateShape
  <2> HIDE DEF w, x, t1, s1
  <2>4. Untouched(t2, s2)
    BY <2>2, <2>3, CreateAlike
  <2>5. t2.supply = s2.supply /\ t2.borrow = s2.borrow /\ t2.market = s2.market
    BY <2>4 DEF Untouched
  <2> HIDE DEF t2, s2
  <2>6. /\ \A ms : CalculateAccountLiquidity(t2, u, ms) = CalculateAccountLiquidity(s2, u, ms)
        /\ \A m, n : PledgeFits(t2, a, m, n) <=> PledgeFits(s2, a, m, n)
    BY <2>5, ReadAlike
  <2> QED BY <2>5, <2>6 DEF w, x, t1, s1, t2, s2
<1>11. HandleSupply(t, v, o) = HandleSupply(s, v, o)
  BY <1>1, <1>2, <1>3 DEF HandleSupply
<1>12. HandlePledge(t, v, o) = HandlePledge(s, v, o)
  <2> DEFINE w == GetOrCreateSupply(s, o.sender, o.cur.asset)
             m == Loaded(s, o.cur.asset, o)
  <2>1. /\ GetOrCreateSupply(t, o.sender, o.cur.asset) = w /\ Apply(t, w).supply = Apply(s, w).supply
        /\ PledgeFits(Apply(t, w), o.cur.asset, m, o.amount)
             <=> PledgeFits(Apply(s, w), o.cur.asset, m, o.amount)
    BY <1>5
  <2> QED BY <1>1, <1>2, <1>3, <2>1 DEF HandlePledge
<1>13. HandleRedeem(t, v, o) = HandleRedeem(s, v, o)
  BY <1>1, <1>2, <1>3 DEF HandleRedeem
<1>14. HandleUnpledge(t, v, o) = HandleUnpledge(s, v, o)
  BY <1>0, <1>1, <1>2, <1>3, <1>4 DEF HandleUnpledge
<1>15. HandleQuickPledge(t, v, o) = HandleQuickPledge(s, v, o)
  <2> DEFINE w == GetOrCreateSupply(s, o.sender, o.cur.asset)
             m == Loaded(s, o.cur.asset, o)
             n == Trunc8(Div16(o.amount, CurExchangeRate(m)))
  <2>1. /\ GetOrCreateSupply(t, o.sender, o.cur.asset) = w /\ Apply(t, w).supply = Apply(s, w).supply
        /\ PledgeFits(Apply(t, w), o.cur.asset, m, n) <=> PledgeFits(Apply(s, w), o.cur.asset, m, n)
    BY <1>5
  <2> QED BY <1>1, <1>2, <1>3, <2>1 DEF HandleQuickPledge
<1>16. HandleQuickRedeem(t, v, o) = HandleQuickRedeem(s, v, o)
  BY <1>0, <1>1, <1>2, <1>3, <1>4 DEF HandleQuickRedeem
<1>17. HandleBorrow(t, v, o) = HandleBorrow(s, v, o)
  <2> DEFINE w == GetOrCreateBorrow(s, o.sender, o.asset)
             ms == [x \in {o.asset} |-> Loaded(s, o.asset, o)]
  <2>1. /\ GetOrCreateBorrow(t, o.sender, o.asset) = w /\ Apply(t, w).borrow = Apply(s, w).borrow
        /\ CalculateAccountLiquidity(Apply(t, w), o.sender, ms)
             = CalculateAccountLiquidity(Apply(s, w), o.sender, ms)
    BY <1>6
  <2> QED BY <1>1, <1>2, <1>3, <2>1 DEF HandleBorrow
<1>18. HandleRepay(t, v, o) = HandleRepay(s, v, o)
  BY <1>0, <1>1, <1>2, <1>3 DEF HandleRepay
<1>19. HandleQuickBorrow(t, v, o) = HandleQuickBorrow(s, v, o)
  <2> DEFINE u == o.sender
             a == o.cur.asset
             b == o.asset
             sm == Loaded(s, a, o)
             bm == Loaded(s, b, o)
             w == GetOrCreateSupply(s, u, a)
             x == GetOrCreateBorrow(s, u, b)
             t2 == Apply(Apply(t, w), x)
             s2 == Apply(Apply(s, w), x)
             ms == [y \in {a, b} |-> IF y = a THEN sm ELSE bm]
             minted == IF o.cur.ctoken THEN o.amount
                       ELSE Trunc8(Div16(o.amount, CurExchangeRate(sm)))
  <2>1. /\ GetOrCreateSupply(t, u, a) = w /\ GetOrCreateBorrow(t, u, b) = x
        /\ t2.supply = s2.supply /\ t2.borrow = s2.borrow
        /\ CalculateAccountLiquidity(t2, u, ms) = CalculateAccountLiquidity(s2, u, ms)
        /\ PledgeFits(t2, a, sm, minted) <=> PledgeFits(s2, a, sm, minted)
    BY <1>5, <1>6, <1>7
  <2>2. Loaded(t, a, o) = sm /\ Loaded(t, b, o) = bm
    BY <1>1
  <2> QED BY <1>0, <1>1, <1>2, <1>3, <2>1, <2>2, SMTT(60) DEF HandleQuickBorrow
<1>20. HandleLiquidation(t, v, o) = HandleLiquidation(s, v, o)
  BY <1>0, <1>1, <1>2, <1>3, <1>4, SMTT(60) DEF HandleLiquidation
<1> QED BY <1>11, <1>12, <1>13, <1>14, <1>15, <1>16, <1>17, <1>18, <1>19, <1>20
        DEF HandleUserAction

\* What a user's action issues: payments, and statements that are issued only
\* while they are needed.
Usual(w) == Payment(w) \/ w.t \in Rigid
UsualPlan(q) == Len(q) \in Nat /\ \A j \in 1..Len(q) : Usual(q[j])

\* Plans of such statements, as long as the handlers write them.
LEMMA UsualTuples ==
  /\ UsualPlan(<<>>)
  /\ \A a : Usual(a) => UsualPlan(<<a>>)
  /\ \A a, b : Usual(a) /\ Usual(b) => UsualPlan(<<a, b>>)
  /\ \A a, b, c : Usual(a) /\ Usual(b) /\ Usual(c) => UsualPlan(<<a, b, c>>)
  /\ \A a, b, c, d : Usual(a) /\ Usual(b) /\ Usual(c) /\ Usual(d) => UsualPlan(<<a, b, c, d>>)
  /\ \A a, b, c, d, e : Usual(a) /\ Usual(b) /\ Usual(c) /\ Usual(d) /\ Usual(e)
       => UsualPlan(<<a, b, c, d, e>>)
  /\ \A a, b, c, d, e, f, g :
       Usual(a) /\ Usual(b) /\ Usual(c) /\ Usual(d) /\ Usual(e) /\ Usual(f) /\ Usual(g)
         => UsualPlan(<<a, b, c, d, e, f, g>>)
  /\ \A a, b, c, d, e, f, g, h :
       Usual(a) /\ Usual(b) /\ Usual(c) /\ Usual(d) /\ Usual(e) /\ Usual(f) /\ Usual(g) /\ Usual(h)
         => UsualPlan(<<a, b, c, d, e, f, g, h>>)
BY DEF UsualPlan

\* What the handlers of user actions issue is such.
LEMMA UsualStatements ==
  ASSUME NEW o
  PROVE  /\ Usual(Nop) /\ Usual(Halt) /\ Usual(RefundV0(o))
         /\ \A kind, cur, amount : Usual(Transfer(o, kind, cur, amount))
         /\ \A msg, fl : Usual(Raise(o, msg, fl))
         /\ \A v, msg, fl : Usual(Reject(v, o, msg, fl))
         /\ \A s, x : Usual(Record(s, o, x))
         /\ \A s, u, a : Usual(GetOrCreateSupply(s, u, a)) /\ Usual(GetOrCreateBorrow(s, u, a))
         /\ \A s, a, m, id : Usual(UpdateMarket(s, a, m, id))
         /\ \A s, u, a, r, id : Usual(UpdateSupply(s, u, a, r, id)) /\ Usual(UpdateBorrow(s, u, a, r, id))
<1>1. Usual(Nop) /\ Usual(Halt)
  BY DEF Usual, Payment, Halt, Rigid
<1>2. /\ Usual(RefundV0(o))
      /\ \A kind, cur, amount : Usual(Transfer(o, kind, cur, amount))
      /\ \A msg, fl : Usual(Raise(o, msg, fl))
      /\ \A v, msg, fl : Usual(Reject(v, o, msg, fl))
  BY Payments DEF Usual
<1>3. \A s, x : Usual(Record(s, o, x))
  BY <1>1 DEF Usual, Record, InsertTx, Rigid
<1>4. \A s, u, a : Usual(GetOrCreateSupply(s, u, a)) /\ Usual(GetOrCreateBorrow(s, u, a))
  BY <1>1 DEF Usual, GetOrCreateSupply, GetOrCreateBorrow, CreateSupply, CreateBorrow, Rigid
<1>5. \A s, table, key, data, id : table \in Versioned => Usual(Update(s, table, key, data, id))
  BY <1>1 DEF Usual, Update, Rigid
<1>6. /\ \A s, a, m, id : Usual(UpdateMarket(s, a, m, id))
      /\ \A s, u, a, r, id : Usual(UpdateSupply(s, u, a, r, id)) /\ Usual(UpdateBorrow(s, u, a, r, id))
  BY <1>5 DEF UpdateMarket, UpdateSupply, UpdateBorrow, Versioned
<1> QED BY <1>1, <1>2, <1>3, <1>4, <1>6

\* Every user action issues nothing else.
LEMMA UserUsual ==
  ASSUME NEW s, NEW v, NEW o
  PROVE  UsualPlan(HandleUserAction(s, v, o))
<1>1. UsualPlan(HandleSupply(s, v, o))
  BY UsualTuples, UsualStatements DEF HandleSupply
<1>2. UsualPlan(HandlePledge(s, v, o))
  BY UsualTuples, UsualStatements DEF HandlePledge
<1>3. UsualPlan(HandleRedeem(s, v, o))
  BY UsualTuples, UsualStatements DEF HandleRedeem
<1>4. UsualPlan(HandleUnpledge(s, v, o))
  BY UsualTuples, UsualStatements DEF HandleUnpledge
<1>5. UsualPlan(HandleQuickPledge(s, v, o))
  BY UsualTuples, UsualStatements DEF HandleQuickPledge
<1>6. UsualPlan(HandleQuickRedeem(s, v, o))
  BY UsualTuples, UsualStatements DEF HandleQuickRedeem
<1>7. UsualPlan(HandleBorrow(s, v, o))
  BY UsualTuples, UsualStatements DEF HandleBorrow
<1>8. UsualPlan(HandleRepay(s, v, o))
  BY UsualTuples, UsualStatements DEF HandleRepay
<1>9. UsualPlan(HandleQuickBorrow(s, v, o))
  BY UsualTuples, UsualStatements DEF HandleQuickBorrow
<1>10. UsualPlan(HandleLiquidation(s, v, o))
  BY UsualTuples, UsualStatements DEF HandleLiquidation
<1> QED BY <1>1, <1>2, <1>3, <1>4, <1>5, <1>6, <1>7, <1>8, <1>9, <1>10, UsualTuples, UsualStatements
        DEF HandleUserAction

\* When the money has been sent, or sent back, a retry makes the same plan.
LEMMA PaidGoesOn ==
  ASSUME NEW t, TablesShape(t), NEW q, UsualPlan(q), NEW k, Cut(t, q, k), Payment(q[k])
  PROVE  GoesOn(q, k, Apply(t, q[k]), q)
<1> DEFINE t1 == Apply(t, q[k])
<1>1. k \in 1..Len(q) /\ Issued(q[k]) /\ Len(q) \in Nat
  BY DEF Cut, Issued, UsualPlan
<1>2. Spent(t1, q[k]) /\ \A x : Payment(x) /\ Spent(t, x) => Spent(t1, x)
  BY <1>1, PaymentSpent
<1> HIDE DEF t1
<1>3. ASSUME NEW j \in 1..Len(q), j < k PROVE Spent(t1, q[j])
  <2>1. Spent(t, q[j]) /\ Usual(q[j])
    BY <1>1, <1>3 DEF Cut, UsualPlan
  <2>2. Payment(q[j])
    BY <2>1 DEF Usual, Spent
  <2> QED BY <1>2, <2>1, <2>2
<1>4. \A j \in 1..Len(q) : IF j > k THEN q[j] = q[j] ELSE Spent(t1, q[j])
  BY <1>1, <1>2, <1>3
<1>5. GoesOn(q, k, t1, q)
  BY <1>1, <1>4, GoesStraight
<1> QED BY <1>5 DEF t1

\* After a payment the same plan is made again, with the payment spent.
LEMMA PaidUser ==
  ASSUME NEW t, TablesShape(t), NEW v, NEW o, NEW k, Cut(t, HandleUserAction(t, v, o), k),
         Payment(HandleUserAction(t, v, o)[k])
  PROVE  LET q == HandleUserAction(t, v, o)
             t1 == Apply(t, q[k])
         IN  GoesOn(q, k, t1, HandleUserAction(t1, v, o))
<1> DEFINE q == HandleUserAction(t, v, o)
           t1 == Apply(t, q[k])
<1>1. GoesOn(q, k, t1, q)
  BY UserUsual, PaidGoesOn
<1>2. Issued(q[k])
  BY DEF Cut, Issued
<1>3. Untouched(t1, t) /\ TablesShape(t1)
  BY <1>2, PaymentSpent
<1>4. HandleUserAction(t1, v, o) = q
  BY <1>3, UserAlike
<1> QED BY <1>1, <1>4

\* What the handlers do to a market keeps its status, its parameters and its row.
Kin(n, m) == n.exists = m.exists /\ n.closed = m.closed /\ n.p = m.p

\* So does every change the handlers make to a loaded market,
LEMMA MarketsKin ==
  ASSUME NEW m, {"exists", "closed", "p"} \subseteq DOMAIN m
  PROVE  /\ Kin(AfterFind(m), m) /\ DOMAIN AfterFind(m) = DOMAIN m
         /\ \A t : Kin(AccrueInterest(m, t), m) /\ DOMAIN AccrueInterest(m, t) = DOMAIN m
         /\ \A n, x : /\ Kin(Minted(m, n, x), m) /\ DOMAIN Minted(m, n, x) = DOMAIN m
                      /\ Kin(Redeemed(m, n, x), m) /\ DOMAIN Redeemed(m, n, x) = DOMAIN m
         /\ \A x, t : Kin(LentMarket(m, x, t), m)
         /\ \A x, v, t : Kin(RepaidMarket(m, x, v, t), m)
<1>1. ASSUME NEW n, {"exists", "closed", "p"} \subseteq DOMAIN n, NEW t
      PROVE  Kin(AccrueInterest(n, t), n) /\ DOMAIN AccrueInterest(n, t) = DOMAIN n
  BY <1>1 DEF AccrueInterest, Kin
<1>2. Kin(AfterFind(m), m) /\ DOMAIN AfterFind(m) = DOMAIN m
  BY DEF AfterFind, Kin
<1>3. ASSUME NEW n, NEW x
      PROVE  /\ Kin(Minted(m, n, x), m) /\ DOMAIN Minted(m, n, x) = DOMAIN m
             /\ Kin(Redeemed(m, n, x), m) /\ DOMAIN Redeemed(m, n, x) = DOMAIN m
  BY DEF Minted, Redeemed, Kin
<1>4. ASSUME NEW x, NEW t PROVE Kin(LentMarket(m, x, t), m)
  <2> DEFINE n == [m EXCEPT !.cash = @ - x, !.borrows = @ + x]
  <2>1. Kin(n, m) /\ DOMAIN n = DOMAIN m
    BY DEF Kin
  <2> HIDE DEF n
  <2>2. Kin(AccrueInterest(n, t), n)
    BY <1>1, <2>1
  <2>3. LentMarket(m, x, t) = AccrueInterest(n, t)
    BY DEF LentMarket, n
  <2> QED BY <2>1, <2>2, <2>3 DEF Kin
<1>5. ASSUME NEW x, NEW v, NEW t PROVE Kin(RepaidMarket(m, x, v, t), m)
  <2> DEFINE n == [m EXCEPT !.cash = @ + x, !.borrows = IF v > 0 /\ @ < x THEN 0 ELSE @ - x]
  <2>1. Kin(n, m) /\ DOMAIN n = DOMAIN m
    BY DEF Kin
  <2> HIDE DEF n
  <2>2. Kin(AccrueInterest(n, t), n)
    BY <1>1, <2>1
  <2>3. RepaidMarket(m, x, v, t) = AccrueInterest(n, t)
    BY DEF RepaidMarket, n
  <2> QED BY <2>1, <2>2, <2>3 DEF Kin
<1> QED BY <1>1, <1>2, <1>3, <1>4, <1>5

\* also when it is made to a market as it was read.
LEMMA LoadedKin ==
  ASSUME NEW s, TablesShape(s), NEW a \in Assets, NEW o
  PROVE  LET m == Loaded(s, a, o)
         IN  /\ Kin(FindMarket(s, a), s.market[a]) /\ Kin(m, s.market[a])
             /\ \A n, x : Kin(Minted(m, n, x), s.market[a]) /\ Kin(Redeemed(m, n, x), s.market[a])
             /\ \A t : Kin(AccrueInterest(m, t), s.market[a])
             /\ \A n, x, t : Kin(AccrueInterest(Minted(m, n, x), t), s.market[a])
             /\ \A x, t : Kin(LentMarket(m, x, t), s.market[a])
             /\ \A x, v, t : Kin(RepaidMarket(m, x, v, t), s.market[a])
<1> DEFINE r == s.market[a]
           f == FindMarket(s, a)
           m == Loaded(s, a, o)
<1>1. {"exists", "closed", "p"} \subseteq DOMAIN r
  BY DEF TablesShape
<1>2. Kin(f, r) /\ DOMAIN f = DOMAIN r
  BY <1>1, MarketsKin DEF FindMarket
<1> HIDE DEF f
<1>3. Kin(AccrueInterest(f, o.time), f) /\ DOMAIN AccrueInterest(f, o.time) = DOMAIN f
  BY <1>1, <1>2, MarketsKin
<1>4. Kin(m, r) /\ {"exists", "closed", "p"} \subseteq DOMAIN m
  BY <1>1, <1>2, <1>3 DEF Kin, Loaded, f
<1> HIDE DEF m, r
<1>5. \A n, x : Kin(Minted(m, n, x), m) /\ Kin(Redeemed(m, n, x), m) /\ DOMAIN Minted(m, n, x) = DOMAIN m
  BY <1>4, MarketsKin
<1>6. \A t : Kin(AccrueInterest(m, t), m)
  BY <1>4, MarketsKin
<1>7. \A n, x, t : Kin(AccrueInterest(Minted(m, n, x), t), Minted(m, n, x))
  BY <1>4, <1>5, MarketsKin
<1>8. /\ \A x, t : Kin(LentMarket(m, x, t), m)
      /\ \A x, v, t : Kin(RepaidMarket(m, x, v, t), m)
  BY <1>4, MarketsKin
<1>9. \A n : Kin(n, m) => Kin(n, r)
  BY <1>4 DEF Kin
<1>10. \A n, x, t : Kin(AccrueInterest(Minted(m, n, x), t), m)
  BY <1>5, <1>7 DEF Kin
<1> QED BY <1>2, <1>4, <1>5, <1>6, <1>8, <1>9, <1>10 DEF m, r, f

(***************************************************************************)
(* What a user's action goes on with after a statement that is no payment  *)
(***************************************************************************)

\* The next statement of plan q, the k-th, is a write to a table.
Writes(t, q, k) == Cut(t, q, k) /\ ~Payment(q[k])

\* It is none of a plan that only sends the money back, or stops.
LEMMA NoWrites ==
  ASSUME NEW t, NEW k
  PROVE  /\ ~Writes(t, <<>>, k)
         /\ \A a : Payment(a) => ~Writes(t, <<a>>, k)
         /\ \A a, b : Payment(b) /\ Writes(t, <<a, b>>, k) => k = 1 /\ Issued(a)
         /\ \A a, b, c : Payment(c) /\ Writes(t, <<a, b, c>>, k) => k # 3
         /\ ~Writes(t, <<Halt>>, k)
         /\ \A a : Writes(t, <<a, Halt>>, k) => k = 1 /\ Issued(a)
         /\ \A a, b : Writes(t, <<a, b, Halt>>, k) => k # 3
<1>1. ~Writes(t, <<>>, k)
  BY CutShort DEF Writes
<1>2. ASSUME NEW a, Payment(a), Writes(t, <<a>>, k) PROVE FALSE
  <2>1. k = 1 /\ ~Payment(<<a>>[k])
    BY <1>2, CutShort DEF Writes
  <2> QED BY <1>2, <2>1
<1>3. ASSUME NEW a, NEW b, Payment(b), Writes(t, <<a, b>>, k) PROVE k = 1 /\ Issued(a)
  <2>1. ((k = 1 /\ Issued(a)) \/ k = 2) /\ ~Payment(<<a, b>>[k])
    BY <1>3, CutShort DEF Writes
  <2> QED BY <1>3, <2>1
<1>4. ASSUME NEW a, NEW b, NEW c, Payment(c), Writes(t, <<a, b, c>>, k), k = 3 PROVE FALSE
  <2>1. ~Payment(<<a, b, c>>[3])
    BY <1>4 DEF Writes
  <2> QED BY <1>4, <2>1
<1>5. ~Issued(Halt)
  BY DEF Issued, Halt
<1>6. ~Writes(t, <<Halt>>, k)
  BY <1>5, CutShort DEF Writes
<1>7. ASSUME NEW a, Writes(t, <<a, Halt>>, k) PROVE k = 1 /\ Issued(a)
  BY <1>5, <1>7, CutShort DEF Writes
<1>8. ASSUME NEW a, NEW b, Writes(t, <<a, b, Halt>>, k), k = 3 PROVE FALSE
  <2>1. Issued(<<a, b, Halt>>[3])
    BY <1>8 DEF Writes, Cut, Issued
  <2> QED BY <1>5, <2>1
<1> QED BY <1>1, <1>2, <1>3, <1>4, <1>6, <1>7, <1>8

\* supply.go
LEMMA SupplyGoesOn ==
  ASSUME NEW t, TablesShape(t), NEW v, NEW o, Numbered(o), o.cur.asset \in Assets,
         NEW k, Writes(t, HandleSupply(t, v, o), k)
  PROVE  LET q == HandleSupply(t, v, o)
             t1 == Apply(t, q[k])
         IN  GoesOn(q, k, t1, HandleSupply(t1, v, o))
<1> DEFINE a == o.cur.asset
           m == Loaded(t, a, o)
           ctokens == Trunc8(Div16(o.amount, CurExchangeRate(m)))
           w1 == Record(t, o, Tx(o, ctokens, 0))
           w2 == Transfer(o, "mint", CToken(a), ctokens)
           w3 == UpdateMarket(t, a, Minted(m, ctokens, o.amount), o.id)
           q == HandleSupply(t, v, o)
           t1 == Apply(t, q[k])
<1>1. /\ HasMarket(t, o.cur) /\ ~Outdated(t, a, o) /\ ~m.closed
      /\ ~(CurExchangeRate(m) = 0) /\ ~(ctokens <= 0) /\ q = <<w1, w2, w3>>
  BY NoWrites, Payments DEF HandleSupply
<1>a. Payment(w2) /\ a \in Assets
  BY Payments
<1> HIDE DEF a, w1, w2, w3, q
<1>2. \/ k = 1 /\ Issued(w1)
      \/ k = 3 /\ Spent(t, w1) /\ Spent(t, w2) /\ Issued(w3)
  <2>1. Cut(t, <<w1, w2, w3>>, k) /\ ~Payment(<<w1, w2, w3>>[k])
    BY <1>1 DEF Writes, q
  <2>2. k # 2
    BY <1>a, <2>1
  <2> QED BY <2>1, <2>2, CutShort
<1>3. CASE k = 1
  <2>1. t1 = Apply(t, w1) /\ w1.t # "nop"
    BY <1>1, <1>2, <1>3 DEF Issued
  <2>2. HasTx(t1, o.id) /\ t1.market = t.market /\ t1.ver = t.ver
    BY <2>1, AfterRecord DEF Tx, w1
  <2> HIDE DEF t1
  <2>3. /\ HasMarket(t1, o.cur) /\ ~Outdated(t1, a, o) /\ Loaded(t1, a, o) = m
        /\ UpdateMarket(t1, a, Minted(m, ctokens, o.amount), o.id) = w3
        /\ Record(t1, o, Tx(o, ctokens, 0)) = Nop
    BY <1>1, <2>2, ReadAlike, SpentRigid DEF w3
  <2>4. HandleSupply(t1, v, o) = <<Nop, w2, w3>>
    BY <1>1, <2>3 DEF HandleSupply, w2, a
  <2>5. GoesOn(<<w1, w2, w3>>, 1, t1, <<Nop, w2, w3>>)
    BY GoesShort, NopSpent
  <2> QED BY <1>1, <1>3, <2>4, <2>5 DEF t1, q
<1>4. CASE k = 3
  <2> DEFINE x == Minted(m, ctokens, o.amount)
  <2>1. t1 = Apply(t, w3) /\ w3.t # "nop" /\ w3 = UpdateMarket(t, a, x, o.id)
    BY <1>1, <1>2, <1>4 DEF Issued, w3
  <2> HIDE DEF t1, x
  <2>2. t1.market[a] = x /\ Outdated(t1, a, o)
    <3>1. MarketWritten(t1, t, a, x, o)
      BY <1>a, <2>1, AfterMarket
    <3> QED BY <3>1 DEF MarketWritten
  <2>3. HasMarket(t1, o.cur)
    BY <1>1, <1>a, <2>2, LoadedKin DEF HasMarket, Kin, x, a
  <2>4. HandleSupply(t1, v, o) = <<>>
    BY <2>2, <2>3 DEF HandleSupply, a
  <2>5. GoesOn(<<w1, w2, w3>>, 3, t1, <<>>)
    BY GoesNowhere
  <2> QED BY <1>1, <1>4, <2>4, <2>5 DEF t1, q
<1> QED BY <1>2, <1>3, <1>4

\* redeem.go
LEMMA RedeemGoesOn ==
  ASSUME NEW t, TablesShape(t), NEW v, NEW o, Numbered(o), o.cur.asset \in Assets,
         NEW k, Writes(t, HandleRedeem(t, v, o), k)
  PROVE  LET q == HandleRedeem(t, v, o)
             t1 == Apply(t, q[k])
         IN  GoesOn(q, k, t1, HandleRedeem(t1, v, o))
<1> DEFINE a == o.cur.asset
           m == Loaded(t, a, o)
           amount == Trunc8(Mul16(CurExchangeRate(m), o.amount))
           w1 == Record(t, o, Tx(o, o.amount, 0))
           w2 == Transfer(o, "redeem", Currency(a), amount)
           w3 == UpdateMarket(t, a, Redeemed(m, o.amount, amount), o.id)
           q == HandleRedeem(t, v, o)
           t1 == Apply(t, q[k])
<1>1. /\ HasCToken(t, o.cur) /\ ~Outdated(t, a, o) /\ ~m.closed
      /\ q = <<w1, w2, w3>>
  BY NoWrites, Payments DEF HandleRedeem
<1>a. Payment(w2) /\ a \in Assets
  BY Payments
<1> HIDE DEF a, w1, w2, w3, q
<1>2. \/ k = 1 /\ Issued(w1)
      \/ k = 3 /\ Spent(t, w1) /\ Spent(t, w2) /\ Issued(w3)
  <2>1. Cut(t, <<w1, w2, w3>>, k) /\ ~Payment(<<w1, w2, w3>>[k])
    BY <1>1 DEF Writes, q
  <2>2. k # 2
    BY <1>a, <2>1
  <2> QED BY <2>1, <2>2, CutShort
<1>3. CASE k = 1
  <2>1. t1 = Apply(t, w1) /\ w1.t # "nop"
    BY <1>1, <1>2, <1>3 DEF Issued
  <2>2. HasTx(t1, o.id) /\ t1.market = t.market /\ t1.ver = t.ver
    BY <2>1, AfterRecord DEF Tx, w1
  <2> HIDE DEF t1
  <2>3. /\ HasCToken(t1, o.cur) /\ ~Outdated(t1, a, o) /\ Loaded(t1, a, o) = m
        /\ UpdateMarket(t1, a, Redeemed(m, o.amount, amount), o.id) = w3
        /\ Record(t1, o, Tx(o, o.amount, 0)) = Nop /\ ~First(t1, o)
    BY <1>1, <2>2, ReadAlike, SpentRigid DEF w3, First
  <2>4. HandleRedeem(t1, v, o) = <<Nop, w2, w3>>
    BY <1>1, <2>3 DEF HandleRedeem, w2, a
  <2>5. GoesOn(<<w1, w2, w3>>, 1, t1, <<Nop, w2, w3>>)
    BY GoesShort, NopSpent
  <2> QED BY <1>1, <1>3, <2>4, <2>5 DEF t1, q
<1>4. CASE k = 3
  <2> DEFINE x == Redeemed(m, o.amount, amount)
  <2>1. t1 = Apply(t, w3) /\ w3.t # "nop" /\ w3 = UpdateMarket(t, a, x, o.id)
    BY <1>1, <1>2, <1>4 DEF Issued, w3
  <2> HIDE DEF t1, x
  <2>2. t1.market[a] = x /\ Outdated(t1, a, o)
    <3>1. MarketWritten(t1, t, a, x, o)
      BY <1>a, <2>1, AfterMarket
    <3> QED BY <3>1 DEF MarketWritten
  <2>3. HasCToken(t1, o.cur)
    BY <1>1, <1>a, <2>2, LoadedKin DEF HasCToken, Kin, x, a
  <2>4. HandleRedeem(t1, v, o) = <<>>
    BY <2>2, <2>3 DEF HandleRedeem, a
  <2>5. GoesOn(<<w1, w2, w3>>, 3, t1, <<>>)
    BY GoesNowhere
  <2> QED BY <1>1, <1>4, <2>4, <2>5 DEF t1, q
<1> QED BY <1>2, <1>3, <1>4

\* pledge.go
LEMMA PledgeGoesOn ==
  ASSUME NEW t, TablesShape(t), NEW v, NEW o, Numbered(o), o.sender \in Users, o.cur.asset \in Assets,
         NEW k, Writes(t, HandlePledge(t, v, o), k)
  PROVE  LET q == HandlePledge(t, v, o)
             t1 == Apply(t, q[k])
         IN  GoesOn(q, k, t1, HandlePledge(t1, v, o))
<1> DEFINE u == o.sender
           a == o.cur.asset
           m == Loaded(t, a, o)
           create == GetOrCreateSupply(t, u, a)
           z == Apply(t, create)
           n == o.amount
           tx == Tx(o, o.amount, 0)
           row == Pledged(z.supply[<<u, a>>], n)
           w2 == Record(t, o, tx)
           w3 == UpdateSupply(t, u, a, row, o.id)
           w4 == UpdateMarket(t, a, m, o.id)
           denied == First(t, o) /\ ~(n <= m.ctokens /\ m.p.cf > 0)
           capped == First(t, o) /\ ~PledgeFits(z, a, m, n)
           Body(c) == IF denied THEN <<c, Reject(v, o, "pledge-denied", TRUE)>>
                      ELSE IF capped THEN <<c, Raise(o, "max-pledge-exceeded", TRUE)>>
                      ELSE <<c, w2, w3, w4>>
           q == HandlePledge(t, v, o)
           t1 == Apply(t, q[k])
<1>1. HasCToken(t, o.cur) /\ ~Outdated(t, a, o) /\ ~m.closed /\ q = Body(create)
  BY NoWrites, Payments DEF HandlePledge
<1>2. a \in Assets /\ u \in Users /\ Payment(Reject(v, o, "pledge-denied", TRUE))
      /\ Payment(Raise(o, "max-pledge-exceeded", TRUE)) /\ tx.id = o.id
  BY Payments DEF Tx
<1> HIDE DEF a, u, create, row, tx, w2, w3, w4, q
<1>3. \/ k = 1 /\ Issued(create)
      \/ /\ q = <<create, w2, w3, w4>> /\ Spent(t, create)
         /\ \/ k = 2 /\ Issued(w2)
            \/ k = 3 /\ Spent(t, w2) /\ Issued(w3)
            \/ k = 4 /\ Spent(t, w2) /\ Spent(t, w3) /\ Issued(w4)
  <2>1. Writes(t, q, k) /\ Cut(t, q, k)
    BY DEF Writes, q
  <2> HIDE DEF denied, capped
  <2>2. CASE denied
    BY <1>1, <1>2, <2>1, <2>2, NoWrites
  <2>3. CASE ~denied /\ capped
    BY <1>1, <1>2, <2>1, <2>3, NoWrites
  <2>4. CASE ~denied /\ ~capped
    BY <1>1, <2>1, <2>4, Cut4
  <2> QED BY <2>2, <2>3, <2>4
<1>4. CASE k = 1
  <2>1. t1 = z /\ create.t # "nop" /\ create = GetOrCreateSupply(t, u, a)
    BY <1>1, <1>3, <1>4 DEF Issued, create
  <2>2. SupplyMade(t1, t, u, a)
    BY <1>2, <2>1, AfterCreate
  <2> HIDE DEF t1, z
  <2>3. /\ t1.market = t.market /\ t1.tx = t.tx /\ t1.ver = t.ver /\ GetOrCreateSupply(t1, u, a) = Nop
    BY <2>2 DEF SupplyMade
  <2>4. /\ HasCToken(t1, o.cur) /\ ~Outdated(t1, a, o) /\ Loaded(t1, a, o) = m
        /\ UpdateMarket(t1, a, m, o.id) = w4 /\ UpdateSupply(t1, u, a, row, o.id) = w3
        /\ Record(t1, o, tx) = w2 /\ (First(t1, o) <=> First(t, o)) /\ Apply(t1, Nop) = z
    BY <1>1, <2>1, <2>3, ReadAlike, NopSpent DEF w2, w3, w4
  <2>5. HandlePledge(t1, v, o) = Body(Nop)
    BY <1>1, <2>3, <2>4 DEF HandlePledge, u, a, tx, row
  <2>6. /\ \A x : GoesOn(<<create, x>>, 1, t1, <<Nop, x>>)
        /\ GoesOn(<<create, w2, w3, w4>>, 1, t1, <<Nop, w2, w3, w4>>)
    BY GoesShort, Goes4, NopSpent
  <2>7. GoesOn(Body(create), 1, t1, Body(Nop))
    BY <2>6
  <2> QED BY <1>1, <1>4, <2>5, <2>7 DEF t1, q
<1>5. ASSUME k # 1 PROVE create = Nop /\ z = t
  BY <1>3, <1>5, SpentRigid, NopSpent DEF create
<1>6. CASE k = 2
  <2>1. t1 = Apply(t, w2) /\ w2.t # "nop" /\ q = <<create, w2, w3, w4>>
    BY <1>3, <1>6 DEF Issued
  <2>2. HasTx(t1, o.id) /\ t1.market = t.market /\ t1.supply = t.supply /\ t1.ver = t.ver
    BY <1>2, <2>1, AfterRecord DEF w2
  <2> HIDE DEF t1
  <2>3. /\ HasCToken(t1, o.cur) /\ ~Outdated(t1, a, o) /\ Loaded(t1, a, o) = m
        /\ UpdateMarket(t1, a, m, o.id) = w4 /\ UpdateSupply(t1, u, a, row, o.id) = w3
        /\ Record(t1, o, tx) = Nop /\ ~First(t1, o) /\ GetOrCreateSupply(t1, u, a) = Nop
        /\ Apply(t1, Nop) = t1
    BY <1>1, <1>5, <1>6, <2>2, ReadAlike, SpentRigid, NopSpent DEF w3, w4, First, create
  <2>4. HandlePledge(t1, v, o) = <<Nop, Nop, w3, w4>>
    BY <1>1, <1>5, <1>6, <2>2, <2>3 DEF HandlePledge, u, a, tx, row
  <2>5. GoesOn(<<create, w2, w3, w4>>, 2, t1, <<Nop, Nop, w3, w4>>)
    BY Goes4, NopSpent
  <2> QED BY <2>1, <1>6, <2>4, <2>5 DEF t1, q
<1>7. CASE k = 3
  <2>1. t1 = Apply(t, w3) /\ w3.t # "nop" /\ q = <<create, w2, w3, w4>> /\ w3 = UpdateSupply(t, u, a, row, o.id)
    BY <1>3, <1>7 DEF Issued, w3
  <2>2. HasTx(t, o.id)
    BY <1>3, <1>7, SpentRigid DEF w2
  <2> HIDE DEF t1
  <2>3. SupplyWritten(t1, t, u, a, row, o)
    BY <1>2, <2>1, AfterSupply
  <2>4. /\ t1.market = t.market /\ t1.tx = t.tx /\ MarketsSince(t1, t) /\ t1.supply[<<u, a>>] = row
        /\ \A y : UpdateSupply(t1, u, a, y, o.id) = Nop
    BY <2>3 DEF SupplyWritten
  <2>5. GetOrCreateSupply(t1, u, a) = Nop
    <3>1. SupplyCols(t.supply[<<u, a>>])
      BY <1>2, ColsRead DEF Positions
    <3>2. row.exists = TRUE
      BY <1>5, <1>7, <3>1 DEF row, Pledged, SupplyCols
    <3> QED BY <2>4, <3>2 DEF GetOrCreateSupply
  <2>6. /\ HasCToken(t1, o.cur) /\ ~Outdated(t1, a, o) /\ Loaded(t1, a, o) = m
        /\ UpdateMarket(t1, a, m, o.id) = w4
    <3>1. t1.market[a] = t.market[a] /\ t1.ver[<<"market", a>>] = t.ver[<<"market", a>>] /\ o.cur.asset = a
      BY <1>2, <2>4 DEF MarketsSince, a
    <3> QED BY <1>1, <3>1, MarketAlike DEF w4
  <2>7. Record(t1, o, tx) = Nop /\ ~First(t1, o)
    BY <2>2, <2>4, SpentRigid DEF First, HasTx
  <2>8. HandlePledge(t1, v, o) = <<Nop, Nop, Nop, w4>>
    BY <1>1, <2>4, <2>5, <2>6, <2>7 DEF HandlePledge, u, a, tx
  <2>9. GoesOn(<<create, w2, w3, w4>>, 3, t1, <<Nop, Nop, Nop, w4>>)
    BY Goes4, NopSpent
  <2> QED BY <2>1, <1>7, <2>8, <2>9 DEF t1, q
<1>8. CASE k = 4
  <2>1. t1 = Apply(t, w4) /\ w4.t # "nop" /\ w4 = UpdateMarket(t, a, m, o.id) /\ q = <<create, w2, w3, w4>>
    BY <1>3, <1>8 DEF Issued, w4
  <2> HIDE DEF t1
  <2>2. t1.market[a] = m /\ Outdated(t1, a, o)
    <3> HIDE DEF m
    <3>1. MarketWritten(t1, t, a, m, o)
      BY <1>2, <2>1, AfterMarket
    <3> QED BY <3>1 DEF MarketWritten
  <2>3. HasCToken(t1, o.cur)
    BY <1>1, <1>2, <2>2, LoadedKin DEF HasCToken, Kin, a
  <2>4. HandlePledge(t1, v, o) = <<>>
    BY <2>2, <2>3 DEF HandlePledge, a
  <2>5. GoesOn(<<create, w2, w3, w4>>, 4, t1, <<>>)
    BY GoesNowhere
  <2> QED BY <2>1, <1>8, <2>4, <2>5 DEF t1, q
<1> QED BY <1>3, <1>4, <1>6, <1>7, <1>8

\* quick_pledge.go
LEMMA QuickPledgeGoesOn ==
  ASSUME NEW t, TablesShape(t), NEW v, NEW o, Numbered(o), o.sender \in Users, o.cur.asset \in Assets,
         NEW k, Writes(t, HandleQuickPledge(t, v, o), k)
  PROVE  LET q == HandleQuickPledge(t, v, o)
             t1 == Apply(t, q[k])
         IN  GoesOn(q, k, t1, HandleQuickPledge(t1, v, o))
<1> DEFINE u == o.sender
           a == o.cur.asset
           m == Loaded(t, a, o)
           create == GetOrCreateSupply(t, u, a)
           z == Apply(t, create)
           n == Trunc8(Div16(o.amount, CurExchangeRate(m)))
           tx == Tx(o, n, 0)
           new == Minted(m, n, o.amount)
           row == Pledged(z.supply[<<u, a>>], n)
           w2 == Record(t, o, tx)
           w3 == UpdateSupply(t, u, a, row, o.id)
           w4 == UpdateMarket(t, a, new, o.id)
           free == CurExchangeRate(m) = 0
           denied == n <= 0
           capped == First(t, o) /\ ~PledgeFits(z, a, m, n)
           Body(c) == IF free THEN <<c, Halt>>
                      ELSE IF denied THEN <<c, Reject(v, o, "ctoken-too-small", TRUE)>>
                      ELSE IF capped THEN <<c, Raise(o, "max-pledge-exceeded", TRUE)>>
                      ELSE <<c, w2, w3, w4>>
           q == HandleQuickPledge(t, v, o)
           t1 == Apply(t, q[k])
<1>1. HasMarket(t, o.cur) /\ ~Outdated(t, a, o) /\ ~m.closed /\ ~(m.p.cf <= 0)
      /\ q = Body(create)
  BY NoWrites, Payments DEF HandleQuickPledge
<1>2. a \in Assets /\ u \in Users /\ Payment(Reject(v, o, "ctoken-too-small", TRUE))
      /\ Payment(Raise(o, "max-pledge-exceeded", TRUE)) /\ tx.id = o.id
  BY Payments DEF Tx
<1> HIDE DEF a, u, create, row, tx, w2, w3, w4, q
<1>3. \/ k = 1 /\ Issued(create)
      \/ /\ q = <<create, w2, w3, w4>> /\ Spent(t, create) /\ ~free /\ ~denied
         /\ \/ k = 2 /\ Issued(w2)
            \/ k = 3 /\ Spent(t, w2) /\ Issued(w3)
            \/ k = 4 /\ Spent(t, w2) /\ Spent(t, w3) /\ Issued(w4)
  <2>1. Writes(t, q, k) /\ Cut(t, q, k)
    BY DEF Writes, q
  <2> HIDE DEF free, denied, capped
  <2>0. CASE free
    BY <1>1, <2>0, <2>1, NoWrites
  <2>2. CASE ~free /\ denied
    BY <1>1, <1>2, <2>1, <2>2, NoWrites
  <2>3. CASE ~free /\ ~denied /\ capped
    BY <1>1, <1>2, <2>1, <2>3, NoWrites
  <2>4. CASE ~free /\ ~denied /\ ~capped
    BY <1>1, <2>1, <2>4, Cut4
  <2> QED BY <2>0, <2>2, <2>3, <2>4
<1>4. CASE k = 1
  <2>1. t1 = z /\ create.t # "nop" /\ create = GetOrCreateSupply(t, u, a)
    BY <1>1, <1>3, <1>4 DEF Issued, create
  <2>2. SupplyMade(t1, t, u, a)
    BY <1>2, <2>1, AfterCreate
  <2> HIDE DEF t1, z
  <2>3. /\ t1.market = t.market /\ t1.tx = t.tx /\ t1.ver = t.ver /\ GetOrCreateSupply(t1, u, a) = Nop
    BY <2>2 DEF SupplyMade
  <2>4. /\ HasMarket(t1, o.cur) /\ ~Outdated(t1, a, o) /\ Loaded(t1, a, o) = m
        /\ UpdateMarket(t1, a, new, o.id) = w4 /\ UpdateSupply(t1, u, a, row, o.id) = w3
        /\ Record(t1, o, tx) = w2 /\ (First(t1, o) <=> First(t, o)) /\ Apply(t1, Nop) = z
    BY <1>1, <2>1, <2>3, ReadAlike, NopSpent DEF w2, w3, w4
  <2>5. HandleQuickPledge(t1, v, o) = Body(Nop)
    BY <1>1, <2>3, <2>4 DEF HandleQuickPledge, u, a, tx, row
  <2>6. /\ \A x : GoesOn(<<create, x>>, 1, t1, <<Nop, x>>)
        /\ GoesOn(<<create, w2, w3, w4>>, 1, t1, <<Nop, w2, w3, w4>>)
    BY GoesShort, Goes4, NopSpent
  <2>7. GoesOn(Body(create), 1, t1, Body(Nop))
    BY <2>6
  <2> QED BY <1>1, <1>4, <2>5, <2>7 DEF t1, q
<1>5. ASSUME k # 1 PROVE create = Nop /\ z = t
  BY <1>3, <1>5, SpentRigid, NopSpent DEF create
<1>6. CASE k = 2
  <2>1. t1 = Apply(t, w2) /\ w2.t # "nop" /\ q = <<create, w2, w3, w4>>
    BY <1>3, <1>6 DEF Issued
  <2>2. HasTx(t1, o.id) /\ t1.market = t.market /\ t1.supply = t.supply /\ t1.ver = t.ver
    BY <1>2, <2>1, AfterRecord DEF w2
  <2> HIDE DEF t1
  <2>3. /\ HasMarket(t1, o.cur) /\ ~Outdated(t1, a, o) /\ Loaded(t1, a, o) = m
        /\ UpdateMarket(t1, a, new, o.id) = w4 /\ UpdateSupply(t1, u, a, row, o.id) = w3
        /\ Record(t1, o, tx) = Nop /\ ~First(t1, o) /\ GetOrCreateSupply(t1, u, a) = Nop
        /\ Apply(t1, Nop) = t1
    BY <1>1, <1>5, <1>6, <2>2, ReadAlike, SpentRigid, NopSpent DEF w3, w4, First, create
  <2>4. HandleQuickPledge(t1, v, o) = <<Nop, Nop, w3, w4>>
    BY <1>1, <1>3, <1>5, <1>6, <2>2, <2>3 DEF HandleQuickPledge, u, a, tx, row
  <2>5. GoesOn(<<create, w2, w3, w4>>, 2, t1, <<Nop, Nop, w3, w4>>)
    BY Goes4, NopSpent
  <2> QED BY <2>1, <1>6, <2>4, <2>5 DEF t1, q
<1>7. CASE k = 3
  <2>1. t1 = Apply(t, w3) /\ w3.t # "nop" /\ q = <<create, w2, w3, w4>> /\ w3 = UpdateSupply(t, u, a, row, o.id)
    BY <1>3, <1>7 DEF Issued, w3
  <2>2. HasTx(t, o.id)
    BY <1>3, <1>7, SpentRigid DEF w2
  <2> HIDE DEF t1
  <2>3. SupplyWritten(t1, t, u, a, row, o)
    BY <1>2, <2>1, AfterSupply
  <2>4. /\ t1.market = t.market /\ t1.tx = t.tx /\ MarketsSince(t1, t) /\ t1.supply[<<u, a>>] = row
        /\ \A y : UpdateSupply(t1, u, a, y, o.id) = Nop
    BY <2>3 DEF SupplyWritten
  <2>5. GetOrCreateSupply(t1, u, a) = Nop
    <3>1. SupplyCols(t.supply[<<u, a>>])
      BY <1>2, ColsRead DEF Positions
    <3>2. row.exists = TRUE
      BY <1>5, <1>7, <3>1 DEF row, Pledged, SupplyCols
    <3> QED BY <2>4, <3>2 DEF GetOrCreateSupply
  <2>6. /\ HasMarket(t1, o.cur) /\ ~Outdated(t1, a, o) /\ Loaded(t1, a, o) = m
        /\ UpdateMarket(t1, a, new, o.id) = w4
    <3>1. t1.market[a] = t.market[a] /\ t1.ver[<<"market", a>>] = t.ver[<<"market", a>>] /\ o.cur.asset = a
      BY <1>2, <2>4 DEF MarketsSince, a
    <3> QED BY <1>1, <3>1, MarketAlike DEF w4
  <2>7. Record(t1, o, tx) = Nop /\ ~First(t1, o)
    BY <2>2, <2>4, SpentRigid DEF First, HasTx
  <2>8. HandleQuickPledge(t1, v, o) = <<Nop, Nop, Nop, w4>>
    BY <1>1, <1>3, <1>7, <2>4, <2>5, <2>6, <2>7 DEF HandleQuickPledge, u, a, tx
  <2>9. GoesOn(<<create, w2, w3, w4>>, 3, t1, <<Nop, Nop, Nop, w4>>)
    BY Goes4, NopSpent
  <2> QED BY <2>1, <1>7, <2>8, <2>9 DEF t1, q
<1>8. CASE k = 4
  <2>1. t1 = Apply(t, w4) /\ w4.t # "nop" /\ w4 = UpdateMarket(t, a, new, o.id) /\ q = <<create, w2, w3, w4>>
    BY <1>3, <1>8 DEF Issued, w4
  <2> HIDE DEF t1
  <2>2. t1.market[a] = new /\ Outdated(t1, a, o)
    <3> HIDE DEF new
    <3>1. MarketWritten(t1, t, a, new, o)
      BY <1>2, <2>1, AfterMarket
    <3> QED BY <3>1 DEF MarketWritten
  <2>3. HasMarket(t1, o.cur)
    BY <1>1, <1>2, <2>2, LoadedKin DEF HasMarket, Kin, a
  <2>4. HandleQuickPledge(t1, v, o) = <<>>
    BY <2>2, <2>3 DEF HandleQuickPledge, a
  <2>5. GoesOn(<<create, w2, w3, w4>>, 4, t1, <<>>)
    BY GoesNowhere
  <2> QED BY <2>1, <1>8, <2>4, <2>5 DEF t1, q
<1> QED BY <1>3, <1>4, <1>6, <1>7, <1>8

\* unpledge.go
LEMMA UnpledgeGoesOn ==
  ASSUME NEW t, TablesShape(t), NEW v, NEW o, Numbered(o), o.sender \in Users, o.ok => o.asset \in Assets,
         NEW k, Writes(t, HandleUnpledge(t, v, o), k)
  PROVE  LET q == HandleUnpledge(t, v, o)
             t1 == Apply(t, q[k])
         IN  GoesOn(q, k, t1, HandleUnpledge(t1, v, o))
<1> DEFINE u == o.sender
           a == o.asset
           m == Loaded(t, a, o)
           amt == Trunc8(o.amt)
           tx == Tx(o, amt, 0)
           row == t.supply[<<u, a>>]
           less == Released(row, amt)
           w1 == Record(t, o, tx)
           w2 == UpdateSupply(t, u, a, less, o.id)
           w3 == Transfer(o, "unpledge", CToken(a), amt)
           w4 == UpdateMarket(t, a, m, o.id)
           q == HandleUnpledge(t, v, o)
           t1 == Apply(t, q[k])
<1>1. /\ o.ok /\ HasCToken(t, CToken(a)) /\ ~Outdated(t, a, o) /\ ~m.closed /\ row.exists
      /\ q = <<w1, w2, w3, w4>>
  BY NoWrites, Payments DEF HandleUnpledge
<1>2. a \in Assets /\ u \in Users /\ Payment(w3) /\ tx.id = o.id
  BY <1>1, Payments DEF Tx
<1> HIDE DEF a, u, less, tx, w1, w2, w3, w4, q
<1>3. \/ k = 1 /\ Issued(w1)
      \/ k = 2 /\ Spent(t, w1) /\ Issued(w2)
      \/ k = 4 /\ Spent(t, w1) /\ Spent(t, w2) /\ Spent(t, w3) /\ Issued(w4)
  <2>1. Cut(t, <<w1, w2, w3, w4>>, k) /\ ~Payment(<<w1, w2, w3, w4>>[k])
    BY <1>1 DEF Writes, q
  <2>2. k # 3
    BY <1>2, <2>1
  <2> QED BY <2>1, <2>2, Cut4
<1>4. CASE k = 1
  <2>1. t1 = Apply(t, w1) /\ w1.t # "nop"
    BY <1>1, <1>3, <1>4 DEF Issued
  <2>2. HasTx(t1, o.id) /\ t1.market = t.market /\ t1.supply = t.supply /\ t1.ver = t.ver
    BY <1>2, <2>1, AfterRecord DEF w1
  <2> HIDE DEF t1
  <2>3. /\ HasCToken(t1, CToken(a)) /\ ~Outdated(t1, a, o) /\ Loaded(t1, a, o) = m
        /\ UpdateMarket(t1, a, m, o.id) = w4 /\ UpdateSupply(t1, u, a, less, o.id) = w2
        /\ Record(t1, o, tx) = Nop /\ ~First(t1, o)
    <3>1. HasCToken(t1, CToken(a)) /\ ~Outdated(t1, a, o) /\ Loaded(t1, a, o) = m
      <4> HIDE DEF m
      <4> QED BY <1>1, <2>2, ReadAlike DEF m
    <3>2. UpdateMarket(t1, a, m, o.id) = w4 /\ UpdateSupply(t1, u, a, less, o.id) = w2
      <4> HIDE DEF m
      <4> QED BY <2>2, ReadAlike DEF w2, w4
    <3>3. Record(t1, o, tx) = Nop /\ ~First(t1, o)
      BY <2>2, SpentRigid DEF First
    <3> QED BY <3>1, <3>2, <3>3
  <2>4. HandleUnpledge(t1, v, o) = <<Nop, w2, w3, w4>>
    BY <1>1, <2>2, <2>3 DEF HandleUnpledge, u, a, tx, less, w3
  <2>5. GoesOn(<<w1, w2, w3, w4>>, 1, t1, <<Nop, w2, w3, w4>>)
    BY Goes4, NopSpent
  <2> QED BY <1>1, <1>4, <2>4, <2>5 DEF t1, q
<1>5. CASE k = 2
  <2>1. t1 = Apply(t, w2) /\ w2.t # "nop" /\ w2 = UpdateSupply(t, u, a, less, o.id)
    BY <1>1, <1>3, <1>5 DEF Issued, w2
  <2>2. HasTx(t, o.id)
    BY <1>3, <1>5, SpentRigid DEF w1
  <2> HIDE DEF t1
  <2>3. SupplyWritten(t1, t, u, a, less, o)
    BY <1>2, <2>1, AfterSupply
  <2>4. /\ t1.market = t.market /\ t1.tx = t.tx /\ MarketsSince(t1, t) /\ t1.supply[<<u, a>>] = less
        /\ \A y : UpdateSupply(t1, u, a, y, o.id) = Nop
    BY <2>3 DEF SupplyWritten
  <2>5. less.exists
    <3>1. SupplyCols(t.supply[<<u, a>>])
      BY <1>2, ColsRead DEF Positions
    <3> QED BY <1>1, <3>1 DEF less, Released, SupplyCols
  <2>6. /\ HasCToken(t1, CToken(a)) /\ ~Outdated(t1, a, o) /\ Loaded(t1, a, o) = m
        /\ UpdateMarket(t1, a, m, o.id) = w4
    <3>1. t1.market[a] = t.market[a] /\ t1.ver[<<"market", a>>] = t.ver[<<"market", a>>]
      BY <1>2, <2>4 DEF MarketsSince
    <3> QED BY <1>1, <3>1, MarketAlike DEF w4
  <2>7. Record(t1, o, tx) = Nop /\ ~First(t1, o)
    BY <2>2, <2>4, SpentRigid DEF First, HasTx
  <2>8. HandleUnpledge(t1, v, o) = <<Nop, Nop, w3, w4>>
    BY <1>1, <2>4, <2>5, <2>6, <2>7 DEF HandleUnpledge, u, a, tx, w3
  <2>9. GoesOn(<<w1, w2, w3, w4>>, 2, t1, <<Nop, Nop, w3, w4>>)
    BY Goes4, NopSpent
  <2> QED BY <1>1, <1>5, <2>8, <2>9 DEF t1, q
<1>6. CASE k = 4
  <2>1. t1 = Apply(t, w4) /\ w4.t # "nop" /\ w4 = UpdateMarket(t, a, m, o.id)
    BY <1>1, <1>3, <1>6 DEF Issued, w4
  <2> HIDE DEF t1
  <2>2. t1.market[a] = m /\ Outdated(t1, a, o)
    <3> HIDE DEF m
    <3>1. MarketWritten(t1, t, a, m, o)
      BY <1>2, <2>1, AfterMarket
    <3> QED BY <3>1 DEF MarketWritten
  <2>3. HasCToken(t1, CToken(a))
    BY <1>1, <1>2, <2>2, LoadedKin DEF HasCToken, CToken, Kin
  <2>4. HandleUnpledge(t1, v, o) = <<>>
    BY <1>1, <2>2, <2>3 DEF HandleUnpledge, a
  <2>5. GoesOn(<<w1, w2, w3, w4>>, 4, t1, <<>>)
    BY GoesNowhere
  <2> QED BY <1>1, <1>6, <2>4, <2>5 DEF t1, q
<1> QED BY <1>3, <1>4, <1>5, <1>6

\* quick_redeem.go
LEMMA QuickRedeemGoesOn ==
  ASSUME NEW t, TablesShape(t), NEW v, NEW o, Numbered(o), o.sender \in Users, o.ok => o.asset \in Assets,
         NEW k, Writes(t, HandleQuickRedeem(t, v, o), k)
  PROVE  LET q == HandleQuickRedeem(t, v, o)
             t1 == Apply(t, q[k])
         IN  GoesOn(q, k, t1, HandleQuickRedeem(t1, v, o))
<1> DEFINE u == o.sender
           a == o.asset
           m == Loaded(t, a, o)
           amt == Trunc8(o.amt)
           amount == Trunc8(Mul16(amt, CurExchangeRate(m)))
           new == Redeemed(m, amt, amount)
           tx == Tx(o, amt, 0)
           row == t.supply[<<u, a>>]
           less == Released(row, amt)
           w1 == Record(t, o, tx)
           w2 == UpdateSupply(t, u, a, less, o.id)
           w3 == Transfer(o, "quick-redeem", Currency(a), amount)
           w4 == UpdateMarket(t, a, new, o.id)
           q == HandleQuickRedeem(t, v, o)
           t1 == Apply(t, q[k])
<1>1. /\ o.ok /\ HasCToken(t, CToken(a)) /\ ~m.closed /\ row.exists
      /\ q = <<w1, w2, w3, w4>>
  BY NoWrites, Payments DEF HandleQuickRedeem
<1>2. a \in Assets /\ u \in Users /\ Payment(w3) /\ tx.id = o.id
  BY <1>1, Payments DEF Tx
<1> HIDE DEF a, u, less, tx, w1, w2, w3, w4, q
<1>3. \/ k = 1 /\ Issued(w1)
      \/ k = 2 /\ Spent(t, w1) /\ Issued(w2)
      \/ k = 4 /\ Spent(t, w1) /\ Spent(t, w2) /\ Spent(t, w3) /\ Issued(w4)
  <2>1. Cut(t, <<w1, w2, w3, w4>>, k) /\ ~Payment(<<w1, w2, w3, w4>>[k])
    BY <1>1 DEF Writes, q
  <2>2. k # 3
    BY <1>2, <2>1
  <2> QED BY <2>1, <2>2, Cut4
<1>4. CASE k = 1
  <2>1. t1 = Apply(t, w1) /\ w1.t # "nop"
    BY <1>1, <1>3, <1>4 DEF Issued
  <2>2. HasTx(t1, o.id) /\ t1.market = t.market /\ t1.supply = t.supply /\ t1.ver = t.ver
    BY <1>2, <2>1, AfterRecord DEF w1
  <2> HIDE DEF t1
  <2>3. /\ HasCToken(t1, CToken(a)) /\ Loaded(t1, a, o) = m
        /\ UpdateMarket(t1, a, new, o.id) = w4 /\ UpdateSupply(t1, u, a, less, o.id) = w2
        /\ Record(t1, o, tx) = Nop /\ ~First(t1, o)
    BY <1>1, <2>2, ReadAlike, SpentRigid, SMTT(30) DEF w2, w4, First
  <2>4. HandleQuickRedeem(t1, v, o) = <<Nop, w2, w3, w4>>
    BY <1>1, <2>2, <2>3 DEF HandleQuickRedeem, u, a, tx, less, w3
  <2>5. GoesOn(<<w1, w2, w3, w4>>, 1, t1, <<Nop, w2, w3, w4>>)
    BY Goes4, NopSpent
  <2> QED BY <1>1, <1>4, <2>4, <2>5 DEF t1, q
<1>5. CASE k = 2
  <2>1. t1 = Apply(t, w2) /\ w2.t # "nop" /\ w2 = UpdateSupply(t, u, a, less, o.id)
    BY <1>1, <1>3, <1>5 DEF Issued, w2
  <2>2. HasTx(t, o.id)
    BY <1>3, <1>5, SpentRigid DEF w1
  <2> HIDE DEF t1
  <2>3. SupplyWritten(t1, t, u, a, less, o)
    BY <1>2, <2>1, AfterSupply
  <2>4. /\ t1.market = t.market /\ t1.tx = t.tx /\ MarketsSince(t1, t) /\ t1.supply[<<u, a>>] = less
        /\ \A y : UpdateSupply(t1, u, a, y, o.id) = Nop
    BY <2>3 DEF SupplyWritten
  <2>5. less.exists
    <3>1. SupplyCols(t.supply[<<u, a>>])
      BY <1>2, ColsRead DEF Positions
    <3> QED BY <1>1, <3>1 DEF less, Released, SupplyCols
  <2>6. /\ HasCToken(t1, CToken(a)) /\ Loaded(t1, a, o) = m
        /\ UpdateMarket(t1, a, new, o.id) = w4
    <3>1. t1.market[a] = t.market[a] /\ t1.ver[<<"market", a>>] = t.ver[<<"market", a>>]
      BY <1>2, <2>4 DEF MarketsSince
    <3> QED BY <1>1, <3>1, MarketAlike DEF w4
  <2>7. Record(t1, o, tx) = Nop /\ ~First(t1, o)
    BY <2>2, <2>4, SpentRigid DEF First, HasTx
  <2>8. HandleQuickRedeem(t1, v, o) = <<Nop, Nop, w3, w4>>
    BY <1>1, <2>4, <2>5, <2>6, <2>7 DEF HandleQuickRedeem, u, a, tx, w3
  <2>9. GoesOn(<<w1, w2, w3, w4>>, 2, t1, <<Nop, Nop, w3, w4>>)
    BY Goes4, NopSpent
  <2> QED BY <1>1, <1>5, <2>8, <2>9 DEF t1, q
<1>6. CASE k = 4
  <2>1. t1 = Apply(t, w4) /\ w4.t # "nop" /\ w4 = UpdateMarket(t, a, new, o.id)
    BY <1>1, <1>3, <1>6 DEF Issued, w4
  <2> HIDE DEF t1
  <2>2. MarketWritten(t1, t, a, new, o)
    <3> HIDE DEF new
    <3> QED BY <1>2, <2>1, AfterMarket
  <2>3. /\ t1.market[a] = new /\ t1.supply = t.supply /\ t1.tx = t.tx /\ t1.transfer = t.transfer
        /\ SuppliesSince(t1, t) /\ \A y : UpdateMarket(t1, a, y, o.id) = Nop
    BY <2>2 DEF MarketWritten
  <2>4. HasCToken(t1, CToken(a)) /\ ~Loaded(t1, a, o).closed
    <3>1. Kin(new, t.market[a]) /\ Kin(m, t.market[a])
      BY <1>2, LoadedKin
    <3>2. {"exists", "closed", "p"} \subseteq DOMAIN new
      <4>1. {"exists", "closed", "p"} \subseteq DOMAIN t.market[a]
        BY <1>2 DEF TablesShape
      <4>2. DOMAIN m = DOMAIN t.market[a]
        BY <1>2, <4>1, MarketsKin DEF Loaded, FindMarket
      <4> QED BY <4>1, <4>2 DEF Redeemed
    <3> HIDE DEF new, m
    <3>3. Kin(AfterFind(new), new) /\ DOMAIN AfterFind(new) = DOMAIN new
      BY <3>2, MarketsKin
    <3>4. Kin(AccrueInterest(AfterFind(new), o.time), AfterFind(new))
      BY <3>2, <3>3, MarketsKin
    <3>5. Kin(Loaded(t1, a, o), new)
      BY <2>3, <3>3, <3>4 DEF Kin, Loaded, FindMarket
    <3> QED BY <1>1, <2>3, <3>1, <3>5 DEF HasCToken, CToken, Kin
  <2>5. /\ HasTx(t1, o.id) /\ Record(t1, o, tx) = Nop /\ ~First(t1, o)
    <3>1. HasTx(t, o.id)
      BY <1>3, <1>6, SpentRigid DEF w1
    <3>2. HasTx(t1, o.id)
      BY <2>3, <3>1 DEF HasTx
    <3> QED BY <3>2, SpentRigid DEF First
  <2>6. \A x : UpdateSupply(t1, u, a, x, o.id) = Nop
    <3>1. w2 = Nop
      BY <1>3, <1>6, SpentRigid DEF w2
    <3>2. \A x : UpdateSupply(t, u, a, x, o.id) = Nop
      BY <3>1, SpentRigid DEF w2
    <3>3. <<u, a>> \in Positions
      BY <1>2 DEF Positions
    <3>4. t1.ver[<<"supply", <<u, a>>>>] = t.ver[<<"supply", <<u, a>>>>]
      BY <2>3, <3>3 DEF SuppliesSince
    <3>5. \A x : UpdateSupply(t1, u, a, x, o.id) = UpdateSupply(t, u, a, x, o.id)
      BY <3>4 DEF UpdateSupply, Update
    <3> QED BY <3>2, <3>5
  <2>7. \A x : Spent(t1, Transfer(o, "quick-redeem", Currency(a), x))
    BY <1>3, <1>6, <2>3, TransferFound DEF w3, Transfer
  <2> DEFINE paid == Trunc8(Mul16(amt, CurExchangeRate(Loaded(t1, a, o))))
             again == Transfer(o, "quick-redeem", Currency(a), paid)
  <2>8. HandleQuickRedeem(t1, v, o) = <<Nop, Nop, again, Nop>>
    BY <1>1, <2>3, <2>4, <2>5, <2>6 DEF HandleQuickRedeem, u, a, tx
  <2>9. Spent(t1, again)
    BY <2>7
  <2> HIDE DEF again
  <2>10. GoesOn(<<w1, w2, w3, w4>>, 4, t1, <<Nop, Nop, again, Nop>>)
    BY <2>9, Goes4, NopSpent
  <2> QED BY <1>1, <1>6, <2>8, <2>10 DEF t1, q
<1> QED BY <1>3, <1>4, <1>5, <1>6

\* borrow.go
LEMMA BorrowGoesOn ==
  ASSUME NEW t, TablesShape(t), NEW v, NEW o, Numbered(o), o.sender \in Users, o.ok => o.asset \in Assets,
         NEW k, Writes(t, HandleBorrow(t, v, o), k)
  PROVE  LET q == HandleBorrow(t, v, o)
             t1 == Apply(t, q[k])
         IN  GoesOn(q, k, t1, HandleBorrow(t1, v, o))
<1> DEFINE u == o.sender
           a == o.asset
           amt == Trunc8(o.amt)
           m == Loaded(t, a, o)
           create == GetOrCreateBorrow(t, u, a)
           z == Apply(t, create)
           liquidity == CalculateAccountLiquidity(z, u, [x \in {a} |-> m])
           tx == Tx(o, 0, 0)
           row == Lent(z.borrow[<<u, a>>], m, amt)
           new == LentMarket(m, amt, o.time)
           w2 == Record(t, o, tx)
           w3 == UpdateBorrow(t, u, a, row, o.id)
           w4 == Transfer(o, "borrow", Currency(a), amt)
           w5 == UpdateMarket(t, a, new, o.id)
           denied == First(t, o) /\ ~CanBorrow(m, amt, liquidity)
           Body(c) == IF denied THEN <<c, Reject(v, o, "borrow-denied", TRUE)>>
                      ELSE <<c, w2, w3, w4, w5>>
           full == <<create, w2, w3, w4, w5>>
           q == HandleBorrow(t, v, o)
           t1 == Apply(t, q[k])
<1>1. o.ok /\ HasMarket(t, Currency(a)) /\ ~Outdated(t, a, o) /\ ~m.closed /\ q = Body(create)
  BY NoWrites, Payments DEF HandleBorrow
<1>2. a \in Assets /\ u \in Users /\ Payment(Reject(v, o, "borrow-denied", TRUE))
      /\ Payment(w4) /\ tx.id = o.id
  BY <1>1, Payments DEF Tx
<1> HIDE DEF a, u, create, row, tx, new, w2, w3, w4, w5, q
<1>3. \/ k = 1 /\ Issued(create)
      \/ /\ q = full /\ Spent(t, create)
         /\ \/ k = 2 /\ Issued(w2)
            \/ k = 3 /\ Spent(t, w2) /\ Issued(w3)
            \/ k = 5 /\ Issued(w5)
  <2>1. Writes(t, q, k) /\ Cut(t, q, k) /\ ~Payment(q[k])
    BY DEF Writes, q
  <2> HIDE DEF denied
  <2>2. CASE denied
    BY <1>1, <1>2, <2>1, <2>2, NoWrites
  <2>3. CASE ~denied
    <3>1. q = full
      BY <1>1, <2>3
    <3>2. Cut(t, full, k) /\ ~Payment(full[k])
      BY <2>1, <3>1
    <3>3. k # 4
      BY <1>2, <3>2
    <3> QED BY <3>1, <3>2, <3>3, Cut5
  <2> QED BY <2>2, <2>3
<1>4. CASE k = 1
  <2>1. t1 = z /\ create.t # "nop" /\ create = GetOrCreateBorrow(t, u, a)
    BY <1>1, <1>3, <1>4 DEF Issued, create
  <2>2. BorrowMade(t1, t, u, a)
    BY <1>2, <2>1, AfterCreate
  <2> HIDE DEF t1, z
  <2>3. /\ t1.market = t.market /\ t1.tx = t.tx /\ t1.ver = t.ver /\ GetOrCreateBorrow(t1, u, a) = Nop
    BY <2>2 DEF BorrowMade
  <2>4. /\ HasMarket(t1, Currency(a)) /\ ~Outdated(t1, a, o) /\ Loaded(t1, a, o) = m
        /\ UpdateMarket(t1, a, new, o.id) = w5 /\ UpdateBorrow(t1, u, a, row, o.id) = w3
        /\ Record(t1, o, tx) = w2 /\ (First(t1, o) <=> First(t, o)) /\ Apply(t1, Nop) = z
    BY <1>1, <2>1, <2>3, ReadAlike, NopSpent DEF w2, w3, w5
  <2>5. HandleBorrow(t1, v, o) = Body(Nop)
    BY <1>1, <2>3, <2>4 DEF HandleBorrow, u, a, tx, row, new, w4
  <2>6. /\ \A x : GoesOn(<<create, x>>, 1, t1, <<Nop, x>>)
        /\ GoesOn(full, 1, t1, <<Nop, w2, w3, w4, w5>>)
    BY GoesShort, Goes5, NopSpent
  <2>7. GoesOn(Body(create), 1, t1, Body(Nop))
    BY <2>6
  <2> QED BY <1>1, <1>4, <2>5, <2>7 DEF t1, q
<1>5. ASSUME k # 1 PROVE create = Nop /\ z = t
  BY <1>3, <1>5, SpentRigid, NopSpent DEF create
<1>6. CASE k = 2
  <2>1. t1 = Apply(t, w2) /\ w2.t # "nop" /\ q = full
    BY <1>3, <1>6 DEF Issued
  <2>2. HasTx(t1, o.id) /\ t1.market = t.market /\ t1.borrow = t.borrow /\ t1.ver = t.ver
    BY <1>2, <2>1, AfterRecord DEF w2
  <2> HIDE DEF t1
  <2>3. /\ HasMarket(t1, Currency(a)) /\ ~Outdated(t1, a, o) /\ Loaded(t1, a, o) = m
        /\ UpdateMarket(t1, a, new, o.id) = w5 /\ UpdateBorrow(t1, u, a, row, o.id) = w3
        /\ Record(t1, o, tx) = Nop /\ ~First(t1, o) /\ GetOrCreateBorrow(t1, u, a) = Nop
        /\ Apply(t1, Nop) = t1
    BY <1>1, <1>5, <1>6, <2>2, ReadAlike, SpentRigid, NopSpent DEF w3, w5, First, create
  <2>4. HandleBorrow(t1, v, o) = <<Nop, Nop, w3, w4, w5>>
    BY <1>1, <1>5, <1>6, <2>2, <2>3 DEF HandleBorrow, u, a, tx, row, new, w4
  <2>5. GoesOn(full, 2, t1, <<Nop, Nop, w3, w4, w5>>)
    BY Goes5, NopSpent
  <2> QED BY <2>1, <1>6, <2>4, <2>5 DEF t1, q
<1>7. CASE k = 3
  <2>1. t1 = Apply(t, w3) /\ w3.t # "nop" /\ q = full /\ w3 = UpdateBorrow(t, u, a, row, o.id)
    BY <1>3, <1>7 DEF Issued, w3
  <2>2. HasTx(t, o.id)
    BY <1>3, <1>7, SpentRigid DEF w2
  <2> HIDE DEF t1
  <2>3. BorrowWritten(t1, t, u, a, row, o)
    BY <1>2, <2>1, AfterBorrow
  <2>4. /\ t1.market = t.market /\ t1.tx = t.tx /\ MarketsSince(t1, t) /\ t1.borrow[<<u, a>>] = row
        /\ \A y : UpdateBorrow(t1, u, a, y, o.id) = Nop
    BY <2>3 DEF BorrowWritten
  <2>5. GetOrCreateBorrow(t1, u, a) = Nop
    <3>1. BorrowCols(t.borrow[<<u, a>>])
      BY <1>2, ColsRead DEF Positions
    <3>2. row.exists = TRUE
      BY <1>5, <1>7, <3>1 DEF row, Lent, BorrowCols
    <3> QED BY <2>4, <3>2 DEF GetOrCreateBorrow
  <2>6. /\ HasMarket(t1, Currency(a)) /\ ~Outdated(t1, a, o) /\ Loaded(t1, a, o) = m
        /\ UpdateMarket(t1, a, new, o.id) = w5
    <3>1. t1.market[a] = t.market[a] /\ t1.ver[<<"market", a>>] = t.ver[<<"market", a>>]
      BY <1>2, <2>4 DEF MarketsSince
    <3> QED BY <1>1, <3>1, MarketAlike DEF w5
  <2>7. Record(t1, o, tx) = Nop /\ ~First(t1, o)
    BY <2>2, <2>4, SpentRigid DEF First, HasTx
  <2>8. HandleBorrow(t1, v, o) = <<Nop, Nop, Nop, w4, w5>>
    BY <1>1, <2>4, <2>5, <2>6, <2>7 DEF HandleBorrow, u, a, tx, new, w4
  <2>9. GoesOn(full, 3, t1, <<Nop, Nop, Nop, w4, w5>>)
    BY Goes5, NopSpent
  <2> QED BY <2>1, <1>7, <2>8, <2>9 DEF t1, q
<1>8. CASE k = 5
  <2>1. t1 = Apply(t, w5) /\ w5.t # "nop" /\ w5 = UpdateMarket(t, a, new, o.id) /\ q = full
    BY <1>3, <1>8 DEF Issued, w5
  <2> HIDE DEF t1
  <2>2. t1.market[a] = new /\ Outdated(t1, a, o)
    <3>1. MarketWritten(t1, t, a, new, o)
      BY <1>2, <2>1, AfterMarket
    <3> QED BY <3>1 DEF MarketWritten
  <2>3. HasMarket(t1, Currency(a))
    BY <1>1, <1>2, <2>2, LoadedKin DEF HasMarket, Currency, Kin, new
  <2>4. HandleBorrow(t1, v, o) = <<>>
    BY <1>1, <2>2, <2>3 DEF HandleBorrow, a
  <2>5. GoesOn(full, 5, t1, <<>>)
    BY GoesNowhere
  <2> QED BY <2>1, <1>8, <2>4, <2>5 DEF t1, q
<1> QED BY <1>3, <1>4, <1>6, <1>7, <1>8

\* repay.go
LEMMA RepayGoesOn ==
  ASSUME NEW t, TablesShape(t), NEW v, NEW o, Numbered(o), o.sender \in Users, o.cur.asset \in Assets,
         NEW k, Writes(t, HandleRepay(t, v, o), k)
  PROVE  LET q == HandleRepay(t, v, o)
             t1 == Apply(t, q[k])
         IN  GoesOn(q, k, t1, HandleRepay(t1, v, o))
<1> DEFINE u == o.sender
           a == o.cur.asset
           m == Loaded(t, a, o)
           row == t.borrow[<<u, a>>]
           plain == Tx(o, 0, Lesser(o.amount, BorrowBalance(row, m)))
           tx == Decided(t, o, plain)
           back == Trunc8(o.amount - tx.repay)
           less == Repaid(row, m, tx.repay)
           new == RepaidMarket(m, tx.repay, v, o.time)
           w1 == Record(t, o, tx)
           w2 == IF back > 0 THEN Transfer(o, "repay-refund", o.cur, back) ELSE Nop
           w3 == UpdateBorrow(t, u, a, less, o.id)
           w4 == UpdateMarket(t, a, new, o.id)
           q == HandleRepay(t, v, o)
           t1 == Apply(t, q[k])
<1>1. /\ HasMarket(t, o.cur) /\ ~Outdated(t, a, o) /\ row.exists
      /\ q = <<w1, w2, w3, w4>>
  BY NoWrites, Payments DEF HandleRepay
<1>2. a \in Assets /\ u \in Users /\ Payment(w2) /\ plain.id = o.id
  BY Payments DEF Tx, Payment
<1> HIDE DEF a, u, less, plain, tx, new, w1, w2, w3, w4, q
<1>3. \/ k = 1 /\ Issued(w1)
      \/ k = 3 /\ Spent(t, w1) /\ Spent(t, w2) /\ Issued(w3)
      \/ k = 4 /\ Issued(w4)
  <2>1. Cut(t, <<w1, w2, w3, w4>>, k) /\ ~Payment(<<w1, w2, w3, w4>>[k])
    BY <1>1 DEF Writes, q
  <2>2. k # 2
    BY <1>2, <2>1
  <2> QED BY <2>1, <2>2, Cut4
<1>4. CASE k = 1
  <2>1. t1 = Apply(t, w1) /\ w1.t # "nop"
    BY <1>1, <1>3, <1>4 DEF Issued
  <2>2. tx = plain /\ tx.id = o.id
    BY <1>2, <2>1 DEF w1, tx, Record, Decided, Nop
  <2>3. /\ HasTx(t1, o.id) /\ FindTx(t1, o.id) = tx
        /\ t1.market = t.market /\ t1.borrow = t.borrow /\ t1.ver = t.ver
    BY <2>1, <2>2, AfterRecord DEF w1
  <2> HIDE DEF t1
  <2>4. /\ HasMarket(t1, o.cur) /\ ~Outdated(t1, a, o) /\ Loaded(t1, a, o) = m
        /\ UpdateMarket(t1, a, new, o.id) = w4 /\ UpdateBorrow(t1, u, a, less, o.id) = w3
        /\ Record(t1, o, tx) = Nop
    BY <1>1, <2>3, ReadAlike, SpentRigid DEF w3, w4
  <2>5. Decided(t1, o, plain) = tx
    BY <2>3 DEF Decided
  <2>6. HandleRepay(t1, v, o) = <<Nop, w2, w3, w4>>
    BY <1>1, <2>3, <2>4, <2>5 DEF HandleRepay, u, a, less, new, w2, plain
  <2>7. GoesOn(<<w1, w2, w3, w4>>, 1, t1, <<Nop, w2, w3, w4>>)
    BY Goes4, NopSpent
  <2> QED BY <1>1, <1>4, <2>6, <2>7 DEF t1, q
<1>5. CASE k = 3
  <2>1. t1 = Apply(t, w3) /\ w3.t # "nop" /\ w3 = UpdateBorrow(t, u, a, less, o.id)
    BY <1>1, <1>3, <1>5 DEF Issued, w3
  <2>2. HasTx(t, o.id) /\ tx = FindTx(t, o.id)
    BY <1>3, <1>5, SpentRigid DEF w1, tx, Decided
  <2> HIDE DEF t1
  <2>3. BorrowWritten(t1, t, u, a, less, o)
    BY <1>2, <2>1, AfterBorrow
  <2>4. /\ t1.market = t.market /\ t1.tx = t.tx /\ MarketsSince(t1, t) /\ t1.borrow[<<u, a>>] = less
        /\ \A y : UpdateBorrow(t1, u, a, y, o.id) = Nop
    BY <2>3 DEF BorrowWritten
  <2>5. less.exists
    <3>1. BorrowCols(t.borrow[<<u, a>>])
      BY <1>2, ColsRead DEF Positions
    <3> QED BY <1>1, <3>1 DEF less, Repaid, BorrowCols
  <2>6. /\ HasMarket(t1, o.cur) /\ ~Outdated(t1, a, o) /\ Loaded(t1, a, o) = m
        /\ UpdateMarket(t1, a, new, o.id) = w4
    <3>1. t1.market[a] = t.market[a] /\ t1.ver[<<"market", a>>] = t.ver[<<"market", a>>] /\ o.cur.asset = a
      BY <1>2, <2>4 DEF MarketsSince, a
    <3> QED BY <1>1, <3>1, MarketAlike DEF w4
  <2>7. \A x : Record(t1, o, x) = Nop /\ Decided(t1, o, x) = tx
    BY <2>2, <2>4, SpentRigid DEF HasTx, FindTx, Decided
  <2>8. HandleRepay(t1, v, o) = <<Nop, w2, Nop, w4>>
    BY <1>1, <2>4, <2>5, <2>6, <2>7, SMTT(30) DEF HandleRepay, u, a, new, w2
  <2>9. Spent(t1, w2)
    <3>1. t1.transfer = t.transfer
      BY <2>1 DEF UpdateBorrow, Update, Nop, Apply, TablesShape, Tables
    <3> QED BY <1>2, <1>3, <1>5, <3>1, TransferFound
  <2>10. GoesOn(<<w1, w2, w3, w4>>, 3, t1, <<Nop, w2, Nop, w4>>)
    BY <2>9, Goes4, NopSpent
  <2> QED BY <1>1, <1>5, <2>8, <2>10 DEF t1, q
<1>6. CASE k = 4
  <2>1. t1 = Apply(t, w4) /\ w4.t # "nop" /\ w4 = UpdateMarket(t, a, new, o.id)
    BY <1>1, <1>3, <1>6 DEF Issued, w4
  <2> HIDE DEF t1
  <2>2. t1.market[a] = new /\ Outdated(t1, a, o)
    <3>1. MarketWritten(t1, t, a, new, o)
      BY <1>2, <2>1, AfterMarket
    <3> QED BY <3>1 DEF MarketWritten
  <2>3. HasMarket(t1, o.cur)
    BY <1>1, <1>2, <2>2, LoadedKin DEF HasMarket, Kin, new, a
  <2>4. HandleRepay(t1, v, o) = <<>>
    BY <1>1, <2>2, <2>3 DEF HandleRepay, a
  <2>5. GoesOn(<<w1, w2, w3, w4>>, 4, t1, <<>>)
    BY GoesNowhere
  <2> QED BY <1>1, <1>6, <2>4, <2>5 DEF t1, q
<1> QED BY <1>3, <1>4, <1>5, <1>6

\* A long plan: the next statement, and what is spent of those before it.
LEMMA Cut7 ==
  ASSUME NEW t, NEW k, NEW a, NEW b, NEW c, NEW d, NEW e, NEW f, NEW g,
         Cut(t, <<a, b, c, d, e, f, g>>, k)
  PROVE  /\ k \in 1..7
         /\ k = 1 => Issued(a)
         /\ k > 1 => Spent(t, a)
         /\ k = 2 => Issued(b)
         /\ k > 2 => Spent(t, b)
         /\ k = 3 => Issued(c)
         /\ k > 3 => Spent(t, c)
         /\ k > 4 => Spent(t, d)
         /\ k > 5 => Spent(t, e)
         /\ k = 6 => Issued(f)
         /\ k > 6 => Spent(t, f)
         /\ k = 7 => Issued(g)
<1> DEFINE q == <<a, b, c, d, e, f, g>>
<1>1. Len(q) = 7 /\ q[1] = a /\ q[2] = b /\ q[3] = c /\ q[4] = d /\ q[5] = e /\ q[6] = f /\ q[7] = g
  OBVIOUS
<1> HIDE DEF q
<1>2. k \in 1..Len(q) /\ Issued(q[k]) /\ \A j \in 1..k-1 : Spent(t, q[j])
  BY DEF Cut, Issued, q
<1> QED BY <1>1, <1>2

\* Going on in a long plan.
LEMMA Goes7 ==
  ASSUME NEW t, NEW a, NEW b, NEW c, NEW d, NEW x, NEW m, NEW n,
         NEW e, NEW f, NEW g, NEW h, NEW y, NEW z, Spent(t, e)
  PROVE  /\ f = b /\ g = c /\ h = d /\ y = x /\ z = m
              => GoesOn(<<a, b, c, d, x, m, n>>, 1, t, <<e, f, g, h, y, z, n>>)
         /\ Spent(t, f) /\ g = c /\ h = d /\ y = x /\ z = m
              => GoesOn(<<a, b, c, d, x, m, n>>, 2, t, <<e, f, g, h, y, z, n>>)
         /\ Spent(t, f) /\ Spent(t, g) /\ h = d /\ y = x /\ z = m
              => GoesOn(<<a, b, c, d, x, m, n>>, 3, t, <<e, f, g, h, y, z, n>>)
         /\ Spent(t, f) /\ Spent(t, g) /\ Spent(t, h) /\ Spent(t, y) /\ Spent(t, z)
              => GoesOn(<<a, b, c, d, x, m, n>>, 6, t, <<e, f, g, h, y, z, n>>)
<1> DEFINE q == <<a, b, c, d, x, m, n>>
           r == <<e, f, g, h, y, z, n>>
<1>1. Len(q) = 7 /\ q[1] = a /\ q[2] = b /\ q[3] = c /\ q[4] = d /\ q[5] = x /\ q[6] = m /\ q[7] = n
  OBVIOUS
<1>2. Len(r) = 7 /\ r[1] = e /\ r[2] = f /\ r[3] = g /\ r[4] = h /\ r[5] = y /\ r[6] = z /\ r[7] = n
  OBVIOUS
<1>3. 1..7 = {1, 2, 3, 4, 5, 6, 7} /\ 7 \in Nat /\ 6 \in Nat /\ 3 \in Nat /\ 2 \in Nat /\ 1 \in Nat
  OBVIOUS
<1> HIDE DEF q, r
<1>4. f = b /\ g = c /\ h = d /\ y = x /\ z = m => GoesOn(q, 1, t, r)
  BY <1>1, <1>2, <1>3, GoesStraight
<1>5. Spent(t, f) /\ g = c /\ h = d /\ y = x /\ z = m => GoesOn(q, 2, t, r)
  BY <1>1, <1>2, <1>3, GoesStraight
<1>6. Spent(t, f) /\ Spent(t, g) /\ h = d /\ y = x /\ z = m => GoesOn(q, 3, t, r)
  BY <1>1, <1>2, <1>3, GoesStraight
<1>7. Spent(t, f) /\ Spent(t, g) /\ Spent(t, h) /\ Spent(t, y) /\ Spent(t, z) => GoesOn(q, 6, t, r)
  BY <1>1, <1>2, <1>3, GoesStraight
<1> QED BY <1>4, <1>5, <1>6, <1>7 DEF q, r

\* liquidation.go
LEMMA LiquidationGoesOn ==
  ASSUME NEW t, TablesShape(t), NEW v, NEW o, Numbered(o), o.cur.asset \in Assets,
         o.ok => o.asset \in Assets /\ o.user \in Users /\ o.asset # o.cur.asset,
         NEW k, Writes(t, HandleLiquidation(t, v, o), k)
  PROVE  LET q == HandleLiquidation(t, v, o)
             t1 == Apply(t, q[k])
         IN  GoesOn(q, k, t1, HandleLiquidation(t1, v, o))
<1> DEFINE u == o.user
           a == o.asset
           b == o.cur.asset
           sm == Loaded(t, a, o)
           bm == Loaded(t, b, o)
           supply == t.supply[<<u, a>>]
           borrow == t.borrow[<<u, b>>]
           plain == SeizeTx(o, supply, borrow, sm, bm)
           tx == Decided(t, o, plain)
           back == o.amount - tx.repay
           rest == Released(supply, tx.ctokens)
           less == Repaid(borrow, bm, tx.repay)
           new == AccrueInterest(sm, o.time)
           newb == RepaidMarket(bm, tx.repay, v, o.time)
           w1 == Record(t, o, tx)
           w2 == UpdateSupply(t, u, a, rest, o.id)
           w3 == UpdateBorrow(t, u, b, less, o.id)
           w4 == Transfer(o, "liquidate", CToken(a), tx.ctokens)
           w5 == IF back > 0 THEN Transfer(o, "liquidate-refund", o.cur, back) ELSE Nop
           w6 == UpdateMarket(t, a, new, o.id)
           w7 == UpdateMarket(t, b, newb, o.id)
           full == <<w1, w2, w3, w4, w5, w6, w7>>
           q == HandleLiquidation(t, v, o)
           t1 == Apply(t, q[k])
<1>0. ~Writes(t, <<Halt>>, k)
  <2>1. ~Issued(Halt)
    BY DEF Issued, Halt
  <2> QED BY <2>1, CutShort DEF Writes
<1>1. /\ o.ok /\ u \in t.user /\ HasCToken(t, CToken(a)) /\ HasMarket(t, o.cur) /\ ~Outdated(t, b, o)
      /\ supply.exists /\ borrow.exists /\ q = full
  BY <1>0, NoWrites, Payments DEF HandleLiquidation
<1>2. /\ a \in Assets /\ b \in Assets /\ a # b /\ u \in Users /\ plain.id = o.id
      /\ <<u, a>> \in Positions /\ <<u, b>> \in Positions
  BY <1>1 DEF Tx, SeizeTx, Positions
<1>p. Payment(w4) /\ Payment(w5)
  BY Payments DEF Payment
<1> HIDE DEF a, b, u, plain, tx, rest, less, new, newb, w1, w2, w3, w4, w5, w6, w7, q
<1>3. /\ k \in {1, 2, 3, 6, 7}
      /\ k = 1 => Issued(w1)
      /\ k > 1 => Spent(t, w1)
      /\ k = 2 => Issued(w2)
      /\ k > 2 => Spent(t, w2)
      /\ k = 3 => Issued(w3)
      /\ k > 3 => Spent(t, w3) /\ k > 5 /\ Spent(t, w4) /\ Spent(t, w5)
      /\ k = 6 => Issued(w6)
      /\ k = 7 => Issued(w7)
  <2>1. Cut(t, full, k) /\ ~Payment(full[k])
    BY <1>1 DEF Writes, q
  <2>2. k # 4 /\ k # 5
    BY <1>p, <2>1
  <2>3. /\ k \in 1..7
        /\ k = 1 => Issued(w1)
        /\ k > 1 => Spent(t, w1)
        /\ k = 2 => Issued(w2)
        /\ k > 2 => Spent(t, w2)
        /\ k = 3 => Issued(w3)
        /\ k > 3 => Spent(t, w3)
        /\ k > 4 => Spent(t, w4)
        /\ k > 5 => Spent(t, w5)
        /\ k = 6 => Issued(w6)
        /\ k = 7 => Issued(w7)
    BY <2>1, Cut7
  <2> HIDE DEF full
  <2> QED BY <2>2, <2>3
<1>4. CASE k = 1
  <2>1. t1 = Apply(t, w1) /\ w1.t # "nop"
    BY <1>1, <1>3, <1>4 DEF Issued
  <2>2. tx = plain /\ tx.id = o.id
    BY <1>2, <2>1 DEF w1, tx, Record, Decided, Nop
  <2>3. /\ HasTx(t1, o.id) /\ FindTx(t1, o.id) = tx /\ t1.user = t.user
        /\ t1.market = t.market /\ t1.supply = t.supply /\ t1.borrow = t.borrow /\ t1.ver = t.ver
    BY <2>1, <2>2, AfterRecord DEF w1
  <2> HIDE DEF t1
  <2>4. /\ HasMarket(t1, o.cur) /\ HasCToken(t1, CToken(a)) /\ ~Outdated(t1, b, o)
        /\ Loaded(t1, a, o) = sm /\ Loaded(t1, b, o) = bm
        /\ UpdateMarket(t1, a, new, o.id) = w6 /\ UpdateMarket(t1, b, newb, o.id) = w7
        /\ UpdateSupply(t1, u, a, rest, o.id) = w2 /\ UpdateBorrow(t1, u, b, less, o.id) = w3
    BY <1>1, <2>3, ReadAlike DEF w2, w3, w6, w7
  <2>5. \A x : Decided(t1, o, x) = tx /\ Record(t1, o, x) = Nop /\ ~First(t1, o)
    BY <2>3, SpentRigid DEF Decided, First
  <2>6. HandleLiquidation(t1, v, o) = <<Nop, w2, w3, w4, w5, w6, w7>>
    BY <1>1, <2>3, <2>4, <2>5 DEF HandleLiquidation, u, a, b, rest, less, new, newb, w4, w5
  <2>7. GoesOn(full, 1, t1, <<Nop, w2, w3, w4, w5, w6, w7>>)
    BY Goes7, NopSpent
  <2> QED BY <1>1, <1>4, <2>6, <2>7 DEF t1, q
<1>5. ASSUME k # 1 PROVE HasTx(t, o.id) /\ tx = FindTx(t, o.id)
  BY <1>3, <1>5, SpentRigid DEF w1, tx, Decided
<1>6. ASSUME NEW s, s.tx = t.tx, k # 1
      PROVE  \A x : Record(s, o, x) = Nop /\ ~First(s, o) /\ Decided(s, o, x) = tx
  BY <1>5, <1>6, SpentRigid DEF HasTx, FindTx, Decided, First
<1>7. CASE k = 2
  <2>1. t1 = Apply(t, w2) /\ w2.t # "nop" /\ w2 = UpdateSupply(t, u, a, rest, o.id)
    BY <1>1, <1>3, <1>7 DEF Issued, w2
  <2> HIDE DEF t1
  <2>3. SupplyWritten(t1, t, u, a, rest, o)
    BY <1>2, <2>1, AfterSupply
  <2>4. /\ t1.market = t.market /\ t1.tx = t.tx /\ t1.user = t.user /\ t1.borrow = t.borrow
        /\ MarketsSince(t1, t) /\ BorrowsSince(t1, t) /\ t1.supply[<<u, a>>] = rest
        /\ \A y : UpdateSupply(t1, u, a, y, o.id) = Nop
    BY <2>3 DEF SupplyWritten
  <2>5. rest.exists
    <3>1. SupplyCols(t.supply[<<u, a>>])
      BY <1>2, ColsRead
    <3> QED BY <1>1, <3>1 DEF rest, Released, SupplyCols
  <2>6. /\ HasMarket(t1, o.cur) /\ HasCToken(t1, CToken(a)) /\ ~Outdated(t1, b, o)
        /\ Loaded(t1, a, o) = sm /\ Loaded(t1, b, o) = bm
        /\ UpdateMarket(t1, a, new, o.id) = w6 /\ UpdateMarket(t1, b, newb, o.id) = w7
    <3>1. t1.market[a] = t.market[a] /\ t1.ver[<<"market", a>>] = t.ver[<<"market", a>>]
      BY <1>2, <2>4 DEF MarketsSince
    <3>2. t1.market[b] = t.market[b] /\ t1.ver[<<"market", b>>] = t.ver[<<"market", b>>] /\ o.cur.asset = b
      BY <1>2, <2>4 DEF MarketsSince, b
    <3>3. HasCToken(t1, CToken(a)) /\ Loaded(t1, a, o) = sm /\ UpdateMarket(t1, a, new, o.id) = w6
      BY <1>1, <3>1, MarketAlike DEF w6
    <3> QED BY <1>1, <3>2, <3>3, MarketAlike DEF w7
  <2>7. \A x : UpdateBorrow(t1, u, b, x, o.id) = UpdateBorrow(t, u, b, x, o.id)
    <3>1. t1.ver[<<"borrow", <<u, b>>>>] = t.ver[<<"borrow", <<u, b>>>>]
      BY <1>2, <2>4 DEF BorrowsSince
    <3> QED BY <3>1 DEF UpdateBorrow, Update
  <2>8. \A x : Record(t1, o, x) = Nop /\ ~First(t1, o) /\ Decided(t1, o, x) = tx
    BY <1>6, <1>7, <2>4
  <2>9. HandleLiquidation(t1, v, o) = <<Nop, Nop, w3, w4, w5, w6, w7>>
    BY <1>1, <2>4, <2>5, <2>6, <2>7, <2>8 DEF HandleLiquidation, u, a, b, less, new, newb, w3, w4, w5
  <2>10. GoesOn(full, 2, t1, <<Nop, Nop, w3, w4, w5, w6, w7>>)
    BY Goes7, NopSpent
  <2> QED BY <1>1, <1>7, <2>9, <2>10 DEF t1, q
<1>8. CASE k = 3
  <2>1. t1 = Apply(t, w3) /\ w3.t # "nop" /\ w3 = UpdateBorrow(t, u, b, less, o.id)
    BY <1>1, <1>3, <1>8 DEF Issued, w3
  <2> HIDE DEF t1
  <2>3. BorrowWritten(t1, t, u, b, less, o)
    BY <1>2, <2>1, AfterBorrow
  <2>4. /\ t1.market = t.market /\ t1.tx = t.tx /\ t1.user = t.user /\ t1.supply = t.supply
        /\ MarketsSince(t1, t) /\ SuppliesSince(t1, t) /\ t1.borrow[<<u, b>>] = less
        /\ \A y : UpdateBorrow(t1, u, b, y, o.id) = Nop
    BY <2>3 DEF BorrowWritten
  <2>5. less.exists
    <3>1. BorrowCols(t.borrow[<<u, b>>])
      BY <1>2, ColsRead
    <3> QED BY <1>1, <3>1 DEF less, Repaid, BorrowCols
  <2>6. /\ HasMarket(t1, o.cur) /\ HasCToken(t1, CToken(a)) /\ ~Outdated(t1, b, o)
        /\ Loaded(t1, a, o) = sm /\ Loaded(t1, b, o) = bm
        /\ UpdateMarket(t1, a, new, o.id) = w6 /\ UpdateMarket(t1, b, newb, o.id) = w7
    <3>1. t1.market[a] = t.market[a] /\ t1.ver[<<"market", a>>] = t.ver[<<"market", a>>]
      BY <1>2, <2>4 DEF MarketsSince
    <3>2. t1.market[b] = t.market[b] /\ t1.ver[<<"market", b>>] = t.ver[<<"market", b>>] /\ o.cur.asset = b
      BY <1>2, <2>4 DEF MarketsSince, b
    <3>3. HasCToken(t1, CToken(a)) /\ Loaded(t1, a, o) = sm /\ UpdateMarket(t1, a, new, o.id) = w6
      BY <1>1, <3>1, MarketAlike DEF w6
    <3> QED BY <1>1, <3>2, <3>3, MarketAlike DEF w7
  <2>7. \A x : UpdateSupply(t1, u, a, x, o.id) = Nop
    <3>1. \A x : UpdateSupply(t, u, a, x, o.id) = Nop
      BY <1>3, <1>8, SpentRigid DEF w2
    <3>2. t1.ver[<<"supply", <<u, a>>>>] = t.ver[<<"supply", <<u, a>>>>]
      BY <1>2, <2>4 DEF SuppliesSince
    <3> QED BY <3>1, <3>2 DEF UpdateSupply, Update
  <2>8. \A x : Record(t1, o, x) = Nop /\ ~First(t1, o) /\ Decided(t1, o, x) = tx
    BY <1>6, <1>8, <2>4
  <2>9. HandleLiquidation(t1, v, o) = <<Nop, Nop, Nop, w4, w5, w6, w7>>
    BY <1>1, <2>4, <2>5, <2>6, <2>7, <2>8 DEF HandleLiquidation, u, a, b, new, newb, w4, w5
  <2>10. GoesOn(full, 3, t1, <<Nop, Nop, Nop, w4, w5, w6, w7>>)
    BY Goes7, NopSpent
  <2> QED BY <1>1, <1>8, <2>9, <2>10 DEF t1, q
<1>9. CASE k = 6
  <2>1. t1 = Apply(t, w6) /\ w6.t # "nop" /\ w6 = UpdateMarket(t, a, new, o.id)
    BY <1>1, <1>3, <1>9 DEF Issued, w6
  <2> HIDE DEF t1
  <2>2. MarketWritten(t1, t, a, new, o)
    BY <1>2, <2>1, AfterMarket
  <2>3. /\ t1.market[a] = new /\ t1.supply = t.supply /\ t1.borrow = t.borrow /\ t1.tx = t.tx
        /\ t1.user = t.user /\ t1.transfer = t.transfer /\ OtherMarkets(t1, t, a)
        /\ SuppliesSince(t1, t) /\ BorrowsSince(t1, t) /\ \A y : UpdateMarket(t1, a, y, o.id) = Nop
    BY <2>2 DEF MarketWritten
  <2>4. HasCToken(t1, CToken(a))
    BY <1>1, <1>2, <2>3, LoadedKin DEF HasCToken, CToken, Kin, new
  <2>5. /\ HasMarket(t1, o.cur) /\ ~Outdated(t1, b, o) /\ Loaded(t1, b, o) = bm
        /\ UpdateMarket(t1, b, newb, o.id) = w7
    <3>1. t1.market[b] = t.market[b] /\ t1.ver[<<"market", b>>] = t.ver[<<"market", b>>] /\ o.cur.asset = b
      BY <1>2, <2>3 DEF OtherMarkets, b
    <3> QED BY <1>1, <3>1, MarketAlike DEF w7
  <2>6. \A x : UpdateSupply(t1, u, a, x, o.id) = Nop
    <3>1. \A x : UpdateSupply(t, u, a, x, o.id) = Nop
      BY <1>3, <1>9, SpentRigid DEF w2
    <3>2. t1.ver[<<"supply", <<u, a>>>>] = t.ver[<<"supply", <<u, a>>>>]
      BY <1>2, <2>3 DEF SuppliesSince
    <3> QED BY <3>1, <3>2 DEF UpdateSupply, Update
  <2>7. \A x : UpdateBorrow(t1, u, b, x, o.id) = Nop
    <3>1. \A x : UpdateBorrow(t, u, b, x, o.id) = Nop
      BY <1>3, <1>9, SpentRigid DEF w3
    <3>2. t1.ver[<<"borrow", <<u, b>>>>] = t.ver[<<"borrow", <<u, b>>>>]
      BY <1>2, <2>3 DEF BorrowsSince
    <3> QED BY <3>1, <3>2 DEF UpdateBorrow, Update
  <2>8. \A x : Record(t1, o, x) = Nop /\ ~First(t1, o) /\ Decided(t1, o, x) = tx
    BY <1>6, <1>9, <2>3
  <2>9. HandleLiquidation(t1, v, o) = <<Nop, Nop, Nop, w4, w5, Nop, w7>>
    BY <1>1, <2>3, <2>4, <2>5, <2>6, <2>7, <2>8 DEF HandleLiquidation, u, a, b, newb, w4, w5
  <2>10. Spent(t1, w4) /\ Spent(t1, w5)
    BY <1>3, <1>9, <1>p, <2>3, TransferFound
  <2>11. GoesOn(full, 6, t1, <<Nop, Nop, Nop, w4, w5, Nop, w7>>)
    BY <2>10, Goes7, NopSpent
  <2> QED BY <1>1, <1>9, <2>9, <2>11 DEF t1, q
<1>10. CASE k = 7
  <2>1. t1 = Apply(t, w7) /\ w7.t # "nop" /\ w7 = UpdateMarket(t, b, newb, o.id)
    BY <1>1, <1>3, <1>10 DEF Issued, w7
  <2> HIDE DEF t1
  <2>2. MarketWritten(t1, t, b, newb, o)
    BY <1>2, <2>1, AfterMarket
  <2>3. t1.market[b] = newb /\ Outdated(t1, b, o) /\ t1.user = t.user /\ OtherMarkets(t1, t, b)
    BY <2>2 DEF MarketWritten
  <2>4. HasMarket(t1, o.cur)
    BY <1>1, <1>2, <2>3, LoadedKin DEF HasMarket, Kin, newb, b
  <2>5. HasCToken(t1, CToken(a))
    <3>1. t1.market[a] = t.market[a] /\ t1.ver[<<"market", a>>] = t.ver[<<"market", a>>]
      BY <1>2, <2>3 DEF OtherMarkets
    <3> QED BY <1>1, <3>1, MarketAlike
  <2>6. HandleLiquidation(t1, v, o) = <<>>
    BY <1>1, <2>3, <2>4, <2>5 DEF HandleLiquidation, u, a, b
  <2>7. GoesOn(full, 7, t1, <<>>)
    BY GoesNowhere
  <2> QED BY <1>1, <1>10, <2>6, <2>7 DEF t1, q
<1> QED BY <1>3, <1>4, <1>7, <1>8, <1>9, <1>10

\* The longest plan.
LEMMA Cut8 ==
  ASSUME NEW t, NEW k, NEW a, NEW b, NEW c, NEW d, NEW e, NEW f, NEW g, NEW h,
         Cut(t, <<a, b, c, d, e, f, g, h>>, k)
  PROVE  /\ k \in 1..8
         /\ k = 1 => Issued(a)
         /\ k > 1 => Spent(t, a)
         /\ k = 2 => Issued(b)
         /\ k > 2 => Spent(t, b)
         /\ k = 3 => Issued(c)
         /\ k > 3 => Spent(t, c)
         /\ k = 4 => Issued(d)
         /\ k > 4 => Spent(t, d)
         /\ k = 5 => Issued(e)
         /\ k > 5 => Spent(t, e)
         /\ k > 6 => Spent(t, f)
         /\ k = 7 => Issued(g)
         /\ k = 8 => Issued(h)
<1> DEFINE q == <<a, b, c, d, e, f, g, h>>
<1>1. /\ Len(q) = 8 /\ q[1] = a /\ q[2] = b /\ q[3] = c /\ q[4] = d /\ q[5] = e /\ q[6] = f
      /\ q[7] = g /\ q[8] = h
  OBVIOUS
<1> HIDE DEF q
<1>2. k \in 1..Len(q) /\ Issued(q[k]) /\ \A j \in 1..k-1 : Spent(t, q[j])
  BY DEF Cut, Issued, q
<1> QED BY <1>1, <1>2

\* Plans of eight that say the same behind the k-th statement.
LEMMA Goes8 ==
  ASSUME NEW t, NEW a, NEW b, NEW c, NEW d, NEW x, NEW m, NEW n, NEW l,
         Spent(t, Nop)
  PROVE  /\ GoesOn(<<a, b, c, d, x, m, n, l>>, 1, t, <<Nop, b, c, d, x, m, n, l>>)
         /\ GoesOn(<<a, b, c, d, x, m, n, l>>, 2, t, <<Nop, Nop, c, d, x, m, n, l>>)
         /\ GoesOn(<<a, b, c, d, x, m, n, l>>, 3, t, <<Nop, Nop, Nop, d, x, m, n, l>>)
         /\ GoesOn(<<a, b, c, d, x, m, n, l>>, 4, t, <<Nop, Nop, Nop, Nop, x, m, n, l>>)
         /\ GoesOn(<<a, b, c, d, x, m, n, l>>, 5, t, <<Nop, Nop, Nop, Nop, Nop, m, n, l>>)
         /\ Spent(t, m) => GoesOn(<<a, b, c, d, x, m, n, l>>, 7, t, <<Nop, Nop, Nop, Nop, Nop, m, Nop, l>>)
<1> DEFINE q == <<a, b, c, d, x, m, n, l>>
           Like(r, k) == \A i \in 1..8 : IF i > k THEN r[i] = q[i] ELSE Spent(t, r[i])
<1>1. Len(q) = 8
  OBVIOUS
<1>2. /\ Like(<<Nop, b, c, d, x, m, n, l>>, 1)
      /\ Like(<<Nop, Nop, c, d, x, m, n, l>>, 2)
      /\ Like(<<Nop, Nop, Nop, d, x, m, n, l>>, 3)
      /\ Like(<<Nop, Nop, Nop, Nop, x, m, n, l>>, 4)
      /\ Like(<<Nop, Nop, Nop, Nop, Nop, m, n, l>>, 5)
      /\ Spent(t, m) => Like(<<Nop, Nop, Nop, Nop, Nop, m, Nop, l>>, 7)
  OBVIOUS
<1> HIDE DEF q
<1>3. ASSUME NEW r, Len(r) = 8, NEW k \in Nat, Like(r, k) PROVE GoesOn(q, k, t, r)
  BY <1>1, <1>3, GoesStraight
<1> HIDE DEF Like
<1> QED BY <1>2, <1>3 DEF q

\* quick_borrow.go
LEMMA QuickBorrowGoesOn ==
  ASSUME NEW t, TablesShape(t), NEW v, NEW o, Numbered(o), o.sender \in Users, o.cur.asset \in Assets,
         o.ok => o.asset \in Assets, o.ok /\ ~(v > 3) => o.asset # o.cur.asset,
         NEW k, Writes(t, HandleQuickBorrow(t, v, o), k)
  PROVE  LET q == HandleQuickBorrow(t, v, o)
             t1 == Apply(t, q[k])
         IN  GoesOn(q, k, t1, HandleQuickBorrow(t1, v, o))
<1> DEFINE u == o.sender
           a == o.cur.asset
           b == o.asset
           amt == Trunc8(o.amt)
           sm == Loaded(t, a, o)
           bm == Loaded(t, b, o)
           newS == GetOrCreateSupply(t, u, a)
           newB == GetOrCreateBorrow(t, u, b)
           z == Apply(Apply(t, newS), newB)
           liquidity ==
             CalculateAccountLiquidity(z, u, [x \in {a, b} |-> IF x = a THEN sm ELSE bm])
               + (IF o.cur.ctoken THEN CollateralValue(o.amount, sm)
                                  ELSE o.amount * sm.p.cf * sm.price * ONE)
           minted == IF o.cur.ctoken THEN o.amount
                     ELSE Trunc8(Div16(o.amount, CurExchangeRate(sm)))
           plain == Tx(o, minted, 0)
           tx == Decided(t, o, plain)
           deposited == IF o.cur.ctoken THEN sm ELSE Minted(sm, tx.ctokens, o.amount)
           more == Pledged(z.supply[<<u, a>>], tx.ctokens)
           debt == Lent(z.borrow[<<u, b>>], bm, amt)
           new == AccrueInterest(deposited, o.time)
           newb == LentMarket(bm, amt, o.time)
           w3 == Record(t, o, tx)
           w4 == UpdateSupply(t, u, a, more, o.id)
           w5 == UpdateBorrow(t, u, b, debt, o.id)
           w6 == Transfer(o, "quick-borrow", Currency(b), amt)
           w7 == UpdateMarket(t, a, new, o.id)
           w8 == UpdateMarket(t, b, newb, o.id)
           denied == First(t, o) /\ ~CanBorrow(bm, amt, liquidity)
           free == First(t, o) /\ ~o.cur.ctoken /\ CurExchangeRate(sm) = 0
           small == First(t, o) /\ minted <= 0
           big == First(t, o) /\ ~PledgeFits(z, a, sm, minted)
           r1 == Reject(v, o, "borrow-denied", TRUE)
           r2 == Reject(v, o, "ctokens-too-small", TRUE)
           r3 == Raise(o, "max-pledge-exceeded", TRUE)
           Body(c, d) == IF denied THEN <<c, d, r1>>
                         ELSE IF free THEN <<c, d, Halt>>
                         ELSE IF small THEN <<c, d, r2>>
                         ELSE IF big THEN <<c, d, r3>>
                         ELSE <<c, d, w3, w4, w5, w6, w7, w8>>
           full == <<newS, newB, w3, w4, w5, w6, w7, w8>>
           q == HandleQuickBorrow(t, v, o)
           t1 == Apply(t, q[k])
<1>1. /\ o.ok /\ HasMarket(t, Currency(b)) /\ ~Outdated(t, b, o) /\ t.market[a].exists
      /\ ~(v > 3 /\ a = b) /\ ~(sm.closed \/ bm.closed) /\ ~(sm.p.cf <= 0)
      /\ q = Body(newS, newB)
  BY NoWrites, Payments, ZenonT(60) DEF HandleQuickBorrow
<1>2. /\ a \in Assets /\ b \in Assets /\ a # b /\ u \in Users /\ plain.id = o.id
      /\ <<u, a>> \in Positions /\ <<u, b>> \in Positions
  BY <1>1 DEF Tx, Positions
<1>p. Payment(w6) /\ Payment(r1) /\ Payment(r2) /\ Payment(r3)
  BY Payments
<1> HIDE DEF a, b, u, newS, newB, z, plain, tx, more, debt, new, newb, w3, w4, w5, w6, w7, w8, r1, r2, r3, q
<1>3. /\ k = 1 => Issued(newS)
      /\ k = 2 => Spent(t, newS) /\ Issued(newB)
      /\ k \notin {1, 2} => q = full
  <2>1. Cut(t, q, k) /\ Writes(t, q, k)
    BY DEF Writes, q
  <2> HIDE DEF denied, free, small, big
  <2>2. ASSUME NEW r, Payment(r) \/ r = Halt, q = <<newS, newB, r>>
        PROVE  (k = 1 /\ Issued(newS)) \/ (k = 2 /\ Spent(t, newS) /\ Issued(newB))
    BY <2>1, <2>2, NoWrites, CutShort
  <2>3. ASSUME q = full
        PROVE  /\ k = 1 => Issued(newS)
               /\ k = 2 => Spent(t, newS) /\ Issued(newB)
    <3>1. Cut(t, full, k)
      BY <2>1, <2>3
    <3>2. (k = 1 => Issued(newS)) /\ (k > 1 => Spent(t, newS)) /\ (k = 2 => Issued(newB))
      BY <3>1, Cut8
    <3> QED BY <3>2
  <2>4. \/ q = full \/ q = <<newS, newB, r1>> \/ q = <<newS, newB, r2>>
        \/ q = <<newS, newB, r3>> \/ q = <<newS, newB, Halt>>
    BY <1>1
  <2> HIDE DEF full
  <2> QED BY <1>p, <2>2, <2>3, <2>4
<1>4. q[1] = newS /\ q[2] = newB
  <2> HIDE DEF denied, free, small, big
  <2> QED BY <1>1
<1>5. CASE k = 1
  <2>1. t1 = Apply(t, newS) /\ newS.t # "nop" /\ newS = GetOrCreateSupply(t, u, a)
    BY <1>3, <1>4, <1>5 DEF Issued, newS
  <2>2. SupplyMade(t1, t, u, a)
    BY <1>2, <2>1, AfterCreate
  <2>3. z = Apply(t1, newB)
    BY <2>1 DEF z
  <2> HIDE DEF t1
  <2>4. /\ t1.market = t.market /\ t1.borrow = t.borrow /\ t1.tx = t.tx /\ t1.ver = t.ver
        /\ GetOrCreateSupply(t1, u, a) = Nop
    BY <2>2 DEF SupplyMade
  <2>5. /\ HasMarket(t1, Currency(b)) /\ ~Outdated(t1, b, o) /\ t1.market[a].exists
        /\ Loaded(t1, a, o) = sm /\ Loaded(t1, b, o) = bm
        /\ UpdateMarket(t1, a, new, o.id) = w7 /\ UpdateMarket(t1, b, newb, o.id) = w8
        /\ UpdateSupply(t1, u, a, more, o.id) = w4 /\ UpdateBorrow(t1, u, b, debt, o.id) = w5
        /\ Record(t1, o, tx) = w3 /\ (First(t1, o) <=> First(t, o)) /\ Decided(t1, o, plain) = tx
        /\ GetOrCreateBorrow(t1, u, b) = newB /\ Apply(t1, Nop) = t1
    BY <1>1, <2>4, ReadAlike, NopSpent DEF w3, w4, w5, w7, w8, newB, tx
  <2>6. HandleQuickBorrow(t1, v, o) = Body(Nop, newB)
    BY <1>1, <2>3, <2>4, <2>5, ZenonT(60) DEF HandleQuickBorrow, u, a, b, plain, more, debt, new, newb, w6, r1, r2, r3
  <2>7. /\ \A x : GoesOn(<<newS, newB, x>>, 1, t1, <<Nop, newB, x>>)
        /\ GoesOn(full, 1, t1, <<Nop, newB, w3, w4, w5, w6, w7, w8>>)
    BY GoesShort, Goes8, NopSpent
  <2>8. GoesOn(Body(newS, newB), 1, t1, Body(Nop, newB))
    <3> HIDE DEF denied, free, small, big
    <3> QED BY <2>7
  <2> QED BY <1>1, <1>5, <2>6, <2>8 DEF t1, q
<1>6. CASE k = 2
  <2>1. newS = Nop
    BY <1>3, <1>6, SpentRigid DEF newS
  <2>2. t1 = Apply(t, newB) /\ newB.t # "nop" /\ newB = GetOrCreateBorrow(t, u, b) /\ t1 = z
    BY <1>3, <1>4, <1>6, <2>1, NopSpent DEF Issued, newB, z
  <2>3. BorrowMade(t1, t, u, b)
    BY <1>2, <2>2, AfterCreate
  <2> HIDE DEF t1
  <2>4. /\ t1.market = t.market /\ t1.supply = t.supply /\ t1.tx = t.tx /\ t1.ver = t.ver
        /\ GetOrCreateBorrow(t1, u, b) = Nop
    BY <2>3 DEF BorrowMade
  <2>5. /\ HasMarket(t1, Currency(b)) /\ ~Outdated(t1, b, o) /\ t1.market[a].exists
        /\ Loaded(t1, a, o) = sm /\ Loaded(t1, b, o) = bm
        /\ UpdateMarket(t1, a, new, o.id) = w7 /\ UpdateMarket(t1, b, newb, o.id) = w8
        /\ UpdateSupply(t1, u, a, more, o.id) = w4 /\ UpdateBorrow(t1, u, b, debt, o.id) = w5
        /\ Record(t1, o, tx) = w3 /\ (First(t1, o) <=> First(t, o)) /\ Decided(t1, o, plain) = tx
        /\ GetOrCreateSupply(t1, u, a) = Nop /\ Apply(t1, Nop) = t1
    BY <1>1, <2>1, <2>4, ReadAlike, NopSpent DEF w3, w4, w5, w7, w8, newS, tx
  <2>6. HandleQuickBorrow(t1, v, o) = Body(Nop, Nop)
    BY <1>1, <2>2, <2>4, <2>5, ZenonT(60)
       DEF HandleQuickBorrow, u, a, b, plain, more, debt, new, newb, w6, r1, r2, r3
  <2>7. /\ \A x : GoesOn(<<newS, newB, x>>, 2, t1, <<Nop, Nop, x>>)
        /\ GoesOn(full, 2, t1, <<Nop, Nop, w3, w4, w5, w6, w7, w8>>)
    BY GoesShort, Goes8, NopSpent
  <2>8. GoesOn(Body(newS, newB), 2, t1, Body(Nop, Nop))
    <3> HIDE DEF denied, free, small, big
    <3> QED BY <2>7
  <2> QED BY <1>1, <1>6, <2>6, <2>8 DEF t1, q
<1>7. ASSUME k \notin {1, 2}
      PROVE  GoesOn(q, k, t1, HandleQuickBorrow(t1, v, o))
  <2>1. q = full
    BY <1>3, <1>7
  <2>2. /\ k \in {3, 4, 5, 7, 8}
        /\ Spent(t, newS) /\ Spent(t, newB)
        /\ k = 3 => Issued(w3)
        /\ k > 3 => Spent(t, w3)
        /\ k = 4 => Issued(w4)
        /\ k > 4 => Spent(t, w4)
        /\ k = 5 => Issued(w5)
        /\ k > 5 => Spent(t, w5) /\ Spent(t, w6)
        /\ k = 7 => Issued(w7)
        /\ k = 8 => Issued(w8)
    <3>1. Cut(t, full, k) /\ ~Payment(full[k])
      BY <2>1 DEF Writes, q
    <3>2. k # 6
      BY <1>p, <3>1
    <3>3. /\ k \in 1..8
          /\ k > 1 => Spent(t, newS)
          /\ k > 2 => Spent(t, newB)
          /\ k = 3 => Issued(w3)
          /\ k > 3 => Spent(t, w3)
          /\ k = 4 => Issued(w4)
          /\ k > 4 => Spent(t, w4)
          /\ k = 5 => Issued(w5)
          /\ k > 5 => Spent(t, w5)
          /\ k > 6 => Spent(t, w6)
          /\ k = 7 => Issued(w7)
          /\ k = 8 => Issued(w8)
      BY <3>1, Cut8
    <3> HIDE DEF full
    <3> QED BY <1>7, <3>2, <3>3
  <2>3. newS = Nop /\ newB = Nop /\ z = t
    BY <2>2, SpentRigid, NopSpent DEF newS, newB, z
  <2>4. CASE k = 3
    <3>1. t1 = Apply(t, w3) /\ w3.t # "nop"
      BY <2>1, <2>2, <2>4 DEF Issued
    <3>2. tx = plain /\ tx.id = o.id
      BY <1>2, <3>1 DEF w3, tx, Record, Decided, Nop
    <3>3. /\ HasTx(t1, o.id) /\ FindTx(t1, o.id) = tx
          /\ t1.market = t.market /\ t1.supply = t.supply /\ t1.borrow = t.borrow /\ t1.ver = t.ver
      BY <3>1, <3>2, AfterRecord DEF w3
    <3> HIDE DEF t1
    <3>4. /\ HasMarket(t1, Currency(b)) /\ ~Outdated(t1, b, o) /\ t1.market[a].exists
          /\ Loaded(t1, a, o) = sm /\ Loaded(t1, b, o) = bm
          /\ UpdateMarket(t1, a, new, o.id) = w7 /\ UpdateMarket(t1, b, newb, o.id) = w8
          /\ UpdateSupply(t1, u, a, more, o.id) = w4 /\ UpdateBorrow(t1, u, b, debt, o.id) = w5
          /\ GetOrCreateSupply(t1, u, a) = Nop /\ GetOrCreateBorrow(t1, u, b) = Nop
          /\ Apply(t1, Nop) = t1
      BY <1>1, <2>3, <3>3, ReadAlike, NopSpent DEF w4, w5, w7, w8, newS, newB
    <3>5. \A x : Decided(t1, o, x) = tx /\ Record(t1, o, x) = Nop /\ ~First(t1, o)
      BY <3>3, SpentRigid DEF Decided, First
    <3>6. HandleQuickBorrow(t1, v, o) = <<Nop, Nop, Nop, w4, w5, w6, w7, w8>>
      <4> DEFINE d4 == UpdateSupply(t1, u, a, Pledged(t1.supply[<<u, a>>], tx.ctokens), o.id)
                 d5 == UpdateBorrow(t1, u, b, Lent(t1.borrow[<<u, b>>], bm, amt), o.id)
      <4>0. /\ o.ok /\ ~(v > 3 /\ a = b) /\ ~(sm.closed \/ bm.closed) /\ ~(sm.p.cf <= 0)
            /\ Decided(t1, o, plain) = tx /\ Record(t1, o, tx) = Nop /\ ~First(t1, o)
        BY <1>1, <3>5
      <4>1. HandleQuickBorrow(t1, v, o) = <<Nop, Nop, Nop, d4, d5, w6, w7, w8>>
        BY <3>4, <4>0 DEF plain, HandleQuickBorrow, u, a, b, new, newb, w6
      <4>2. d4 = w4 /\ d5 = w5
        BY <2>3, <3>3, <3>4 DEF more, debt
      <4> QED BY <4>1, <4>2
    <3>7. GoesOn(full, 3, t1, <<Nop, Nop, Nop, w4, w5, w6, w7, w8>>)
      BY Goes8, NopSpent
    <3> QED BY <2>1, <2>4, <3>6, <3>7 DEF t1, q
  <2>5. ASSUME k # 3, NEW s, s.tx = t.tx
        PROVE  \A x : Record(s, o, x) = Nop /\ ~First(s, o) /\ Decided(s, o, x) = tx
    BY <2>2, <2>5, SpentRigid DEF w3, tx, HasTx, FindTx, Decided, First
  <2>6. CASE k = 4
    <3>1. t1 = Apply(t, w4) /\ w4.t # "nop" /\ w4 = UpdateSupply(t, u, a, more, o.id)
      BY <2>1, <2>2, <2>6 DEF Issued, w4
    <3> HIDE DEF t1
    <3>2. SupplyWritten(t1, t, u, a, more, o)
      BY <1>2, <3>1, AfterSupply
    <3>3. /\ t1.market = t.market /\ t1.tx = t.tx /\ t1.borrow = t.borrow
          /\ MarketsSince(t1, t) /\ BorrowsSince(t1, t) /\ t1.supply[<<u, a>>] = more
          /\ \A y : UpdateSupply(t1, u, a, y, o.id) = Nop
      BY <3>2 DEF SupplyWritten
    <3>4. GetOrCreateSupply(t1, u, a) = Nop
      <4>1. SupplyCols(t.supply[<<u, a>>])
        BY <1>2, ColsRead
      <4>2. more.exists = TRUE
        BY <2>3, <4>1 DEF more, Pledged, SupplyCols
      <4> QED BY <3>3, <4>2 DEF GetOrCreateSupply
    <3>5. GetOrCreateBorrow(t1, u, b) = Nop /\ Apply(t1, Nop) = t1
      BY <2>3, <3>3, ReadAlike, NopSpent DEF newB
    <3>6. /\ HasMarket(t1, Currency(b)) /\ ~Outdated(t1, b, o) /\ t1.market[a].exists
          /\ Loaded(t1, a, o) = sm /\ Loaded(t1, b, o) = bm
          /\ UpdateMarket(t1, a, new, o.id) = w7 /\ UpdateMarket(t1, b, newb, o.id) = w8
      <4>1. t1.market[a] = t.market[a] /\ t1.ver[<<"market", a>>] = t.ver[<<"market", a>>]
        BY <1>2, <3>3 DEF MarketsSince
      <4>2. t1.market[b] = t.market[b] /\ t1.ver[<<"market", b>>] = t.ver[<<"market", b>>]
        BY <1>2, <3>3 DEF MarketsSince
      <4>3. t1.market[a].exists /\ Loaded(t1, a, o) = sm /\ UpdateMarket(t1, a, new, o.id) = w7
        BY <1>1, <4>1, MarketAlike DEF w7
      <4> QED BY <1>1, <4>2, <4>3, MarketAlike DEF w8
    <3>7. \A x : UpdateBorrow(t1, u, b, x, o.id) = UpdateBorrow(t, u, b, x, o.id)
      <4>1. t1.ver[<<"borrow", <<u, b>>>>] = t.ver[<<"borrow", <<u, b>>>>]
        BY <1>2, <3>3 DEF BorrowsSince
      <4> QED BY <4>1 DEF UpdateBorrow, Update
    <3>8. \A x : Record(t1, o, x) = Nop /\ ~First(t1, o) /\ Decided(t1, o, x) = tx
      BY <2>5, <2>6, <3>3
    <3>9. HandleQuickBorrow(t1, v, o) = <<Nop, Nop, Nop, Nop, w5, w6, w7, w8>>
      BY <1>1, <2>3, <3>3, <3>4, <3>5, <3>6, <3>7, <3>8, ZenonT(60)
         DEF HandleQuickBorrow, u, a, b, debt, new, newb, w5, w6
    <3>10. GoesOn(full, 4, t1, <<Nop, Nop, Nop, Nop, w5, w6, w7, w8>>)
      BY Goes8, NopSpent
    <3> QED BY <2>1, <2>6, <3>9, <3>10 DEF t1, q
  <2>7. CASE k = 5
    <3>1. t1 = Apply(t, w5) /\ w5.t # "nop" /\ w5 = UpdateBorrow(t, u, b, debt, o.id)
      BY <2>1, <2>2, <2>7 DEF Issued, w5
    <3> HIDE DEF t1
    <3>2. BorrowWritten(t1, t, u, b, debt, o)
      BY <1>2, <3>1, AfterBorrow
    <3>3. /\ t1.market = t.market /\ t1.tx = t.tx /\ t1.supply = t.supply
          /\ MarketsSince(t1, t) /\ SuppliesSince(t1, t) /\ t1.borrow[<<u, b>>] = debt
          /\ \A y : UpdateBorrow(t1, u, b, y, o.id) = Nop
      BY <3>2 DEF BorrowWritten
    <3>4. GetOrCreateBorrow(t1, u, b) = Nop
      <4>1. BorrowCols(t.borrow[<<u, b>>])
        BY <1>2, ColsRead
      <4>2. debt.exists = TRUE
        BY <2>3, <4>1 DEF debt, Lent, BorrowCols
      <4> QED BY <3>3, <4>2 DEF GetOrCreateBorrow
    <3>5. GetOrCreateSupply(t1, u, a) = Nop /\ Apply(t1, Nop) = t1
      BY <2>3, <3>3, ReadAlike, NopSpent DEF newS
    <3>6. /\ HasMarket(t1, Currency(b)) /\ ~Outdated(t1, b, o) /\ t1.market[a].exists
          /\ Loaded(t1, a, o) = sm /\ Loaded(t1, b, o) = bm
          /\ UpdateMarket(t1, a, new, o.id) = w7 /\ UpdateMarket(t1, b, newb, o.id) = w8
      <4>1. t1.market[a] = t.market[a] /\ t1.ver[<<"market", a>>] = t.ver[<<"market", a>>]
        BY <1>2, <3>3 DEF MarketsSince
      <4>2. t1.market[b] = t.market[b] /\ t1.ver[<<"market", b>>] = t.ver[<<"market", b>>]
        BY <1>2, <3>3 DEF MarketsSince
      <4>3. t1.market[a].exists /\ Loaded(t1, a, o) = sm /\ UpdateMarket(t1, a, new, o.id) = w7
        BY <1>1, <4>1, MarketAlike DEF w7
      <4> QED BY <1>1, <4>2, <4>3, MarketAlike DEF w8
    <3>7. \A x : UpdateSupply(t1, u, a, x, o.id) = Nop
      <4>1. \A x : UpdateSupply(t, u, a, x, o.id) = Nop
        BY <2>2, <2>7, SpentRigid DEF w4
      <4>2. t1.ver[<<"supply", <<u, a>>>>] = t.ver[<<"supply", <<u, a>>>>]
        BY <1>2, <3>3 DEF SuppliesSince
      <4> QED BY <4>1, <4>2 DEF UpdateSupply, Update
    <3>8. \A x : Record(t1, o, x) = Nop /\ ~First(t1, o) /\ Decided(t1, o, x) = tx
      BY <2>5, <2>7, <3>3
    <3>9. HandleQuickBorrow(t1, v, o) = <<Nop, Nop, Nop, Nop, Nop, w6, w7, w8>>
      BY <1>1, <2>3, <3>3, <3>4, <3>5, <3>6, <3>7, <3>8, ZenonT(60)
         DEF HandleQuickBorrow, u, a, b, new, newb, w6
    <3>10. GoesOn(full, 5, t1, <<Nop, Nop, Nop, Nop, Nop, w6, w7, w8>>)
      BY Goes8, NopSpent
    <3> QED BY <2>1, <2>7, <3>9, <3>10 DEF t1, q
  <2>8. CASE k = 7
    <3>1. t1 = Apply(t, w7) /\ w7.t # "nop" /\ w7 = UpdateMarket(t, a, new, o.id)
      BY <2>1, <2>2, <2>8 DEF Issued, w7
    <3> HIDE DEF t1
    <3>2. MarketWritten(t1, t, a, new, o)
      BY <1>2, <3>1, AfterMarket
    <3>3. /\ t1.market[a] = new /\ t1.supply = t.supply /\ t1.borrow = t.borrow /\ t1.tx = t.tx
          /\ t1.transfer = t.transfer /\ OtherMarkets(t1, t, a)
          /\ SuppliesSince(t1, t) /\ BorrowsSince(t1, t) /\ \A y : UpdateMarket(t1, a, y, o.id) = Nop
      BY <3>2 DEF MarketWritten
    <3>4. t1.market[a].exists /\ ~Loaded(t1, a, o).closed /\ ~(Loaded(t1, a, o).p.cf <= 0)
      <4>1. Kin(new, t.market[a]) /\ Kin(sm, t.market[a])
        BY <1>2, LoadedKin DEF new
      <4>2. {"exists", "closed", "p"} \subseteq DOMAIN t.market[a]
        BY <1>2 DEF TablesShape
      <4>3. DOMAIN sm = DOMAIN t.market[a]
        BY <1>2, <4>2, MarketsKin DEF Loaded, FindMarket
      <4>4. DOMAIN deposited = DOMAIN t.market[a]
        <5> HIDE DEF sm
        <5> QED BY <4>3 DEF Minted
      <4>5. {"exists", "closed", "p"} \subseteq DOMAIN new
        <5> HIDE DEF deposited
        <5> QED BY <4>2, <4>4, MarketsKin DEF new
      <4> HIDE DEF sm, deposited
      <4>6. Kin(AfterFind(new), new) /\ DOMAIN AfterFind(new) = DOMAIN new
        BY <4>5, MarketsKin
      <4>7. Kin(AccrueInterest(AfterFind(new), o.time), AfterFind(new))
        BY <4>5, <4>6, MarketsKin
      <4>8. Kin(Loaded(t1, a, o), new)
        BY <3>3, <4>6, <4>7 DEF Kin, Loaded, FindMarket
      <4> QED BY <1>1, <3>3, <4>1, <4>8 DEF Kin
    <3>5. /\ HasMarket(t1, Currency(b)) /\ ~Outdated(t1, b, o) /\ Loaded(t1, b, o) = bm
          /\ UpdateMarket(t1, b, newb, o.id) = w8
      <4>1. t1.market[b] = t.market[b] /\ t1.ver[<<"market", b>>] = t.ver[<<"market", b>>]
        BY <1>2, <3>3 DEF OtherMarkets
      <4> QED BY <1>1, <4>1, MarketAlike DEF w8
    <3>6. \A x : UpdateSupply(t1, u, a, x, o.id) = Nop
      <4>1. \A x : UpdateSupply(t, u, a, x, o.id) = Nop
        BY <2>2, <2>8, SpentRigid DEF w4
      <4>2. t1.ver[<<"supply", <<u, a>>>>] = t.ver[<<"supply", <<u, a>>>>]
        BY <1>2, <3>3 DEF SuppliesSince
      <4> QED BY <4>1, <4>2 DEF UpdateSupply, Update
    <3>7. \A x : UpdateBorrow(t1, u, b, x, o.id) = Nop
      <4>1. \A x : UpdateBorrow(t, u, b, x, o.id) = Nop
        BY <2>2, <2>8, SpentRigid DEF w5
      <4>2. t1.ver[<<"borrow", <<u, b>>>>] = t.ver[<<"borrow", <<u, b>>>>]
        BY <1>2, <3>3 DEF BorrowsSince
      <4> QED BY <4>1, <4>2 DEF UpdateBorrow, Update
    <3>8. GetOrCreateSupply(t1, u, a) = Nop /\ GetOrCreateBorrow(t1, u, b) = Nop
      BY <2>3, <3>3, ReadAlike DEF newS, newB
    <3>9. \A x : Record(t1, o, x) = Nop /\ ~First(t1, o) /\ Decided(t1, o, x) = tx
      BY <2>5, <2>8, <3>3
    <3>10. HandleQuickBorrow(t1, v, o) = <<Nop, Nop, Nop, Nop, Nop, w6, Nop, w8>>
      BY <1>1, <3>3, <3>4, <3>5, <3>6, <3>7, <3>8, <3>9, ZenonT(60)
         DEF HandleQuickBorrow, u, a, b, newb, w6
    <3>11. Spent(t1, w6)
      BY <1>p, <2>2, <2>8, <3>3, TransferFound
    <3>12. GoesOn(full, 7, t1, <<Nop, Nop, Nop, Nop, Nop, w6, Nop, w8>>)
      BY <3>11, Goes8, NopSpent
    <3> QED BY <2>1, <2>8, <3>10, <3>12 DEF t1, q
  <2>9. CASE k = 8
    <3>1. t1 = Apply(t, w8) /\ w8.t # "nop" /\ w8 = UpdateMarket(t, b, newb, o.id)
      BY <2>1, <2>2, <2>9 DEF Issued, w8
    <3> HIDE DEF t1
    <3>2. t1.market[b] = newb /\ Outdated(t1, b, o)
      <4>1. MarketWritten(t1, t, b, newb, o)
        BY <1>2, <3>1, AfterMarket
      <4> QED BY <4>1 DEF MarketWritten
    <3>3. HasMarket(t1, Currency(b))
      BY <1>1, <1>2, <3>2, LoadedKin DEF HasMarket, Currency, Kin, newb
    <3>4. HandleQuickBorrow(t1, v, o) = <<>>
      BY <1>1, <3>2, <3>3 DEF HandleQuickBorrow, b
    <3>5. GoesOn(full, 8, t1, <<>>)
      BY GoesNowhere
    <3> QED BY <2>1, <2>9, <3>4, <3>5 DEF t1, q
  <2> QED BY <2>2, <2>4, <2>6, <2>7, <2>8, <2>9
<1> QED BY <1>5, <1>6, <1>7 DEF q

\* The two markets of the output are different ones, where the handler does not
\* check that itself: a liquidation never does, a quick borrow since version 4.
Distinct(v, o) ==
  (o.act = "liquidate" \/ (o.act = "quick-borrow" /\ ~(v > 3))) /\ o.ok => o.asset # o.cur.asset

\* What a user's action goes on with, whatever its next statement was.
LEMMA UserGoesOn ==
  ASSUME NEW t, TablesShape(t), NEW v, NEW o, Numbered(o), TypedOutput(o), o.sender \in Users,
         Distinct(v, o), NEW k, Cut(t, HandleUserAction(t, v, o), k)
  PROVE  LET q == HandleUserAction(t, v, o)
             t1 == Apply(t, q[k])
         IN  GoesOn(q, k, t1, HandleUserAction(t1, v, o))
<1> DEFINE q == HandleUserAction(t, v, o)
           t1 == Apply(t, q[k])
           Goal == GoesOn(q, k, t1, HandleUserAction(t1, v, o))
<1>1. CASE Payment(q[k])
  BY <1>1, PaidUser
<1>2. CASE ~Payment(q[k])
  <2>0. Writes(t, q, k) /\ o.cur.asset \in Assets /\ (o.act \in Asking /\ o.ok => o.asset \in Assets)
    BY <1>2 DEF Writes, TypedOutput
  <2>1. CASE o.act = "supply"
    <3>1. \A s : HandleUserAction(s, v, o) = HandleSupply(s, v, o)
      BY <2>1 DEF HandleUserAction
    <3> QED BY <2>0, <3>1, SupplyGoesOn
  <2>2. CASE o.act = "borrow"
    <3>1. \A s : HandleUserAction(s, v, o) = HandleBorrow(s, v, o)
      BY <2>2 DEF HandleUserAction
    <3>2. o.ok => o.asset \in Assets
      BY <2>0, <2>2 DEF Asking
    <3> QED BY <2>0, <3>1, <3>2, BorrowGoesOn
  <2>3. CASE o.act = "redeem"
    <3>1. \A s : HandleUserAction(s, v, o) = HandleRedeem(s, v, o)
      BY <2>3 DEF HandleUserAction
    <3> QED BY <2>0, <3>1, RedeemGoesOn
  <2>4. CASE o.act = "repay"
    <3>1. \A s : HandleUserAction(s, v, o) = HandleRepay(s, v, o)
      BY <2>4 DEF HandleUserAction
    <3> QED BY <2>0, <3>1, RepayGoesOn
  <2>5. CASE o.act = "pledge"
    <3>1. \A s : HandleUserAction(s, v, o) = HandlePledge(s, v, o)
      BY <2>5 DEF HandleUserAction
    <3> QED BY <2>0, <3>1, PledgeGoesOn
  <2>6. CASE o.act = "unpledge"
    <3>1. \A s : HandleUserAction(s, v, o) = HandleUnpledge(s, v, o)
      BY <2>6 DEF HandleUserAction
    <3>2. o.ok => o.asset \in Assets
      BY <2>0, <2>6 DEF Asking
    <3> QED BY <2>0, <3>1, <3>2, UnpledgeGoesOn
  <2>7. CASE o.act = "quick-pledge"
    <3>1. \A s : HandleUserAction(s, v, o) = HandleQuickPledge(s, v, o)
      BY <2>7 DEF HandleUserAction
    <3> QED BY <2>0, <3>1, QuickPledgeGoesOn
  <2>8. CASE o.act = "quick-borrow"
    <3>1. \A s : HandleUserAction(s, v, o) = HandleQuickBorrow(s, v, o)
      BY <2>8 DEF HandleUserAction
    <3>2. (o.ok => o.asset \in Assets) /\ (o.ok /\ ~(v > 3) => o.asset # o.cur.asset)
      BY <2>0, <2>8 DEF Asking, Distinct
    <3> QED BY <2>0, <3>1, <3>2, QuickBorrowGoesOn
  <2>9. CASE o.act = "quick-redeem"
    <3>1. \A s : HandleUserAction(s, v, o) = HandleQuickRedeem(s, v, o)
      BY <2>9 DEF HandleUserAction
    <3>2. o.ok => o.asset \in Assets
      BY <2>0, <2>9 DEF Asking
    <3> QED BY <2>0, <3>1, <3>2, QuickRedeemGoesOn
  <2>10. CASE o.act = "liquidate"
    <3>1. \A s : HandleUserAction(s, v, o) = HandleLiquidation(s, v, o)
      BY <2>10 DEF HandleUserAction
    <3>2. o.ok => o.asset \in Assets /\ o.user \in Users /\ o.asset # o.cur.asset
      BY <2>0, <2>10 DEF Asking, Distinct, TypedOutput
    <3> QED BY <2>0, <3>1, <3>2, LiquidationGoesOn
  <2>11. CASE o.act \notin {"supply", "borrow", "redeem", "repay", "pledge", "unpledge", "quick-pledge",
                            "quick-borrow", "quick-redeem", "liquidate"}
    <3>1. q = <<RefundV0(o)>>
      BY <2>11 DEF HandleUserAction
    <3> QED BY <2>0, <3>1, NoWrites, Payments
  <2> HIDE DEF Goal
  <2> QED BY <2>1, <2>2, <2>3, <2>4, <2>5, <2>6, <2>7, <2>8, <2>9, <2>10, <2>11 DEF Goal
<1> QED BY <1>1, <1>2

(***************************************************************************)
(* The payer's account comes first                                         *)
(***************************************************************************)

\* No statement takes an account away.
LEMMA AccountsStay ==
  ASSUME NEW t, TablesShape(t), NEW w
  PROVE  t.user \subseteq Apply(t, w).user
<1>0. {"sysversion", "legacy", "tx", "transfer", "user", "property", "signers",
       "market", "supply", "borrow", "proposal", "ver"} \subseteq DOMAIN t
  BY DEF TablesShape, Tables
<1>1. CASE w.t \in {"tx", "transfer", "user", "property", "signers"}
  BY <1>0, <1>1 DEF Apply
<1>2. CASE w.t \in {"sysversion", "migrate"}
  BY <1>0, <1>2 DEF Apply
<1>3. CASE w.t \in {"newsupply", "newborrow", "newmarket", "newproposal"}
  BY <1>0, <1>3 DEF Apply
<1>4. CASE w.t \in {"market", "supply", "borrow", "proposal"}
  BY <1>0, <1>4 DEF Apply
<1>5. CASE w.t \notin {"tx", "transfer", "user", "property", "signers", "sysversion",
                      "migrate", "newsupply", "newborrow", "newmarket", "newproposal",
                      "market", "supply", "borrow", "proposal"}
  BY <1>5 DEF Apply
<1> QED BY <1>1, <1>2, <1>3, <1>4, <1>5

\* A plan with a statement in front.
Behind(q, w, h) == Len(q) = Len(h) + 1 /\ q[1] = w /\ \A j \in 1..Len(h) : q[j + 1] = h[j]

\* A plan that stands behind a statement.
LEMMA PlanBehind ==
  ASSUME NEW w, NEW S, NEW h \in Seq(S)
  PROVE  Behind(<<w>> \o h, w, h) /\ Len(h) \in Nat
<1>1. <<w>> \in Seq(S \cup {w}) /\ h \in Seq(S \cup {w})
  OBVIOUS
<1> QED BY <1>1 DEF Behind

\* If the plan goes on, it goes on behind a statement that is spent.
LEMMA GoesBehind ==
  ASSUME NEW h, NEW h1, NEW q, NEW q1, NEW w, NEW x, Behind(q, w, h), Behind(q1, x, h1), NEW k \in Nat,
         NEW t, Spent(t, x), Len(h) \in Nat, Len(h1) \in Nat, GoesOn(h, k, t, h1)
  PROVE  GoesOn(q, k + 1, t, q1)
<1>1. PICK e \in 0..k : /\ e <= Len(h) /\ Len(h1) = Len(h) - e
                        /\ \A j \in 1..Len(h1) : IF j + e > k THEN h1[j] = h[j + e] ELSE Spent(t, h1[j])
  BY DEF GoesOn
<1>2. e \in 0..k+1 /\ e <= Len(q) /\ Len(q1) = Len(q) - e
  BY <1>1 DEF Behind
<1>3. ASSUME NEW j \in 1..Len(q1) PROVE IF j + e > k + 1 THEN q1[j] = q[j + e] ELSE Spent(t, q1[j])
  <2>1. CASE j = 1
    BY <1>1, <2>1 DEF Behind
  <2>2. CASE j # 1
    <3> DEFINE i == j - 1
    <3>1. i \in 1..Len(h1) /\ i + 1 = j /\ (i + e > k <=> j + e > k + 1)
      BY <1>1, <2>2 DEF Behind
    <3>2. q1[j] = h1[i]
      BY <3>1 DEF Behind
    <3>3. CASE i + e > k
      <4>1. i + e \in 1..Len(h) /\ (i + e) + 1 = j + e
        BY <1>1, <3>1
      <4>2. q[j + e] = h[i + e]
        BY <4>1 DEF Behind
      <4> QED BY <1>1, <3>1, <3>2, <3>3, <4>2
    <3>4. CASE ~(i + e > k)
      BY <1>1, <3>1, <3>2, <3>4
    <3> QED BY <3>3, <3>4
  <2> QED BY <2>1, <2>2
<1> QED BY <1>2, <1>3 DEF GoesOn

\* A user's payment: the account first, then the action.
Acting(s, v, o) ==
  <<EnsureUser(s, o)>> \o HandleUserAction(Apply(s, EnsureUser(s, o)), v, o)

\* A user's payment goes on after any of its statements, the creation of the
\* account among them.
LEMMA ActingGoesOn ==
  ASSUME NEW old, NEW v, NEW o, Numbered(o), TypedOutput(o), o.sender \in Users, Distinct(v, o),
         NEW t, Reads(t, old, o), NEW k, Cut(t, Acting(t, v, o), k),
         NEW t1, Reads(t1, old, o), t1 = Apply(t, Acting(t, v, o)[k])
  PROVE  GoesOn(Acting(t, v, o), k, t1, Acting(t1, v, o))
<1> DEFINE e == EnsureUser(t, o)
           h == HandleUserAction(Apply(t, e), v, o)
           q == Acting(t, v, o)
           e1 == EnsureUser(t1, o)
           h1 == HandleUserAction(Apply(t1, e1), v, o)
           q1 == Acting(t1, v, o)
<1>0. TablesShape(t) /\ TablesShape(t1)
  BY DEF Reads
<1>1. Behind(q, e, h) /\ Len(h) \in Nat
  <2>1. SoundPlan(h, old, o)
    BY CreatesUser, UserActionPlan
  <2>2. PICK S : h \in Seq(S)
    BY <2>1 DEF SoundPlan
  <2> HIDE DEF h, e
  <2>3. q = <<e>> \o h
    BY DEF Acting, h, e
  <2> QED BY <2>2, <2>3, PlanBehind
<1>2. Behind(q1, e1, h1) /\ Len(h1) \in Nat
  <2>1. SoundPlan(h1, old, o)
    BY CreatesUser, UserActionPlan
  <2>2. PICK S : h1 \in Seq(S)
    BY <2>1 DEF SoundPlan
  <2> HIDE DEF h1, e1
  <2>3. q1 = <<e1>> \o h1
    BY DEF Acting, h1, e1
  <2> QED BY <2>2, <2>3, PlanBehind
<1>3. o.sender \in t1.user => e1 = Nop /\ Apply(t1, e1) = t1
  BY NopSpent DEF EnsureUser
<1>4. k \in 1..Len(q) /\ Issued(q[k]) /\ \A j \in 1..k-1 : Spent(t, q[j])
  BY DEF Cut, Issued
<1>5. CASE k = 1
  <2>1. q[1] = e /\ Issued(e)
    BY <1>1, <1>4, <1>5 DEF Behind
  <2>2. e = CreateUser(o.sender)
    BY <2>1 DEF EnsureUser, Nop, Issued
  <2>3. t1 = Apply(t, e)
    BY <1>5, <2>1
  <2>4. o.sender \in t1.user
    <3> HIDE DEF e
    <3>1. "user" \in DOMAIN t
      BY <1>0 DEF TablesShape, Tables
    <3> QED BY <2>2, <2>3, <3>1 DEF Apply, CreateUser
  <2>5. e1 = Nop /\ h1 = h
    BY <1>3, <2>3, <2>4
  <2> HIDE DEF e, h, e1, h1, q, q1
  <2>6. Len(q) \in Nat /\ Len(q1) = Len(q)
    BY <1>1, <1>2, <2>5 DEF Behind
  <2>7. ASSUME NEW j \in 1..Len(q) PROVE IF j > k THEN q1[j] = q[j] ELSE Spent(t1, q1[j])
    <3>1. CASE j = 1
      BY <1>2, <1>5, <2>5, <3>1, NopSpent DEF Behind
    <3>2. CASE j # 1
      <4> DEFINE i == j - 1
      <4>1. i \in 1..Len(h) /\ i + 1 = j
        BY <1>1, <3>2 DEF Behind
      <4>2. q[i + 1] = h[i] /\ q1[i + 1] = h1[i]
        BY <1>1, <1>2, <2>5, <4>1 DEF Behind
      <4>3. j > k /\ q1[j] = q[j]
        BY <1>5, <2>5, <2>6, <3>2, <4>1, <4>2
      <4> QED BY <4>3
    <3> QED BY <3>1, <3>2
  <2>8. GoesOn(q, k, t1, q1)
    BY <1>4, <1>5, <2>6, <2>7, GoesStraight
  <2> QED BY <2>8 DEF q, q1
<1>6. CASE k # 1
  <2>1. q[1] = e /\ Spent(t, e)
    <3> HIDE DEF q, e, h
    <3> QED BY <1>1, <1>4, <1>6 DEF Behind
  <2>2. e = Nop /\ o.sender \in t.user
    BY <2>1 DEF EnsureUser, CreateUser, Spent, Rigid
  <2>3. h = HandleUserAction(t, v, o)
    BY <2>2, NopSpent
  <2>4. o.sender \in t1.user
    BY <1>0, <2>2, AccountsStay
  <2>5. e1 = Nop /\ h1 = HandleUserAction(t1, v, o)
    BY <1>3, <2>4
  <2> DEFINE i == k - 1
  <2> HIDE DEF e, h, e1, h1, q, q1
  <2>6. i \in 1..Len(h) /\ k = i + 1 /\ i \in Nat
    BY <1>1, <1>4, <1>6 DEF Behind
  <2>7. q[k] = h[i] /\ \A j \in 1..i-1 : q[j+1] = h[j] /\ j + 1 \in 1..k-1
    BY <1>1, <2>6 DEF Behind
  <2>8. Cut(t, h, i)
    BY <1>4, <2>6, <2>7 DEF Cut, Issued
  <2>9. t1 = Apply(t, h[i])
    BY <2>7 DEF q
  <2> HIDE DEF i
  <2>10. GoesOn(h, i, t1, h1)
    BY <1>0, <2>3, <2>5, <2>8, <2>9, UserGoesOn
  <2>11. GoesOn(q, i + 1, t1, q1)
    BY <1>1, <1>2, <2>5, <2>6, <2>10, GoesBehind, NopSpent
  <2> QED BY <2>6, <2>11 DEF q, q1
<1> QED BY <1>5, <1>6

\* So does a payment that is only refunded.
LEMMA UnknownGoesOn ==
  ASSUME NEW o, NEW t, TablesShape(t), NEW k, Cut(t, HandleUnknown(t, o), k)
  PROVE  LET q == HandleUnknown(t, o)
             t1 == Apply(t, q[k])
         IN  GoesOn(q, k, t1, HandleUnknown(t1, o))
<1> DEFINE e == EnsureUser(t, o)
           w == RefundV0(o)
           q == <<e, w>>
           t1 == Apply(t, q[k])
           e1 == EnsureUser(t1, o)
<1>1. HandleUnknown(t, o) = q /\ HandleUnknown(t1, o) = <<e1, w>>
  BY DEF HandleUnknown
<1>2. Payment(w)
  BY Payments
<1>3. \/ k = 1 /\ Issued(e)
      \/ k = 2 /\ Spent(t, e) /\ Issued(w)
  <2> HIDE DEF e, w
  <2> QED BY <1>1, CutShort
<1>4. CASE k = 1 /\ Issued(e)
  <2>1. e = CreateUser(o.sender)
    BY <1>4 DEF EnsureUser, Nop, Issued
  <2>2. o.sender \in t1.user
    <3> HIDE DEF e
    <3>1. "user" \in DOMAIN t
      BY DEF TablesShape, Tables
    <3> QED BY <1>4, <2>1, <3>1 DEF Apply, CreateUser
  <2>3. e1 = Nop
    BY <2>2 DEF EnsureUser
  <2> HIDE DEF e, w, e1, t1
  <2>4. Spent(t1, e1)
    BY <2>3, NopSpent
  <2>5. GoesOn(<<e, w>>, 1, t1, <<e1, w>>)
    BY <2>4, GoesShort
  <2> QED BY <1>1, <1>4, <2>5 DEF t1
<1>5. CASE k = 2 /\ Spent(t, e) /\ Issued(w)
  <2>1. e = Nop /\ o.sender \in t.user
    BY <1>5 DEF EnsureUser, CreateUser, Spent, Rigid
  <2>2. t1 = Apply(t, w)
    BY <1>5
  <2>3. Spent(t1, w) /\ o.sender \in t1.user
    BY <1>2, <1>5, <2>1, <2>2, PaymentSpent, AccountsStay
  <2>4. e1 = Nop
    BY <2>3 DEF EnsureUser
  <2> HIDE DEF e, w, e1, t1
  <2>5. GoesOn(<<e, w>>, 2, t1, <<e1, w>>)
    BY <2>3, <2>4, NopSpent, GoesShort
  <2> QED BY <1>1, <1>5, <2>5 DEF t1
<1> QED BY <1>3, <1>4, <1>5

\* What the account and the refund of a payment leave alone, the price reads.
LEMMA PriceUnseen ==
  ASSUME NEW t, TablesShape(t), NEW w, NEW v, NEW o, Payment(w) \/ w = EnsureUser(t, o),
         NEW t1, t1 = Apply(t, w)
  PROVE  IsPrice(t1, v, o) <=> IsPrice(t, v, o)
<1>1. {"transfer", "user", "market", "ver", "signers"} \subseteq DOMAIN t
  BY DEF TablesShape, Tables
<1>2. t1.market = t.market /\ t1.ver = t.ver /\ t1.signers = t.signers
  <2>1. CASE w = Nop
    BY <2>1, NopSpent
  <2>2. CASE \E x : w = InsertTransfer(x)
    BY <1>1, <2>2 DEF InsertTransfer, Apply
  <2>3. CASE w = CreateUser(o.sender)
    BY <1>1, <2>3 DEF CreateUser, Apply
  <2> QED BY <2>1, <2>2, <2>3 DEF Payment, EnsureUser
<1>3. Outdated(t1, o.asset, o) <=> Outdated(t, o.asset, o)
  BY <1>2 DEF Outdated
<1>4. VerifyPriceData(t1, t1.market[o.asset], o) <=> VerifyPriceData(t, t.market[o.asset], o)
  BY <1>2 DEF VerifyPriceData
<1>5. IsPrice(t1, v, o) <=> IsPrice(t, v, o)
  BY <1>2, <1>3, <1>4 DEF IsPrice
<1> QED BY <1>5

\* A price report goes on: once the market is written it is outdated.
LEMMA PriceGoesOn ==
  ASSUME NEW t, TablesShape(t), NEW v, NEW o, Numbered(o), TypedOutput(o), IsPrice(t, v, o),
         NEW k, Cut(t, HandlePriceEvent(t, v, o), k)
  PROVE  LET q == HandlePriceEvent(t, v, o)
             t1 == Apply(t, q[k])
         IN  IsPrice(t1, v, o) /\ GoesOn(q, k, t1, HandlePriceEvent(t1, v, o))
<1> DEFINE a == o.asset
           m == FindMarket(t, a)
           at == IF v < 3 THEN o.time ELSE o.at
           n == [m EXCEPT !.price = o.price, !.priceAt = at]
           x == AccrueInterest(n, o.time)
           w == UpdateMarket(t, a, x, o.id)
           q == HandlePriceEvent(t, v, o)
           t1 == Apply(t, w)
<1>1. a \in Assets /\ o.act = "price" /\ t.market[a].exists
  BY DEF IsPrice, TypedOutput
<1>2. ~(Outdated(t, a, o) \/ Stale(v, m, o))
  <2>1. SUFFICES ASSUME Outdated(t, a, o) \/ Stale(v, m, o) PROVE FALSE
    OBVIOUS
  <2>2. q = <<>>
    BY <2>1 DEF HandlePriceEvent
  <2> QED BY <2>2, CutShort
<1>3. q = <<w>>
  BY <1>2 DEF HandlePriceEvent
<1> HIDE DEF w, q
<1>4. k = 1 /\ Issued(w)
  BY <1>3, CutShort DEF q
<1>5. {"exists", "closed", "p"} \subseteq DOMAIN t.market[a]
  BY <1>1 DEF TablesShape
<1>6. x.exists = t.market[a].exists
  <2>1. Kin(m, t.market[a]) /\ DOMAIN m = DOMAIN t.market[a]
    BY <1>5, MarketsKin DEF FindMarket
  <2> HIDE DEF m, at
  <2>2. {"exists", "closed", "p"} \subseteq DOMAIN n /\ n.exists = m.exists
    BY <1>5, <2>1
  <2> HIDE DEF n
  <2>3. Kin(x, n)
    BY <2>2, MarketsKin
  <2> QED BY <2>1, <2>2, <2>3 DEF Kin
<1> HIDE DEF x
<1>7. MarketWritten(t1, t, a, x, o)
  BY <1>1, <1>4, AfterMarket DEF w, Issued
<1>8. t1.market[a].exists /\ Outdated(t1, a, o)
  BY <1>1, <1>6, <1>7 DEF MarketWritten
<1> HIDE DEF t1
<1>9. IsPrice(t1, v, o)
  BY <1>1, <1>8 DEF IsPrice
<1>10. HandlePriceEvent(t1, v, o) = <<>>
  BY <1>8 DEF HandlePriceEvent
<1>11. GoesOn(<<w>>, 1, t1, <<>>)
  BY GoesNowhere
<1>12. t1 = Apply(t, q[k])
  BY <1>3, <1>4 DEF t1
<1> QED BY <1>3, <1>4, <1>9, <1>10, <1>11, <1>12 DEF q

\* Only a proposal's own statements write proposals.
LEMMA ProposalsStay ==
  ASSUME NEW t, TablesShape(t), NEW w, w.t \notin {"proposal", "newproposal"}
  PROVE  /\ Apply(t, w).proposal = t.proposal
         /\ \A p \in Proposals : Apply(t, w).ver[<<"proposal", p>>] = t.ver[<<"proposal", p>>]
<1>0. {"sysversion", "legacy", "tx", "transfer", "user", "property", "signers",
       "market", "supply", "borrow", "proposal", "ver"} \subseteq DOMAIN t
  BY DEF TablesShape, Tables
<1> USE RowKinds
<1>r. t.ver \in [Rows -> Nat]
  BY DEF TablesShape
<1>1. CASE w.t \in {"tx", "transfer", "user", "property", "signers"}
  BY <1>0, <1>r, <1>1 DEF Apply
<1>2. CASE w.t \in {"sysversion", "migrate", "newsupply", "newborrow"}
  BY <1>0, <1>r, <1>2 DEF Apply
<1>3. CASE w.t = "newmarket"
  BY <1>0, <1>r, <1>3 DEF Apply
<1>4. CASE w.t = "market"
  BY <1>0, <1>r, <1>4 DEF Apply
<1>5. CASE w.t \in {"supply", "borrow"}
  BY <1>0, <1>r, <1>5 DEF Apply
<1>6. CASE w.t \notin {"tx", "transfer", "user", "property", "signers", "sysversion",
                      "migrate", "newsupply", "newborrow", "newmarket", "market", "supply", "borrow"}
  BY <1>6 DEF Apply
<1> QED BY <1>1, <1>2, <1>3, <1>4, <1>5, <1>6

\* A statement that decides nothing about proposals, and after which the plan goes on.
Passes(q, k, t, r) == GoesOn(q, k, t, r) /\ q[k].t \notin {"proposal", "newproposal"}

\* Listing or changing a market passes.
LEMMA MarketPasses ==
  ASSUME NEW t, TablesShape(t), NEW o, Numbered(o), NEW c, c.asset \in Assets,
         NEW k, Cut(t, HandleMarketEvent(t, o, c), k)
  PROVE  LET q == HandleMarketEvent(t, o, c)
             t1 == Apply(t, q[k])
         IN  Passes(q, k, t1, HandleMarketEvent(t1, o, c))
<1> DEFINE a == c.asset
           m == Loaded(t, a, o)
           new == [NoMarket EXCEPT !.exists = TRUE, !.symbol = c.symbol, !.ctoken = c.ctoken,
                     !.p = c.p, !.rate = c.p["init"],
                     !.index = ONE, !.price = c.price, !.priceAt = o.time]
           changed == [m EXCEPT !.p = [n \in ParamNames |->
                                        IF Accepts(n, c.p[n]) THEN c.p[n] ELSE @[n]],
                               !.price = IF c.price > 0 THEN c.price ELSE @]
           q == HandleMarketEvent(t, o, c)
           t1 == Apply(t, q[k])
<1>1. ASSUME t1.market[a].exists, \A y : UpdateMarket(t1, a, y, o.id) = Nop
      PROVE  HandleMarketEvent(t1, o, c) = <<Nop>>
  <2> HIDE DEF t1
  <2> QED BY <1>1 DEF HandleMarketEvent
<1>2. ASSUME NEW w, q = <<w>>, k = 1, t1.market[a].exists, \A y : UpdateMarket(t1, a, y, o.id) = Nop,
             w.t \notin {"proposal", "newproposal"}
      PROVE  Passes(q, k, t1, HandleMarketEvent(t1, o, c))
  <2>1. HandleMarketEvent(t1, o, c) = <<Nop>>
    BY <1>1, <1>2
  <2> HIDE DEF t1, q
  <2>2. GoesOn(<<w>>, 1, t1, <<Nop>>)
    BY NopSpent, GoesShort
  <2>3. GoesOn(q, k, t1, HandleMarketEvent(t1, o, c))
    BY <1>2, <2>1, <2>2
  <2>4. q[k] = w
    BY <1>2
  <2> QED BY <1>2, <2>3, <2>4 DEF Passes
<1>3. CASE ~t.market[a].exists
  <2> DEFINE w == CreateMarket(a, new, o.id)
  <2>0. ~NameTaken(t, c.symbol, c.ctoken)
    <3>1. ~Issued(Halt)
      BY DEF Issued, Halt
    <3>2. ASSUME q = <<Halt>> PROVE FALSE
      BY <3>1, <3>2, CutShort
    <3> QED BY <1>3, <3>2 DEF HandleMarketEvent
  <2>1. q = <<w>>
    BY <1>3, <2>0 DEF HandleMarketEvent
  <2>2. new.exists = TRUE
    BY DEF NoMarket
  <2> HIDE DEF new, w
  <2>3. k = 1
    BY <2>1, CutShort
  <2> DEFINE t2 == Apply(t, w)
  <2>4. t2.market[a].exists /\ t2.ver[<<"market", a>>] = o.id
    <3>1. {"market", "ver"} \subseteq DOMAIN t /\ a \in DOMAIN t.market /\ t.ver \in [Rows -> Nat]
      BY DEF TablesShape, Tables
    <3>2. <<"market", a>> \in DOMAIN t.ver
      BY <3>1, RowKinds
    <3>3. w.t = "newmarket" /\ w.key = a /\ w.data = new /\ w.new = o.id
      BY DEF w, CreateMarket
    <3> HIDE DEF a
    <3>4. t2 = [t EXCEPT !.market[a] = new, !.ver[<<"market", a>>] = o.id]
      BY <1>3, <3>3 DEF Apply
    <3> QED BY <2>2, <3>1, <3>2, <3>4
  <2>5. \A y : UpdateMarket(t2, a, y, o.id) = Nop
    <3> HIDE DEF t2, a
    <3> QED BY <2>4 DEF UpdateMarket, Update, Numbered
  <2>6. t1 = t2
    BY <2>1, <2>3
  <2>7. w.t \notin {"proposal", "newproposal"}
    BY DEF w, CreateMarket
  <2> HIDE DEF t1, t2, q, a
  <2>8. t1.market[a].exists /\ \A y : UpdateMarket(t1, a, y, o.id) = Nop
    BY <2>4, <2>5, <2>6
  <2>9. Passes(q, k, t1, HandleMarketEvent(t1, o, c))
    BY <1>2, <2>1, <2>3, <2>7, <2>8
  <2> QED BY <2>9 DEF q, t1
<1>4. CASE t.market[a].exists
  <2> DEFINE w == UpdateMarket(t, a, changed, o.id)
  <2>1. q = <<w>>
    BY <1>4 DEF HandleMarketEvent
  <2>2. changed.exists = t.market[a].exists
    <3>1. Kin(m, t.market[a])
      BY LoadedKin
    <3>2. "exists" \in DOMAIN m
      <4>1. {"exists", "closed", "p"} \subseteq DOMAIN t.market[a]
        BY DEF TablesShape
      <4>2. /\ Kin(FindMarket(t, a), t.market[a])
            /\ DOMAIN FindMarket(t, a) = DOMAIN t.market[a]
        BY <4>1, MarketsKin DEF FindMarket
      <4>3. {"exists", "closed", "p"} \subseteq DOMAIN FindMarket(t, a)
        BY <4>1, <4>2
      <4> QED BY <4>1, <4>2, <4>3, MarketsKin DEF Loaded
    <3> HIDE DEF m, a
    <3>3. changed.exists = m.exists
      BY <3>2
    <3> QED BY <3>1, <3>3 DEF Kin
  <2> HIDE DEF changed, w
  <2>3. k = 1 /\ Issued(w)
    BY <2>1, CutShort
  <2> DEFINE t2 == Apply(t, w)
  <2>4. MarketWritten(t2, t, a, changed, o)
    BY <2>3, AfterMarket DEF w, Issued
  <2>5. t2.market[a].exists /\ \A y : UpdateMarket(t2, a, y, o.id) = Nop
    BY <1>4, <2>2, <2>4 DEF MarketWritten
  <2>6. t1 = t2
    BY <2>1, <2>3
  <2>7. w.t \notin {"proposal", "newproposal"}
    BY DEF w, UpdateMarket, Update, Nop
  <2> HIDE DEF t1, t2, q, a
  <2>8. t1.market[a].exists /\ \A y : UpdateMarket(t1, a, y, o.id) = Nop
    BY <2>5, <2>6
  <2>9. Passes(q, k, t1, HandleMarketEvent(t1, o, c))
    BY <1>2, <2>1, <2>3, <2>7, <2>8
  <2> QED BY <2>9 DEF q, t1
<1> QED BY <1>3, <1>4

\* Opening or closing it does.
LEMMA StatusPasses ==
  ASSUME NEW t, TablesShape(t), NEW o, Numbered(o), NEW c, c.asset \in Assets,
         NEW k, Cut(t, HandleMarketStatus(t, o, c), k)
  PROVE  LET q == HandleMarketStatus(t, o, c)
             t1 == Apply(t, q[k])
         IN  Passes(q, k, t1, HandleMarketStatus(t1, o, c))
<1> DEFINE a == c.asset
           m == Loaded(t, a, o)
           changed == [m EXCEPT !.closed = (c.act = "close-market")]
           w == UpdateMarket(t, a, changed, o.id)
           t2 == Apply(t, w)
           q == HandleMarketStatus(t, o, c)
           t1 == Apply(t, q[k])
<1>1. t.market[a].exists
  <2>1. SUFFICES ASSUME ~t.market[a].exists PROVE FALSE
    OBVIOUS
  <2>2. q = <<>>
    BY <2>1 DEF HandleMarketStatus
  <2> QED BY <2>2, CutShort
<1>2. q = <<w>>
  BY <1>1 DEF HandleMarketStatus
<1>3. changed.exists = t.market[a].exists
  <2>1. Kin(m, t.market[a])
    BY LoadedKin
  <2>2. "exists" \in DOMAIN m
    <3>1. {"exists", "closed", "p"} \subseteq DOMAIN t.market[a]
      BY DEF TablesShape
    <3>2. /\ Kin(FindMarket(t, a), t.market[a])
          /\ DOMAIN FindMarket(t, a) = DOMAIN t.market[a]
      BY <3>1, MarketsKin DEF FindMarket
    <3>3. {"exists", "closed", "p"} \subseteq DOMAIN FindMarket(t, a)
      BY <3>1, <3>2
    <3> QED BY <3>1, <3>2, <3>3, MarketsKin DEF Loaded
  <2> HIDE DEF m, a
  <2>3. changed.exists = m.exists
    BY <2>2
  <2> QED BY <2>1, <2>3 DEF Kin
<1> HIDE DEF changed, w
<1>4. k = 1 /\ Issued(w)
  BY <1>2, CutShort
<1>5. MarketWritten(t2, t, a, changed, o)
  BY <1>4, AfterMarket DEF w, Issued
<1>6. t2.market[a].exists /\ \A y : UpdateMarket(t2, a, y, o.id) = Nop
  BY <1>1, <1>3, <1>5 DEF MarketWritten
<1> HIDE DEF t2
<1>7. HandleMarketStatus(t2, o, c) = <<Nop>>
  BY <1>6 DEF HandleMarketStatus
<1>8. GoesOn(<<w>>, 1, t2, <<Nop>>)
  BY NopSpent, GoesShort
<1>9. t1 = t2 /\ q[k] = w
  BY <1>2, <1>4 DEF t2
<1>10. w.t \notin {"proposal", "newproposal"}
  BY DEF w, UpdateMarket, Update, Nop
<1> HIDE DEF t1, q
<1>11. Passes(q, k, t1, HandleMarketStatus(t1, o, c))
  BY <1>2, <1>4, <1>7, <1>8, <1>9, <1>10 DEF Passes
<1> QED BY <1>11 DEF t1, q

\* Paying out reserves does: once the market is written, the payment is spent.
LEMMA WithdrawPasses ==
  ASSUME NEW t, TablesShape(t), NEW o, Numbered(o), NEW p, NEW c, c.asset \in Assets,
         NEW k, Cut(t, HandleWithdraw(t, o, p, c), k)
  PROVE  LET q == HandleWithdraw(t, o, p, c)
             t1 == Apply(t, q[k])
         IN  Passes(q, k, t1, HandleWithdraw(t1, o, p, c))
<1> DEFINE a == c.asset
           m == FindMarket(t, a)
           amount == Trunc8(c.amount)
           tr == [trace |-> <<"prop", p, "withdraw">>, cur |-> Currency(c.asset),
                  amount |-> amount, to |-> c.to]
           n == [m EXCEPT !.cash = @ - amount, !.reserves = @ - amount]
           x == AccrueInterest(n, o.time)
           w == InsertTransfer(tr)
           u == UpdateMarket(t, a, x, o.id)
           q == HandleWithdraw(t, o, p, c)
           t1 == Apply(t, q[k])
           q1 == HandleWithdraw(t1, o, p, c)
<1>1. t.market[a].exists /\ ~(amount > m.reserves)
  <2>1. SUFFICES ASSUME ~t.market[a].exists \/ amount > m.reserves PROVE FALSE
    OBVIOUS
  <2>2. q = <<>>
    BY <2>1 DEF HandleWithdraw
  <2> QED BY <2>2, CutShort
<1>2. q = <<w, u>>
  BY <1>1 DEF HandleWithdraw
<1>3. Payment(w) /\ w.t \notin {"proposal", "newproposal"}
  BY DEF Payment, InsertTransfer
<1>4. u.t \notin {"proposal", "newproposal"}
  BY DEF UpdateMarket, Update, Nop
<1>5. x.exists = t.market[a].exists
  <2>1. {"exists", "closed", "p"} \subseteq DOMAIN t.market[a]
    BY DEF TablesShape
  <2>2. Kin(m, t.market[a]) /\ DOMAIN m = DOMAIN t.market[a]
    BY <2>1, MarketsKin DEF FindMarket
  <2> HIDE DEF m, amount
  <2>3. {"exists", "closed", "p"} \subseteq DOMAIN n /\ n.exists = m.exists
    BY <2>1, <2>2
  <2> HIDE DEF n
  <2>4. Kin(x, n)
    BY <2>3, MarketsKin
  <2> QED BY <2>2, <2>3, <2>4 DEF Kin
<1>6. \/ k = 1 /\ Issued(w)
      \/ k = 2 /\ Spent(t, w) /\ Issued(u)
  <2> HIDE DEF w, u, q
  <2> QED BY <1>2, CutShort DEF q
<1>7. CASE k = 1 /\ Issued(w)
  <2>1. t1 = Apply(t, w)
    BY <1>2, <1>7
  <2>2. Untouched(t1, t) /\ Spent(t1, w)
    <3> HIDE DEF w, q
    <3> QED BY <1>3, <1>7, <2>1, PaymentSpent
  <2>3. t1.market = t.market /\ t1.ver = t.ver
    BY <2>2 DEF Untouched
  <2>4. q1 = <<w, u>>
    <3> HIDE DEF t1
    <3>1. FindMarket(t1, a) = m
      BY <2>3, ReadAlike
    <3>2. UpdateMarket(t1, a, x, o.id) = u
      BY <2>3, ReadAlike
    <3> QED BY <1>1, <2>3, <3>1, <3>2 DEF HandleWithdraw
  <2> HIDE DEF w, u, t1, q1, q
  <2>5. GoesOn(<<w, u>>, 1, t1, <<w, u>>)
    BY <2>2, GoesShort
  <2>6. Passes(q, k, t1, q1)
    BY <1>2, <1>3, <1>7, <2>4, <2>5 DEF Passes
  <2> QED BY <2>6 DEF q, t1, q1
<1>8. CASE k = 2 /\ Spent(t, w) /\ Issued(u)
  <2>1. t1 = Apply(t, u)
    BY <1>2, <1>8
  <2>2. MarketWritten(t1, t, a, x, o)
    <3> HIDE DEF x, q
    <3> QED BY <1>8, <2>1, AfterMarket DEF Issued
  <2>3. t1.market[a].exists /\ t1.transfer = t.transfer /\ \A y : UpdateMarket(t1, a, y, o.id) = Nop
    BY <1>1, <1>5, <2>2 DEF MarketWritten
  <2>4. Spent(t1, w)
    BY <1>3, <1>8, <2>3, TransferFound
  <2>5. q1 = <<>> \/ q1 = <<w, Nop>>
    <3> HIDE DEF t1
    <3> QED BY <2>3 DEF HandleWithdraw
  <2> HIDE DEF w, u, t1, q1, q
  <2>6. GoesOn(<<w, u>>, 2, t1, <<w, Nop>>)
    BY <2>4, NopSpent, GoesShort
  <2>7. GoesOn(<<w, u>>, 2, t1, <<>>)
    BY GoesNowhere
  <2>8. Passes(q, k, t1, q1)
    BY <1>2, <1>4, <1>8, <2>5, <2>6, <2>7 DEF Passes
  <2> QED BY <2>8 DEF q, t1, q1
<1> QED BY <1>6, <1>7, <1>8

\* Registering a signer, or removing one, does.
LEMMA SignerPasses ==
  ASSUME NEW t, TablesShape(t), NEW c, NEW k, Cut(t, HandleOracleSigner(t, c), k)
  PROVE  LET q == HandleOracleSigner(t, c)
             t1 == Apply(t, q[k])
         IN  Passes(q, k, t1, HandleOracleSigner(t1, c))
<1> DEFINE ss == IF c.act = "add-oracle-signer" THEN t.signers \cup {c.signer} ELSE t.signers \ {c.signer}
           w == SaveSigners(ss)
           q == HandleOracleSigner(t, c)
           t1 == Apply(t, q[k])
<1>1. ~Malformed(c)
  <2>1. SUFFICES ASSUME Malformed(c) PROVE FALSE
    OBVIOUS
  <2>2. q = <<>>
    BY <2>1 DEF HandleOracleSigner
  <2> QED BY <2>2, CutShort
<1>2. q = <<w>>
  BY <1>1 DEF HandleOracleSigner
<1>3. k = 1
  <2> HIDE DEF w, q
  <2> QED BY <1>2, CutShort DEF q
<1>4. t1 = [t EXCEPT !.signers = ss] /\ t1.signers = ss
  <2>1. t1 = Apply(t, w)
    BY <1>2, <1>3
  <2>2. "signers" \in DOMAIN t
    BY DEF TablesShape, Tables
  <2> HIDE DEF ss
  <2> QED BY <2>1, <2>2 DEF Apply, SaveSigners
<1>5. HandleOracleSigner(t1, c) = <<w>>
  <2>1. IF c.act = "add-oracle-signer" THEN t1.signers \cup {c.signer} = ss
                                       ELSE t1.signers \ {c.signer} = ss
    BY <1>4
  <2> HIDE DEF t1
  <2> QED BY <1>1, <2>1 DEF HandleOracleSigner
<1>6. Spent(t1, w)
  <2> HIDE DEF ss, t1
  <2> QED BY <1>4 DEF Spent, Apply, SaveSigners, Rigid, Versioned
<1>7. w.t \notin {"proposal", "newproposal"}
  BY DEF SaveSigners
<1> HIDE DEF w, t1, q
<1>8. GoesOn(<<w>>, 1, t1, <<w>>)
  BY <1>6, GoesShort
<1>9. Passes(q, k, t1, HandleOracleSigner(t1, c))
  BY <1>2, <1>3, <1>5, <1>7, <1>8 DEF Passes
<1> QED BY <1>9 DEF q, t1

\* Plans of one statement put together.
LEMMA Joined ==
  ASSUME NEW x, NEW y
  PROVE  <<x>> \o <<y>> = <<x, y>> /\ <<>> \o <<y>> = <<y>>
<1>1. <<x>> \o <<y>> = <<x, y>>
  <2>1. <<x>> \in Seq({x, y}) /\ <<y>> \in Seq({x, y})
    OBVIOUS
  <2> DEFINE r == <<x>> \o <<y>>
  <2>2. r \in Seq({x, y}) /\ Len(r) = 2 /\ r[1] = x /\ r[2] = y
    BY <2>1
  <2> HIDE DEF r
  <2>3. r = <<x, y>>
    BY <2>2
  <2> QED BY <2>3 DEF r
<1>2. <<>> \o <<y>> = <<y>>
  <2>1. <<>> \in Seq({y}) /\ <<y>> \in Seq({y})
    OBVIOUS
  <2> QED BY <2>1
<1> QED BY <1>1, <1>2

\* A page is spent when nobody on it has an address of version 0.
LEMMA SpentPage ==
  ASSUME NEW t, "legacy" \in DOMAIN t, NEW U, NEW t1, t1 = Apply(t, MigrateToV1(U))
  PROVE  /\ t1.legacy = t.legacy \ U /\ Spent(t1, MigrateToV1({}))
         /\ Spent(t, MigrateToV1(U)) => t1 = t
<1>1. ASSUME NEW s, NEW V PROVE Apply(s, MigrateToV1(V)) = [s EXCEPT !.legacy = @ \ V]
  BY DEF Apply, MigrateToV1
<1>2. MigrateToV1({}).t = "migrate"
  BY DEF MigrateToV1
<1>3. t1 = [t EXCEPT !.legacy = @ \ U] /\ t1.legacy = t.legacy \ U
  BY <1>1
<1>4. [t1 EXCEPT !.legacy = @ \ {}] = t1
  BY <1>3
<1>5. Spent(t1, MigrateToV1({}))
  BY <1>1, <1>2, <1>4 DEF Spent, Rigid, Versioned
<1> QED BY <1>3, <1>5 DEF Spent

\* Saving a property does, up to the version, which is the last statement.
LEMMA PropertyPasses ==
  ASSUME NEW t, TablesShape(t), NEW v, NEW c, NEW k, Cut(t, SetProperty(t, v, c), k)
  PROVE  LET q == SetProperty(t, v, c)
             t1 == Apply(t, q[k])
         IN  Passes(q, k, t1, SetProperty(t1, v, c))
<1> DEFINE w == SaveProperty(c.key, c.value)
           q == SetProperty(t, v, c)
           t1 == Apply(t, q[k])
           q1 == SetProperty(t1, v, c)
<1>0. {"legacy", "property", "sysversion"} \subseteq DOMAIN t
  BY DEF TablesShape, Tables
<1>p. ASSUME NEW s, ValidateProposal(v, c) \notin {"refused", "halt"},
             ~(c.key = "sysversion" /\ v < 1)
      PROVE  SetProperty(s, v, c) = <<w>>
  <2>1. SetProperty(s, v, c) = <<>> \o <<w>>
    BY <1>p DEF SetProperty, MigrateSystem
  <2> HIDE DEF w
  <2> QED BY <2>1, Joined
<1>1. ValidateProposal(v, c) \notin {"refused", "halt"}
  <2>1. SUFFICES ASSUME ValidateProposal(v, c) \in {"refused", "halt"} PROVE FALSE
    OBVIOUS
  <2>2. q = <<>> \/ q = <<Halt>>
    BY <2>1 DEF SetProperty
  <2>3. ~Issued(Halt)
    BY DEF Issued, Halt
  <2> HIDE DEF q
  <2> QED BY <2>2, <2>3, CutShort DEF q
<1>2. CASE c.key = "sysversion" /\ v < 1
  <2> DEFINE n == Len(UserPages)
             old(i) == UserPages[i] \cap t.legacy
             left(i) == UserPages[i] \cap t1.legacy
  <2>0. ByPages(q, t.legacy, w) /\ ByPages(q1, t1.legacy, w)
    <3> HIDE DEF t1
    <3> QED BY <1>1, <1>2, VersionPlan
  <2>1. /\ n \in Nat /\ Len(q) = n + 1 /\ q[n+1] = w
        /\ \A i \in 1..n : q[i] = MigrateToV1(old(i))
    <3> HIDE DEF q, w
    <3> QED BY <2>0 DEF ByPages
  <2>2. /\ Len(q1) = n + 1 /\ q1[n+1] = w
        /\ \A i \in 1..n : q1[i] = MigrateToV1(left(i))
    <3> HIDE DEF t1, q1, w
    <3> QED BY <2>0 DEF ByPages
  <2>3. k \in 1..n /\ \A i \in 1..k-1 : Spent(t, q[i])
    <3>1. ~Issued(w)
      BY <1>2 DEF SaveProperty, Issued
    <3>2. k \in 1..Len(q) /\ Issued(q[k]) /\ \A i \in 1..k-1 : Spent(t, q[i])
      BY DEF Cut, Issued
    <3> HIDE DEF q, w
    <3> QED BY <2>1, <3>1, <3>2
  <2>4. t1.legacy = t.legacy \ old(k) /\ Spent(t1, MigrateToV1({}))
    <3>1. t1 = Apply(t, MigrateToV1(old(k)))
      BY <2>1, <2>3
    <3> HIDE DEF t1
    <3> QED BY <1>0, <3>1, SpentPage
  <2> HIDE DEF w, t1, q, q1
  <2>5. ASSUME NEW i \in 1..n, i > k PROVE q1[i] = q[i]
    <3>1. UserPages[i] \cap UserPages[k] = {}
      BY <2>3, <2>5, GovernanceAssumption
    <3>2. left(i) = old(i)
      BY <2>4, <3>1
    <3> QED BY <2>1, <2>2, <3>2
  <2>6. ASSUME NEW i \in 1..n, i <= k PROVE Spent(t1, q1[i])
    <3>1. CASE i = k
      <4>1. left(i) = {}
        BY <2>4, <3>1
      <4> QED BY <2>2, <2>4, <4>1
    <3>2. CASE i # k
      <4>1. i \in 1..k-1
        BY <2>3, <2>6, <3>2
      <4>2. Spent(t, MigrateToV1(old(i)))
        BY <2>1, <2>3, <4>1
      <4>3. old(i) = {}
        BY <1>0, <4>2, SpentPage
      <4>4. left(i) = {}
        BY <2>4, <4>3
      <4> QED BY <2>2, <2>4, <4>4
    <3> QED BY <3>1, <3>2
  <2>7. \A i \in 1..Len(q) : IF i > k THEN q1[i] = q[i] ELSE Spent(t1, q1[i])
    <3> HIDE DEF n
    <3> QED BY <2>1, <2>2, <2>3, <2>5, <2>6
  <2>8. GoesOn(q, k, t1, q1)
    <3> HIDE DEF n
    <3> QED BY <2>1, <2>2, <2>3, <2>7, GoesStraight
  <2>9. q[k].t \notin {"proposal", "newproposal"}
    <3>1. \A U : MigrateToV1(U).t = "migrate"
      BY DEF MigrateToV1
    <3>2. q[k] = MigrateToV1(old(k))
      BY <2>1, <2>3
    <3> QED BY <3>1, <3>2
  <2> QED BY <2>8, <2>9 DEF Passes, q, q1, t1
<1>3. CASE ~(c.key = "sysversion" /\ v < 1)
  <2>1. q = <<w>>
    BY <1>1, <1>3, <1>p
  <2>2. k = 1 /\ Issued(w)
    <3> HIDE DEF w, q
    <3> QED BY <2>1, CutShort DEF q
  <2>3. c.key # "sysversion"
    BY <2>2 DEF SaveProperty, Issued
  <2> DEFINE d == [key |-> c.key, value |-> c.value]
             P == {x \in t.property : x.key # c.key} \cup {d}
  <2>4. w = [t |-> "property", key |-> c.key, data |-> d]
    BY <2>3 DEF SaveProperty
  <2>5. t1 = [t EXCEPT !.property = P] /\ t1.property = P
    <3>1. t1 = Apply(t, w)
      BY <2>1, <2>2
    <3> HIDE DEF d, t1, w
    <3>2. Apply(t, w) = [t EXCEPT !.property = {x \in @ : x.key # c.key} \cup {d}]
      BY <2>4 DEF Apply
    <3>3. t1 = [t EXCEPT !.property = P]
      BY <3>1, <3>2
    <3> QED BY <1>0, <3>3
  <2>6. q1 = <<w>>
    <3> HIDE DEF t1, w
    <3> QED BY <1>1, <1>3, <1>p
  <2>7. Spent(t1, w)
    <3>1. {x \in P : x.key # c.key} \cup {d} = P
      OBVIOUS
    <3> HIDE DEF P, d, t1
    <3>2. Apply(t1, w) = [t1 EXCEPT !.property = {x \in @ : x.key # c.key} \cup {d}]
      BY <2>4 DEF Apply
    <3>3. Apply(t1, w) = t1
      BY <2>5, <3>1, <3>2
    <3> QED BY <2>4, <3>3 DEF Spent, Rigid, Versioned
  <2>8. w.t \notin {"proposal", "newproposal"}
    BY <2>4
  <2> HIDE DEF w, t1, q, q1
  <2>9. GoesOn(<<w>>, 1, t1, <<w>>)
    BY <2>7, GoesShort
  <2>10. Passes(q, k, t1, q1)
    BY <2>1, <2>2, <2>6, <2>8, <2>9 DEF Passes
  <2> QED BY <2>10 DEF q, q1, t1
<1> QED BY <1>2, <1>3

\* Whatever a passed proposal decides, it goes on after any of its statements but
\* the new version itself.
LEMMA PassedPasses ==
  ASSUME NEW t, TablesShape(t), NEW v, NEW o, Numbered(o), NEW p, NEW c, TypedContent(c),
         NEW k, Cut(t, HandlePassedProposal(t, v, o, p, c), k)
  PROVE  LET q == HandlePassedProposal(t, v, o, p, c)
             t1 == Apply(t, q[k])
         IN  Passes(q, k, t1, HandlePassedProposal(t1, v, o, p, c))
<1>1. CASE c.act = "market"
  <2>1. \A s : HandlePassedProposal(s, v, o, p, c) = HandleMarketEvent(s, o, c)
    BY <1>1 DEF HandlePassedProposal
  <2>2. c.asset \in Assets
    BY <1>1 DEF TypedContent
  <2> QED BY <2>1, <2>2, MarketPasses
<1>2. CASE c.act = "withdraw"
  <2>1. \A s : HandlePassedProposal(s, v, o, p, c) = HandleWithdraw(s, o, p, c)
    BY <1>2 DEF HandlePassedProposal
  <2>2. c.asset \in Assets
    BY <1>2 DEF TypedContent
  <2> QED BY <2>1, <2>2, WithdrawPasses
<1>3. CASE c.act \in {"open-market", "close-market"}
  <2>1. \A s : HandlePassedProposal(s, v, o, p, c) = HandleMarketStatus(s, o, c)
    BY <1>3 DEF HandlePassedProposal
  <2>2. c.asset \in Assets
    BY <1>3 DEF TypedContent
  <2> QED BY <2>1, <2>2, StatusPasses
<1>4. CASE c.act \in {"add-oracle-signer", "rm-oracle-signer"}
  <2>1. \A s : HandlePassedProposal(s, v, o, p, c) = HandleOracleSigner(s, c)
    BY <1>4 DEF HandlePassedProposal
  <2> QED BY <2>1, SignerPasses
<1>5. CASE c.act = "set-property"
  <2>1. \A s : HandlePassedProposal(s, v, o, p, c) = SetProperty(s, v, c)
    BY <1>5 DEF HandlePassedProposal
  <2> QED BY <2>1, PropertyPasses
<1>6. CASE c.act \notin {"market", "withdraw", "open-market", "close-market",
                        "add-oracle-signer", "rm-oracle-signer", "set-property"}
  <2>1. HandlePassedProposal(t, v, o, p, c) = <<>>
    BY <1>6 DEF HandlePassedProposal
  <2> QED BY <2>1, CutShort
<1> QED BY <1>1, <1>2, <1>3, <1>4, <1>5, <1>6

\* What the admins are told, and what is paid on, change no table.
LEMMA NewsSpent ==
  ASSUME NEW t, NEW v
  PROVE  /\ \A p, u : Spent(t, ProposalCreated(p, u, v)) /\ Spent(t, ProposalApproved(p, u, v))
         /\ \A p : Spent(t, ProposalPassed(p, v))
         /\ \A o, p, act : Spent(t, ForwardProposal(v, o, p, act))
<1>1. \A m : Spent(t, Notify(m)) /\ Spent(t, Forward(m))
  BY DEF Spent, Notify, Forward, Apply, Rigid, Versioned
<1> QED BY <1>1 DEF ProposalCreated, ProposalApproved, ProposalPassed, ForwardProposal

\* After a statement that changed nothing the same plan goes on.
LEMMA IdleGoesOn ==
  ASSUME NEW t, NEW q, Len(q) \in Nat, NEW k, Cut(t, q, k), Spent(t, q[k])
  PROVE  Apply(t, q[k]) = t /\ GoesOn(q, k, t, q)
<1>1. k \in Nat /\ \A j \in 1..Len(q) : IF j > k THEN q[j] = q[j] ELSE Spent(t, q[j])
  BY DEF Cut
<1>2. GoesOn(q, k, t, q)
  BY <1>1, GoesStraight
<1> QED BY <1>2 DEF Spent

\* A proposal that was made is there.
LEMMA CreatedSpent ==
  ASSUME NEW t, TablesShape(t), NEW p, NEW r, NEW id, NEW w, w = CreateProposal(p, r, id)
  PROVE  Spent(Apply(t, w), w)
<1> DEFINE t1 == Apply(t, w)
<1>1. w.t = "newproposal" /\ w.key = p /\ w.data = r /\ w.new = id
  BY DEF CreateProposal
<1>2. CASE t.proposal[p].exists
  <2>1. t1 = t
    BY <1>1, <1>2 DEF Apply
  <2> QED BY <1>1, <2>1 DEF Spent, Rigid, Versioned
<1>3. CASE ~t.proposal[p].exists
  <2>1. t1 = [t EXCEPT !.proposal[p] = r, !.ver[<<"proposal", p>>] = id]
    BY <1>1, <1>3 DEF Apply
  <2>2. Apply(t1, w) \in {t1, [t1 EXCEPT !.proposal[p] = r, !.ver[<<"proposal", p>>] = id]}
    <3> HIDE DEF t1
    <3> QED BY <1>1 DEF Apply
  <2> HIDE DEF t1
  <2>3. [t1 EXCEPT !.proposal[p] = r, !.ver[<<"proposal", p>>] = id] = t1
    BY <2>1
  <2> QED BY <1>1, <2>2, <2>3 DEF t1, Spent, Rigid, Versioned
<1> QED BY <1>2, <1>3

\* A plan whose first statement is the only one that changes anything.
LEMMA FirstGoesOn ==
  ASSUME NEW t, NEW w, NEW q, q = <<w>> \/ \E x : q = <<w, x>> /\ Spent(t, x),
         NEW k, Cut(t, q, k), ~Spent(t, q[k]), Spent(Apply(t, w), w)
  PROVE  q[k] = w /\ GoesOn(q, k, Apply(t, w), q)
<1>1. CASE q = <<w>>
  <2>1. k = 1
    BY <1>1, CutShort
  <2> QED BY <1>1, <2>1, GoesShort
<1>2. CASE \E x : q = <<w, x>> /\ Spent(t, x)
  <2>1. PICK x : q = <<w, x>> /\ Spent(t, x)
    BY <1>2
  <2>2. k = 1 \/ k = 2
    BY <2>1, CutShort
  <2>3. k = 1
    BY <2>1, <2>2
  <2> QED BY <2>1, <2>3, GoesShort
<1> QED BY <1>1, <1>2

\* Making a proposal reads no table.
LEMMA MakeGoesOn ==
  ASSUME NEW t, TablesShape(t), NEW v, NEW o, NEW k
  PROVE  LET q == HandleMakeProposal(t, v, o)
             t1 == Apply(t, q[k])
         IN  Cut(t, q, k) /\ ~Spent(t, q[k]) => GoesOn(q, k, t1, HandleMakeProposal(t1, v, o))
<1> DEFINE q == HandleMakeProposal(t, v, o)
           t1 == Apply(t, q[k])
           w == CreateProposal(o.id, NewProposal(o.content), o.id)
<1>1. SUFFICES ASSUME Cut(t, q, k), ~Spent(t, q[k])
               PROVE  GoesOn(q, k, t1, q)
  <2>1. HandleMakeProposal(t1, v, o) = q
    BY DEF HandleMakeProposal
  <2> HIDE DEF q
  <2> QED BY <2>1 DEF q
<1>2. \/ q = <<w>>
      \/ q = <<w>> \o <<ProposalCreated(o.id, o.sender, v)>>
      \/ q = <<w>> \o <<ForwardProposal(v, o, o.id, "shout")>>
  <2>1. ~Issued(Halt)
    BY DEF Issued, Halt
  <2>2. q # <<>> /\ q # <<Halt>>
    <3> HIDE DEF q
    <3> QED BY <1>1, <2>1, CutShort
  <2>3. <<w>> \o <<>> = <<w>>
    <3> HIDE DEF w
    <3>1. <<w>> \in Seq({w}) /\ <<>> \in Seq({w})
      OBVIOUS
    <3> QED BY <3>1
  <2> HIDE DEF w
  <2> QED BY <2>2, <2>3 DEF HandleMakeProposal, w
<1>3. q = <<w>> \/ \E x : q = <<w, x>> /\ Spent(t, x)
  <2> HIDE DEF w, q
  <2> QED BY <1>2, NewsSpent, Joined
<1>4. Spent(Apply(t, w), w)
  BY CreatedSpent
<1> HIDE DEF w, q
<1>5. q[k] = w /\ GoesOn(q, k, Apply(t, w), q)
  BY <1>1, <1>3, <1>4, FirstGoesOn
<1> QED BY <1>5

\* Nor does it in version 0.
LEMMA CreateV0GoesOn ==
  ASSUME NEW t, TablesShape(t), NEW v, NEW o, NEW k
  PROVE  LET q == HandleCreateProposalV0(t, v, o)
             t1 == Apply(t, q[k])
         IN  Cut(t, q, k) /\ ~Spent(t, q[k]) => GoesOn(q, k, t1, HandleCreateProposalV0(t1, v, o))
<1> DEFINE q == HandleCreateProposalV0(t, v, o)
           t1 == Apply(t, q[k])
           w == CreateProposal(o.id, NewProposal(o.content), 0)
           x == ProposalCreated(o.id, o.member, v)
<1>1. SUFFICES ASSUME Cut(t, q, k), ~Spent(t, q[k])
               PROVE  GoesOn(q, k, t1, q)
  <2>1. HandleCreateProposalV0(t1, v, o) = q
    BY DEF HandleCreateProposalV0
  <2> HIDE DEF q
  <2> QED BY <2>1 DEF q
<1>2. q = <<w, x>>
  <2>1. ~Issued(Halt)
    BY DEF Issued, Halt
  <2>2. q # <<>> /\ q # <<Halt>>
    <3> HIDE DEF q
    <3> QED BY <1>1, <2>1, CutShort
  <2> QED BY <2>2 DEF HandleCreateProposalV0
<1>3. Spent(t, x)
  BY NewsSpent
<1>4. Spent(Apply(t, w), w)
  BY CreatedSpent
<1> HIDE DEF w, q, x
<1>5. q[k] = w /\ GoesOn(q, k, Apply(t, w), q)
  BY <1>1, <1>2, <1>3, <1>4, FirstGoesOn
<1> QED BY <1>5

\* A passed proposal's handler reads the markets, their versions, the signers and
\* the old addresses.
LEMMA PassedAlike ==
  ASSUME NEW t, NEW s, t.market = s.market, t.signers = s.signers, t.legacy = s.legacy,
         \A a \in Assets : t.ver[<<"market", a>>] = s.ver[<<"market", a>>],
         NEW v, NEW o, NEW p, NEW c, TypedContent(c)
  PROVE  HandlePassedProposal(t, v, o, p, c) = HandlePassedProposal(s, v, o, p, c)
<1>1. c.asset \in Assets => \A m : UpdateMarket(t, c.asset, m, o.id) = UpdateMarket(s, c.asset, m, o.id)
  BY DEF UpdateMarket, Update
<1>2. \A a : Loaded(t, a, o) = Loaded(s, a, o) /\ FindMarket(t, a) = FindMarket(s, a)
  BY ReadAlike
<1>3. CASE c.act = "market"
  <2>1. c.asset \in Assets
    BY <1>3 DEF TypedContent
  <2>2. HandleMarketEvent(t, o, c) = HandleMarketEvent(s, o, c)
    BY <1>1, <1>2, <2>1 DEF HandleMarketEvent, NameTaken
  <2> QED BY <1>3, <2>2 DEF HandlePassedProposal
<1>4. CASE c.act = "withdraw"
  <2>1. c.asset \in Assets
    BY <1>4 DEF TypedContent
  <2>2. HandleWithdraw(t, o, p, c) = HandleWithdraw(s, o, p, c)
    <3> DEFINE n == [FindMarket(s, c.asset) EXCEPT !.cash = @ - Trunc8(c.amount),
                                                   !.reserves = @ - Trunc8(c.amount)]
               x == AccrueInterest(n, o.time)
    <3>1. FindMarket(t, c.asset) = FindMarket(s, c.asset)
      BY <1>2
    <3>2. UpdateMarket(t, c.asset, x, o.id) = UpdateMarket(s, c.asset, x, o.id)
      BY <1>1, <2>1
    <3> QED BY <3>1, <3>2 DEF HandleWithdraw
  <2> QED BY <1>4, <2>2 DEF HandlePassedProposal
<1>5. CASE c.act \in {"open-market", "close-market"}
  <2>1. c.asset \in Assets
    BY <1>5 DEF TypedContent
  <2>2. HandleMarketStatus(t, o, c) = HandleMarketStatus(s, o, c)
    BY <1>1, <1>2, <2>1 DEF HandleMarketStatus
  <2> QED BY <1>5, <2>2 DEF HandlePassedProposal
<1>6. CASE c.act \in {"add-oracle-signer", "rm-oracle-signer"}
  <2>1. HandleOracleSigner(t, c) = HandleOracleSigner(s, c)
    BY DEF HandleOracleSigner
  <2> QED BY <1>6, <2>1 DEF HandlePassedProposal
<1>7. CASE c.act = "set-property"
  <2>1. SetProperty(t, v, c) = SetProperty(s, v, c)
    BY DEF SetProperty, MigrateSystem
  <2> QED BY <1>7, <2>1 DEF HandlePassedProposal
<1>8. CASE c.act \notin {"market", "withdraw", "open-market", "close-market",
                        "add-oracle-signer", "rm-oracle-signer", "set-property"}
  BY <1>8 DEF HandlePassedProposal
<1> QED BY <1>3, <1>4, <1>5, <1>6, <1>7, <1>8

\* A plan that is n messages, one statement, and the rest.
Around(q, x, b, w, h, n) ==
  /\ Len(q) = n + 1 + Len(h) /\ q[n + 1] = w /\ q[1] = x
  /\ n = 2 => b = <<q[2]>>
  /\ \A j \in 1..Len(h) : q[n + 1 + j] = h[j]

\* The statements of two plans after one another.
LEMMA Concatenated ==
  ASSUME NEW T, NEW r \in Seq(T), NEW h \in Seq(T)
  PROVE  /\ Len(r \o h) = Len(r) + Len(h)
         /\ \A j \in 1..Len(r) : (r \o h)[j] = r[j]
         /\ \A j \in 1..Len(h) : (r \o h)[Len(r) + j] = h[j]
  OBVIOUS

\* A vote's plan is one.
LEMMA PlanAround ==
  ASSUME NEW x, NEW b, b = <<>> \/ \E y : b = <<y>>, NEW w, NEW S, NEW h \in Seq(S),
         NEW q, q = <<x>> \o b \o <<w>> \o h
  PROVE  \E n \in 1..2 : Around(q, x, b, w, h, n)
<1>1. CASE b = <<>>
  <2> DEFINE T == S \cup {x, w}
  <2>1. <<x>> \in Seq(T) /\ <<w>> \in Seq(T) /\ h \in Seq(T) /\ <<>> \in Seq(T)
    OBVIOUS
  <2>2. <<x>> \o <<>> = <<x>>
    BY <2>1
  <2>3. q = <<x, w>> \o h
    BY <1>1, <2>2, Joined
  <2>4. <<x, w>> \in Seq(T)
    OBVIOUS
  <2>5. Len(q) = 2 + Len(h) /\ q[1] = x /\ q[2] = w /\ \A j \in 1..Len(h) : q[2 + j] = h[j]
    BY <2>1, <2>3, <2>4
  <2> QED BY <2>5 DEF Around
<1>2. CASE \E y : b = <<y>>
  <2>1. PICK y : b = <<y>>
    BY <1>2
  <2> DEFINE T == S \cup {x, y, w}
             r == <<x, y>> \o <<w>>
  <2>2. <<x, y>> \in Seq(T) /\ <<w>> \in Seq(T) /\ h \in Seq(T)
    OBVIOUS
  <2>3. q = r \o h
    BY <2>1, Joined
  <2>4. r \in Seq(T) /\ Len(r) = 3 /\ r[1] = x /\ r[2] = y /\ r[3] = w
    BY <2>2
  <2> HIDE DEF r
  <2>5. Len(q) = 3 + Len(h) /\ q[1] = x /\ q[2] = y /\ q[3] = w /\ \A j \in 1..Len(h) : q[3 + j] = h[j]
    <3> HIDE DEF T
    <3>3. h \in Seq(T) /\ r \in Seq(T)
      BY <2>2, <2>4
    <3>4. /\ Len(r \o h) = Len(r) + Len(h)
          /\ \A j \in 1..Len(r) : (r \o h)[j] = r[j]
          /\ \A j \in 1..Len(h) : (r \o h)[Len(r) + j] = h[j]
      BY <3>3, Concatenated
    <3>5. /\ Len(q) = Len(r) + Len(h)
          /\ \A j \in 1..Len(r) : q[j] = r[j]
          /\ \A j \in 1..Len(h) : q[Len(r) + j] = h[j]
      BY <2>3, <3>4
    <3>1. Len(q) = 3 + Len(h) /\ \A j \in 1..Len(h) : q[3 + j] = h[j]
      BY <2>4, <3>5
    <3>2. q[1] = r[1] /\ q[2] = r[2] /\ q[3] = r[3]
      BY <2>4, <3>5
    <3> QED BY <2>4, <3>1, <3>2
  <2> QED BY <2>1, <2>5 DEF Around
<1> QED BY <1>1, <1>2

\* What a row of the proposals decides, if it is passed.
Decision(t, v, o, p, row) ==
  IF row.passed THEN HandlePassedProposal(t, v, o, p, row.content) ELSE <<>>

\* Counting a vote goes on, once the vote is written, with what it decided.
LEMMA CountGoesOn ==
  ASSUME NEW t, TablesShape(t), NEW v, NEW o, NEW p \in Proposals,
         NEW S, Decision(t, v, o, p, Voted(t.proposal[p], o)) \in Seq(S),
         NEW k, Cut(t, CountVote(t, v, o, p), k), ~Spent(t, CountVote(t, v, o, p)[k])
  PROVE  /\ CountVote(t, v, o, p)[k] = UpdateProposal(t, p, Voted(t.proposal[p], o), o.id)
         /\ \A t1 : GoesOn(CountVote(t, v, o, p), k, t1, Decision(t, v, o, p, Voted(t.proposal[p], o)))
<1> DEFINE q == CountVote(t, v, o, p)
           voted == Voted(t.proposal[p], o)
           h == Decision(t, v, o, p, voted)
           x == ProposalApproved(p, Voter(o), v)
           y == ProposalPassed(p, v)
           b == IF voted.passed THEN <<y>> ELSE <<>>
           w == UpdateProposal(t, p, voted, o.id)
<1>1. q = <<x>> \o b \o <<w>> \o h
  BY DEF CountVote, Decision
<1>h. h \in Seq(S) /\ Cut(t, q, k) /\ ~Spent(t, q[k])
  OBVIOUS
<1>2. Spent(t, x) /\ Spent(t, y) /\ ~Spent(t, w)
  BY NewsSpent DEF UpdateProposal, Spent, Rigid, Versioned
<1> HIDE DEF x, y, w, h, q
<1>3. PICK n \in 1..2 : Around(q, x, b, w, h, n)
  <2>1. b = <<>> \/ \E z : b = <<z>>
    OBVIOUS
  <2> HIDE DEF b
  <2> QED BY <1>1, <1>h, <2>1, PlanAround
<1>a. Len(h) \in Nat
  BY <1>h
<1>4. n = 2 => q[2] = y
  BY <1>3 DEF Around
<1>5. k = n + 1
  <2>1. k \in 1..Len(q) /\ \A j \in 1..k-1 : Spent(t, q[j])
    BY <1>h DEF Cut
  <2>2. ~(k > n + 1)
    <3>1. SUFFICES ASSUME k > n + 1 PROVE FALSE
      OBVIOUS
    <3>2. n + 1 \in 1..k-1
      BY <2>1, <3>1
    <3> QED BY <1>2, <1>3, <2>1, <3>2 DEF Around
  <2>3. k # 1 /\ (n = 2 => k # 2)
    BY <1>h, <1>2, <1>3, <1>4 DEF Around
  <2> QED BY <1>3, <2>1, <2>2, <2>3
<1>6. ASSUME NEW t1 PROVE GoesOn(q, k, t1, h)
  <2>1. k \in 0..k /\ k <= Len(q) /\ Len(h) = Len(q) - k /\ Len(h) \in Nat
    <3>1. Len(q) = n + 1 + Len(h)
      BY <1>3 DEF Around
    <3>2. \A l \in Nat : \A m : m = n + 1 + l
            => n + 1 \in 0..n+1 /\ n + 1 <= m /\ l = m - (n + 1)
      OBVIOUS
    <3> QED BY <1>a, <1>5, <3>1, <3>2, Zenon
  <2>2. \A j \in 1..Len(h) : j + k > k /\ h[j] = q[j + k]
    BY <1>3, <1>5 DEF Around
  <2> QED BY <2>1, <2>2 DEF GoesOn
<1>7. q[k] = w
  BY <1>3, <1>5 DEF Around
<1> QED BY <1>6, <1>7 DEF w, q, h

\* The tables when a vote is written.
LEMMA AfterVote ==
  ASSUME NEW t, TablesShape(t), NEW p \in Proposals, NEW r, NEW id, NEW t1,
         t1 = Apply(t, UpdateProposal(t, p, r, id))
  PROVE  /\ t1.proposal[p] = r /\ t1.ver[<<"proposal", p>>] = id
         /\ t1.market = t.market /\ t1.signers = t.signers /\ t1.legacy = t.legacy
         /\ \A a \in Assets : t1.ver[<<"market", a>>] = t.ver[<<"market", a>>]
<1>1. {"proposal", "market", "signers", "legacy", "ver"} \subseteq DOMAIN t /\ t.ver \in [Rows -> Nat]
  BY DEF TablesShape, Tables
<1>2. p \in DOMAIN t.proposal
  BY DEF TablesShape
<1>3. t1 = [t EXCEPT !.proposal[p] = r, !.ver[<<"proposal", p>>] = id]
  BY DEF Apply, UpdateProposal
<1> QED BY <1>1, <1>2, <1>3, RowKinds

\* What a vote leaves in its row.
LEMMA VotedRow ==
  ASSUME NEW t, TablesShape(t), NEW p \in Proposals, NEW o
  PROVE  LET r == Voted(t.proposal[p], o)
         IN  /\ r.exists = t.proposal[p].exists /\ r.content = t.proposal[p].content
             /\ Voter(o) \in r.votes
<1>1. {"exists", "votes", "passed", "content"} \subseteq DOMAIN t.proposal[p]
  BY DEF TablesShape
<1> QED BY <1>1 DEF Voted

\* What a vote decided when it is counted is what the next attempt does.
LEMMA CountResumes ==
  ASSUME NEW old, NEW v, NEW o, o.act = "vote", NEW t, Reads(t, old, o), NEW p \in Proposals,
         NEW k, Cut(t, CountVote(t, v, o, p), k), ~Spent(t, CountVote(t, v, o, p)[k]),
         NEW t1, t1 = Apply(t, CountVote(t, v, o, p)[k])
  PROVE  /\ t1.proposal[p] = Voted(t.proposal[p], o) /\ t1.ver[<<"proposal", p>>] = o.id
         /\ GoesOn(CountVote(t, v, o, p), k, t1, Decision(t1, v, o, p, t1.proposal[p]))
<1> DEFINE voted == Voted(t.proposal[p], o)
           h == Decision(t, v, o, p, voted)
           q == CountVote(t, v, o, p)
<1>0. TablesShape(t) /\ TypedContent(t.proposal[p].content)
  BY DEF Reads
<1>1. voted.content = t.proposal[p].content
  BY <1>0, VotedRow
<1>2. \E S : h \in Seq(S)
  <2>1. SoundPlan(HandlePassedProposal(t, v, o, p, voted.content), old, o)
    BY PassedPlan
  <2>2. SoundPlan(<<>>, old, o)
    BY Plan0
  <2> HIDE DEF voted
  <2>3. SoundPlan(h, old, o)
    BY <2>1, <2>2 DEF Decision
  <2> HIDE DEF h
  <2> QED BY <2>3 DEF SoundPlan
<1>3. q[k] = UpdateProposal(t, p, voted, o.id) /\ GoesOn(q, k, t1, h)
  BY <1>0, <1>2, CountGoesOn
<1> HIDE DEF q, voted
<1>4. t1 = Apply(t, UpdateProposal(t, p, voted, o.id))
  BY <1>3 DEF q
<1>5. /\ t1.proposal[p] = voted /\ t1.ver[<<"proposal", p>>] = o.id
      /\ t1.market = t.market /\ t1.signers = t.signers /\ t1.legacy = t.legacy
      /\ \A a \in Assets : t1.ver[<<"market", a>>] = t.ver[<<"market", a>>]
  BY <1>0, <1>4, AfterVote
<1>6. HandlePassedProposal(t1, v, o, p, voted.content) = HandlePassedProposal(t, v, o, p, voted.content)
  BY <1>0, <1>1, <1>5, PassedAlike
<1>7. h = Decision(t1, v, o, p, t1.proposal[p])
  BY <1>5, <1>6 DEF Decision
<1> HIDE DEF h
<1> QED BY <1>3, <1>5, <1>7 DEF q, voted

\* A vote goes on: when it is counted, with what the count decided; when it
\* resumes a passed proposal, with the rest of that.
LEMMA VoteGoesOn ==
  ASSUME NEW old, NEW v, NEW o, Numbered(o), TypedOutput(o), o.act = "vote", NEW t, Reads(t, old, o),
         NEW k, Cut(t, HandleVoteProposal(t, v, o), k), ~Spent(t, HandleVoteProposal(t, v, o)[k]),
         NEW t1, t1 = Apply(t, HandleVoteProposal(t, v, o)[k])
  PROVE  GoesOn(HandleVoteProposal(t, v, o), k, t1, HandleVoteProposal(t1, v, o))
<1> DEFINE p == o.prop
           row == t.proposal[p]
           q == HandleVoteProposal(t, v, o)
           q1 == HandleVoteProposal(t1, v, o)
<1>0. TablesShape(t) /\ p \in Proposals /\ TypedContent(row.content)
  BY DEF Reads, TypedOutput
<1>1. q # <<>> /\ q # <<Halt>> /\ q # <<ForwardProposal(v, o, p, "vote")>>
  <2>1. ~Issued(Halt)
    BY DEF Issued, Halt
  <2>2. Spent(t, ForwardProposal(v, o, p, "vote"))
    BY NewsSpent
  <2> HIDE DEF q
  <2>3. q # <<>> /\ q # <<Halt>>
    BY <2>1, CutShort DEF q
  <2>4. ASSUME q = <<ForwardProposal(v, o, p, "vote")>> PROVE FALSE
    <3>1. k = 1
      BY <2>4, CutShort DEF q
    <3> QED BY <2>2, <2>4, <3>1 DEF q
  <2> QED BY <2>3, <2>4
<1>2. /\ row.exists /\ o.sender \notin Staff /\ MayVote(o.sender)
      /\ ValidateProposal(v, row.content) \notin {"refused", "halt"}
      /\ \/ ~(row.passed \/ Voter(o) \in row.votes) /\ q = CountVote(t, v, o, p)
         \/ /\ row.passed /\ Resumes(t, p, o)
            /\ q = HandlePassedProposal(t, v, o, p, row.content)
  <2>1. Resumes(t, p, o) => row.passed
    BY DEF Resumes
  <2> QED BY <1>1, <2>1 DEF HandleVoteProposal
<1>3. CASE ~(row.passed \/ Voter(o) \in row.votes) /\ q = CountVote(t, v, o, p)
  <2> DEFINE voted == Voted(row, o)
  <2> HIDE DEF p
  <2>1. voted.exists = row.exists /\ voted.content = row.content /\ Voter(o) \in voted.votes
    BY <1>0, VotedRow
  <2> HIDE DEF voted
  <2> DEFINE h == Decision(t1, v, o, p, t1.proposal[p])
  <2> HIDE DEF q, q1, h
  <2>5. t1.proposal[p] = voted /\ t1.ver[<<"proposal", p>>] = o.id /\ GoesOn(q, k, t1, h)
    BY <1>0, <1>3, CountResumes DEF voted, q, h
  <2>6. q1 = h
    <3>1. ValidateProposal(v, voted.content) \notin {"refused", "halt"}
      BY <1>2, <2>1
    <3>2. Resumes(t1, p, o) <=> voted.passed
      BY <2>5 DEF Resumes
    <3> QED BY <1>2, <2>1, <2>5, <3>1, <3>2 DEF q1, h, p, Decision, HandleVoteProposal
  <2>7. GoesOn(q, k, t1, q1)
    BY <2>5, <2>6
  <2> QED BY <2>7 DEF q, q1
<1>4. CASE row.passed /\ Resumes(t, p, o) /\ q = HandlePassedProposal(t, v, o, p, row.content)
  <2> DEFINE c == row.content
             r == HandlePassedProposal(t, v, o, p, c)
             r1 == HandlePassedProposal(t1, v, o, p, c)
  <2>1. q = r /\ t1 = Apply(t, r[k])
    BY <1>4
  <2>2. Passes(r, k, t1, r1)
    <3> HIDE DEF c, p, q
    <3>1. Cut(t, r, k)
      BY <2>1 DEF q
    <3>2. TypedContent(c)
      BY <1>0 DEF c
    <3> QED BY <1>0, <2>1, <3>1, <3>2, PassedPasses
  <2>3. t1.proposal = t.proposal /\ t1.ver[<<"proposal", p>>] = t.ver[<<"proposal", p>>]
    <3> HIDE DEF r, p, q
    <3> QED BY <1>0, <2>1, <2>2, ProposalsStay DEF Passes
  <2>4. q1 = r1
    <3>1. Resumes(t1, p, o)
      BY <1>4, <2>3 DEF Resumes
    <3> HIDE DEF r1
    <3>2. q1 = HandlePassedProposal(t1, v, o, p, row.content)
      BY <1>2, <1>4, <2>3, <3>1 DEF HandleVoteProposal
    <3> QED BY <3>2 DEF r1
  <2> HIDE DEF r, r1, q, q1
  <2>5. GoesOn(q, k, t1, q1)
    BY <2>1, <2>2, <2>4 DEF Passes
  <2> QED BY <2>5 DEF q, q1
<1> QED BY <1>2, <1>3, <1>4

\* The same for the votes of version 0, which are not validated.
LEMMA VoteV0GoesOn ==
  ASSUME NEW old, NEW v, NEW o, Numbered(o), TypedOutput(o), o.act = "vote", NEW t, Reads(t, old, o),
         NEW k, Cut(t, HandleVoteProposalV0(t, v, o), k), ~Spent(t, HandleVoteProposalV0(t, v, o)[k]),
         NEW t1, t1 = Apply(t, HandleVoteProposalV0(t, v, o)[k])
  PROVE  GoesOn(HandleVoteProposalV0(t, v, o), k, t1, HandleVoteProposalV0(t1, v, o))
<1> DEFINE p == o.prop
           row == t.proposal[p]
           q == HandleVoteProposalV0(t, v, o)
           q1 == HandleVoteProposalV0(t1, v, o)
<1>0. TablesShape(t) /\ p \in Proposals /\ TypedContent(row.content)
  BY DEF Reads, TypedOutput
<1>1. q # <<>>
  <2> HIDE DEF q
  <2> QED BY CutShort DEF q
<1>2. /\ row.exists
      /\ \/ ~row.passed /\ Voter(o) \notin row.votes /\ q = CountVote(t, v, o, p)
         \/ /\ row.passed /\ ~(t.ver[<<"proposal", p>>] < o.id)
            /\ q = HandlePassedProposal(t, v, o, p, row.content)
  BY <1>1 DEF HandleVoteProposalV0
<1>3. CASE ~row.passed /\ Voter(o) \notin row.votes /\ q = CountVote(t, v, o, p)
  <2> DEFINE voted == Voted(row, o)
  <2> HIDE DEF p
  <2>1. voted.exists = row.exists /\ voted.content = row.content /\ Voter(o) \in voted.votes
    BY <1>0, VotedRow
  <2> HIDE DEF voted
  <2> DEFINE h == Decision(t1, v, o, p, t1.proposal[p])
  <2> HIDE DEF q, q1, h
  <2>5. t1.proposal[p] = voted /\ t1.ver[<<"proposal", p>>] = o.id /\ GoesOn(q, k, t1, h)
    BY <1>0, <1>3, CountResumes DEF voted, q, h
  <2>6. q1 = h
    <3>1. ~(t1.ver[<<"proposal", p>>] < o.id)
      BY <2>5 DEF Numbered
    <3> QED BY <1>2, <2>1, <2>5, <3>1 DEF q1, h, p, Decision, HandleVoteProposalV0
  <2>7. GoesOn(q, k, t1, q1)
    BY <2>5, <2>6
  <2> QED BY <2>7 DEF q, q1
<1>4. CASE /\ row.passed /\ ~(t.ver[<<"proposal", p>>] < o.id)
           /\ q = HandlePassedProposal(t, v, o, p, row.content)
  <2> DEFINE c == row.content
             r == HandlePassedProposal(t, v, o, p, c)
             r1 == HandlePassedProposal(t1, v, o, p, c)
  <2>1. q = r /\ t1 = Apply(t, r[k])
    BY <1>4
  <2>2. Passes(r, k, t1, r1)
    <3> HIDE DEF c, p, q
    <3>1. Cut(t, r, k)
      BY <2>1 DEF q
    <3>2. TypedContent(c)
      BY <1>0 DEF c
    <3> QED BY <1>0, <2>1, <3>1, <3>2, PassedPasses
  <2>3. t1.proposal = t.proposal /\ t1.ver[<<"proposal", p>>] = t.ver[<<"proposal", p>>]
    <3> HIDE DEF r, p, q
    <3> QED BY <1>0, <2>1, <2>2, ProposalsStay DEF Passes
  <2>4. q1 = r1
    <3> HIDE DEF r1
    <3>2. q1 = HandlePassedProposal(t1, v, o, p, row.content)
      BY <1>2, <1>4, <2>3 DEF HandleVoteProposalV0
    <3> QED BY <3>2 DEF r1
  <2> HIDE DEF r, r1, q, q1
  <2>5. GoesOn(q, k, t1, q1)
    BY <2>1, <2>2, <2>4 DEF Passes
  <2> QED BY <2>5 DEF q, q1
<1> QED BY <1>2, <1>3, <1>4

\* A payment that might have been a report is still none after its statements.
LEMMA StillNoPrice ==
  ASSUME NEW t, TablesShape(t), NEW v, NEW o, ~IsPrice(t, v, o), NEW q,
         q = Acting(t, v, o) \/ q = HandleUnknown(t, o), NEW k, Cut(t, q, k)
  PROVE  ~IsPrice(Apply(t, q[k]), v, o)
<1>1. CASE o.act # "price"
  BY <1>1 DEF IsPrice
<1>2. CASE o.act = "price"
  <2> DEFINE e == EnsureUser(t, o)
             f == RefundV0(o)
             w == q[k]
  <2>1. Acting(t, v, o) = <<e, f>> /\ HandleUnknown(t, o) = <<e, f>>
    <3>1. HandleUserAction(Apply(t, e), v, o) = <<f>>
      BY <1>2 DEF HandleUserAction
    <3>2. Acting(t, v, o) = <<e>> \o <<f>>
      BY <3>1 DEF Acting
    <3>3. HandleUnknown(t, o) = <<e, f>>
      BY DEF HandleUnknown
    <3> HIDE DEF e, f
    <3> QED BY <3>2, <3>3, Joined
  <2>2. Payment(f)
    BY Payments
  <2>3. w = f \/ w = e
    <3> HIDE DEF e, f
    <3>1. q = <<e, f>>
      BY <2>1
    <3>2. k = 1 \/ k = 2
      BY <3>1, CutShort
    <3> QED BY <3>1, <3>2
  <2>4. IsPrice(Apply(t, w), v, o) <=> IsPrice(t, v, o)
    BY <2>2, <2>3, PriceUnseen
  <2> QED BY <2>4
<1> QED BY <1>1, <1>2

\* A member's action goes on.
LEMMA MemberGoesOn ==
  ASSUME NEW old, NEW v, NEW o, Numbered(o), TypedOutput(o), o.act \in {"make", "vote", "shout"},
         NEW t, Reads(t, old, o), NEW k, NEW q, Cut(t, q, k), ~Spent(t, q[k]), NEW t1, t1 = Apply(t, q[k])
  PROVE  /\ q = HandleProposalActionV0(t, v, o) /\ o.act # "shout"
              => GoesOn(q, k, t1, HandleProposalActionV0(t1, v, o))
         /\ q = Dispatch(t, v, o) => GoesOn(q, k, t1, Dispatch(t1, v, o))
<1>0. TablesShape(t)
  BY DEF Reads
<1>1. CASE o.act = "make"
  <2>1. \A s : /\ HandleProposalActionV0(s, v, o) = HandleCreateProposalV0(s, v, o)
               /\ Dispatch(s, v, o) = HandleMakeProposal(s, v, o)
    BY <1>1 DEF HandleProposalActionV0, Dispatch
  <2>2. q = HandleCreateProposalV0(t, v, o) => GoesOn(q, k, t1, HandleCreateProposalV0(t1, v, o))
    BY <1>0, CreateV0GoesOn
  <2>3. q = HandleMakeProposal(t, v, o) => GoesOn(q, k, t1, HandleMakeProposal(t1, v, o))
    BY <1>0, MakeGoesOn
  <2> QED BY <2>1, <2>2, <2>3
<1>2. CASE o.act = "vote"
  <2>1. \A s : /\ HandleProposalActionV0(s, v, o) = HandleVoteProposalV0(s, v, o)
               /\ Dispatch(s, v, o) = HandleVoteProposal(s, v, o)
    BY <1>2 DEF HandleProposalActionV0, Dispatch
  <2>2. q = HandleVoteProposalV0(t, v, o) => GoesOn(q, k, t1, HandleVoteProposalV0(t1, v, o))
    BY <1>2, VoteV0GoesOn
  <2>3. q = HandleVoteProposal(t, v, o) => GoesOn(q, k, t1, HandleVoteProposal(t1, v, o))
    BY <1>2, VoteGoesOn
  <2> QED BY <2>1, <2>2, <2>3
<1>3. CASE o.act = "shout"
  <2>1. Dispatch(t, v, o) = HandleShoutProposal(t, v, o)
    BY <1>3 DEF Dispatch
  <2>2. q # Dispatch(t, v, o)
    <3> DEFINE x == ProposalCreated(o.prop, o.sender, v)
    <3>1. HandleShoutProposal(t, v, o) = <<>> \/ HandleShoutProposal(t, v, o) = <<x>>
      BY DEF HandleShoutProposal
    <3>2. Spent(t, x)
      BY NewsSpent
    <3> HIDE DEF x
    <3>3. q # <<>> /\ (q = <<x>> => k = 1)
      BY CutShort
    <3> QED BY <2>1, <3>1, <3>2, <3>3
  <2> QED BY <1>3, <2>2
<1> QED BY <1>1, <1>2, <1>3

\* Whatever an output asks for, after each statement that is committed the next
\* attempt does the rest of it and no more.  The new version itself is left out.
LEMMA OutputGoesOn ==
  ASSUME NEW old, NEW v, NEW o, Numbered(o), TypedOutput(o), Distinct(v, o),
         NEW t, Reads(t, old, o), Unvoted(t, o), NEW k, Cut(t, HandleOutput(t, v, o), k),
         NEW t1, Reads(t1, old, o), t1 = Apply(t, HandleOutput(t, v, o)[k])
  PROVE  GoesOn(HandleOutput(t, v, o), k, t1, HandleOutput(t1, v, o))
<1> DEFINE q == HandleOutput(t, v, o)
           q1 == HandleOutput(t1, v, o)
<1>0. TablesShape(t)
  BY DEF Reads
<1>1. CASE Spent(t, q[k])
  <2>1. PICK S : q \in Seq(S)
    BY OutputPlan DEF SoundPlan
  <2> HIDE DEF q
  <2>2. Len(q) \in Nat
    BY <2>1
  <2>3. t1 = t /\ GoesOn(q, k, t, q)
    BY <1>1, <2>2, IdleGoesOn DEF q
  <2> QED BY <2>3 DEF q
<1>2. CASE ~Spent(t, q[k]) /\ IsPrice(t, v, o)
  <2>1. q = HandlePriceEvent(t, v, o)
    BY <1>2 DEF HandleOutput
  <2>2. IsPrice(t1, v, o) /\ GoesOn(q, k, t1, HandlePriceEvent(t1, v, o))
    <3> HIDE DEF q
    <3> QED BY <1>0, <1>2, <2>1, PriceGoesOn DEF q
  <2>3. q1 = HandlePriceEvent(t1, v, o)
    BY <2>2 DEF HandleOutput
  <2> QED BY <2>2, <2>3
<1>3. CASE ~Spent(t, q[k]) /\ ~IsPrice(t, v, o)
  <2>1. q # <<>>
    <3> HIDE DEF q
    <3> QED BY CutShort DEF q
  <2>2. Route(v, o) \in {"member", "action", "unknown"} /\ o.sender \in Users
    <3>1. Route(v, o) \in {"member", "action", "unknown"}
      BY <1>3, <2>1 DEF HandleOutput
    <3>2. o.sender # NoSender
      BY <3>1 DEF Route
    <3> QED BY <3>1, <3>2 DEF TypedOutput
  <2>3. CASE o.act \in {"make", "vote", "shout"} /\ Route(v, o) # "unknown"
    <3>1. ~IsPrice(t1, v, o)
      BY <2>3 DEF IsPrice
    <3>2. CASE Route(v, o) = "member"
      <4>1. q = HandleProposalActionV0(t, v, o) /\ q1 = HandleProposalActionV0(t1, v, o)
        BY <1>3, <3>1, <3>2 DEF HandleOutput
      <4>2. o.act # "shout"
        BY <3>2 DEF Route, RouteV1, RouteV2, RouteV3, IsMemberAction
      <4> HIDE DEF q, q1
      <4>3. GoesOn(q, k, t1, q1)
        BY <1>3, <2>3, <4>1, <4>2, MemberGoesOn DEF q
      <4> QED BY <4>3 DEF q, q1
    <3>3. CASE Route(v, o) = "action"
      <4>1. q = Dispatch(t, v, o) /\ q1 = Dispatch(t1, v, o)
        BY <1>3, <3>1, <3>3 DEF HandleOutput
      <4> HIDE DEF q, q1
      <4>2. GoesOn(q, k, t1, q1)
        BY <1>3, <2>3, <4>1, MemberGoesOn DEF q
      <4> QED BY <4>2 DEF q, q1
    <3> QED BY <2>2, <2>3, <3>2, <3>3
  <2>4. CASE o.act \notin {"make", "vote", "shout"} /\ Route(v, o) # "unknown"
    <3>1. Route(v, o) # "member"
      BY <2>4 DEF Route, RouteV1, RouteV2, RouteV3, IsMemberAction
    <3>2. q = Acting(t, v, o)
      BY <1>3, <2>2, <2>4, <3>1 DEF HandleOutput, Dispatch, Acting
    <3>3. ~IsPrice(t1, v, o)
      <4> HIDE DEF q
      <4> QED BY <1>0, <1>3, <2>4, <3>2, StillNoPrice DEF q
    <3>4. q1 = Acting(t1, v, o)
      BY <2>2, <2>4, <3>1, <3>3 DEF HandleOutput, Dispatch, Acting
    <3> HIDE DEF q, q1
    <3>5. GoesOn(q, k, t1, q1)
      BY <2>2, <3>2, <3>4, ActingGoesOn DEF q
    <3> QED BY <3>5 DEF q, q1
  <2>5. CASE Route(v, o) = "unknown"
    <3>2. q = HandleUnknown(t, o)
      BY <1>3, <2>5 DEF HandleOutput
    <3>3. ~IsPrice(t1, v, o)
      <4> HIDE DEF q
      <4> QED BY <1>0, <1>3, <3>2, StillNoPrice DEF q
    <3>4. q1 = HandleUnknown(t1, o)
      BY <2>5, <3>3 DEF HandleOutput
    <3> HIDE DEF q, q1
    <3>5. GoesOn(q, k, t1, q1)
      BY <1>0, <3>2, <3>4, UnknownGoesOn DEF q
    <3> QED BY <3>5 DEF q, q1
  <2> QED BY <2>3, <2>4, <2>5
<1> QED BY <1>1, <1>2, <1>3

(***************************************************************************)
(* Attempts.  A handler that is carried out in one go takes the tables to  *)
(* Effect.  What an attempt has done so far, it has taken them part of the *)
(* way there, from whatever tables (base) it or an earlier one started.    *)
(***************************************************************************)
Effect(s, v, o) == ApplyAll(s, HandleOutput(s, v, o))

OnTheWay(base, v, s, o) ==
  /\ Effect(s, v, o) = Effect(base, v, o)
  /\ HaltFree(HandleOutput(s, v, o)) => HaltFree(HandleOutput(base, v, o))
  /\ s.sysversion = base.sysversion

\* What a handler reads during an output: rows no newer than it, and the votes.
LEMMA DuringReads ==
  ASSUME NEW s, NEW old, NEW o, Numbered(o), During(s, old, o)
  PROVE  Reads(s, old, o) /\ Unvoted(s, o)
<1>1. Reads(s, old, o) /\ TablesShape(s)
  BY DEF During, Past, Reads
<1>2. ASSUME o.act = "vote", o.prop \in Proposals
      PROVE  \/ s.ver[<<"proposal", o.prop>>] < o.id
             \/ Voter(o) \in s.proposal[o.prop].votes
  <2>1. <<"proposal", o.prop>> \in Rows
    BY <1>2, RowKinds
  <2>2. s.ver[<<"proposal", o.prop>>] \in Nat /\ s.ver[<<"proposal", o.prop>>] <= o.id
    BY <1>1, <2>1 DEF During, Past, TablesShape
  <2>3. s.ver[<<"proposal", o.prop>>] = o.id => Voter(o) \in s.proposal[o.prop].votes
    BY <1>2 DEF During
  <2> QED BY <2>2, <2>3 DEF Numbered
<1> QED BY <1>1, <1>2 DEF Unvoted

\* A handler's plan is a sequence.
LEMMA OutputSeq ==
  ASSUME NEW s, NEW old, NEW o, Numbered(o), TypedOutput(o), During(s, old, o), NEW v
  PROVE  \E S : HandleOutput(s, v, o) \in Seq(S)
<1>1. SoundPlan(HandleOutput(s, v, o), old, o)
  BY DuringReads, OutputPlan
<1> QED BY <1>1 DEF SoundPlan

\* Every statement but the new version's keeps the attempt on its way.
LEMMA CommitOnTheWay ==
  ASSUME NEW old, NEW base, NEW v, NEW o, Numbered(o), TypedOutput(o), Distinct(v, o),
         NEW s, During(s, old, o), OnTheWay(base, v, s, o),
         NEW p, Len(p) \in Nat, NEW c \in Nat, GoesOn(p, c, s, HandleOutput(s, v, o)),
         NEW k \in 1..Len(p), k > c, p[k].t \notin {"nop", "halt", "sysversion"},
         \A j \in c+1..k-1 : p[j] = Nop,
         NEW s1, s1 = Apply(s, p[k]), During(s1, old, o)
  PROVE  OnTheWay(base, v, s1, o) /\ GoesOn(p, k, s1, HandleOutput(s1, v, o))
<1> DEFINE q == HandleOutput(s, v, o)
           q1 == HandleOutput(s1, v, o)
<1>1. Reads(s, old, o) /\ Unvoted(s, o) /\ Reads(s1, old, o)
  BY DuringReads
<1>2. Len(q) \in Nat /\ Len(q1) \in Nat
  <2>1. PICK S : q \in Seq(S)
    BY OutputSeq
  <2>2. PICK T : q1 \in Seq(T)
    BY OutputSeq
  <2> HIDE DEF q, q1
  <2> QED BY <2>1, <2>2
<1> HIDE DEF q, q1
<1>3. PICK l \in 1..k : /\ Cut(s, q, l) /\ q[l] = p[k]
                        /\ \A t1, r : Len(r) \in Nat /\ GoesOn(q, l, t1, r) => GoesOn(p, k, t1, r)
  BY <1>2, GoesOnTogether DEF q
<1>4. s1 = Apply(s, q[l])
  BY <1>3
<1>5. GoesOn(q, l, s1, q1)
  BY <1>1, <1>3, <1>4, OutputGoesOn DEF q, q1
<1>6. GoesOn(p, k, s1, q1)
  BY <1>2, <1>3, <1>5
<1>7. ApplyAll(s1, q1) = ApplyAll(s, q) /\ (HaltFree(q1) => HaltFree(q))
  <2>1. GoesOn(q, l, Apply(s, q[l]), q1)
    BY <1>4, <1>5
  <2>2. ApplyAll(Apply(s, q[l]), q1) = ApplyAll(s, q)
    BY <1>2, <1>3, <2>1, SameEnd
  <2>3. HaltFree(q1) => HaltFree(q)
    BY <1>2, <1>3, <2>1, SameEnd
  <2> QED BY <1>4, <2>2, <2>3
<1>8. s1.sysversion = s.sysversion
  <2>1. TablesShape(s)
    BY <1>1 DEF Reads
  <2> QED BY <2>1, ApplyVersion
<1> QED BY <1>6, <1>7, <1>8 DEF OnTheWay, Effect, q, q1

\* An attempt with nothing left to do has arrived.
LEMMA Arrived ==
  ASSUME NEW s, NEW q, Len(q) \in Nat, NEW p, Len(p) \in Nat, NEW c \in Nat, GoesOn(p, c, s, q),
         \A k \in c+1..Len(p) : p[k] = Nop
  PROVE  ApplyAll(s, q) = s /\ HaltFree(q)
<1>1. PICK e \in 0..c :
        /\ e <= Len(p) /\ Len(q) = Len(p) - e
        /\ \A j \in 1..Len(q) : IF j + e > c THEN q[j] = p[j + e] ELSE Spent(s, q[j])
  BY DEF GoesOn
<1>2. ASSUME NEW j \in 1..Len(q) PROVE Spent(s, q[j])
  <2>1. j + e > c => j + e \in c+1..Len(p)
    BY <1>1
  <2> QED BY <1>1, <2>1, NopSpent
<1>3. Idle(s, q, Len(q)) /\ HaltFree(q)
  BY <1>2 DEF Idle, Spent, HaltFree, Halt, Rigid
<1>4. PICK f : ApplyAll(s, q) = f[Len(q)] /\ f[0] = s /\ Steps(f, q, Len(q))
  BY AppliedAll
<1>5. f[Len(q)] = s
  BY <1>3, <1>4, TrailRests
<1> QED BY <1>3, <1>4, <1>5

(***************************************************************************)
(* The vote that deploys a version.  Its last statement is the new version *)
(* and the attempt that issues it is done; but if the process stops before *)
(* the checkpoint, the retry is handled under the version just deployed.   *)
(***************************************************************************)
Ready(t, q, l) ==
  /\ l \in 1..Len(q) /\ q[l].t = "sysversion"
  /\ \A j \in 1..l-1 : Spent(t, q[j])

\* The statement that deploys the version content c names is the plan's last.
Upgrade(q, l, v, c) ==
  /\ c.act = "set-property" /\ c.key = "sysversion"
  /\ ValidateProposal(v, c) \notin {"refused", "halt"}
  /\ l = Len(q) /\ q[l] = [t |-> "sysversion", data |-> c.value]
  /\ c.value \in Int /\ v < c.value /\ c.value <= SysVersion

\* A quiet plan is never ready to deploy.
LEMMA QuietNotReady == ASSUME NEW t, NEW q, NEW l, Quiet(q), Ready(t, q, l) PROVE FALSE
<1>1. PICK S : q \in Seq(S) /\ \A w \in S : w.t # "sysversion"
  BY DEF Quiet
<1>2. q[l] \in S
  BY <1>1 DEF Ready
<1> QED BY <1>1, <1>2 DEF Ready

\* setProperty deploys with its last statement.
LEMMA PropertyReady ==
  ASSUME NEW s, NEW v \in Int, NEW c, c.act = "set-property", TypedContent(c),
         NEW l, Ready(s, SetProperty(s, v, c), l)
  PROVE  Upgrade(SetProperty(s, v, c), l, v, c)
<1> DEFINE save == SaveProperty(c.key, c.value)
<1>1. ValidateProposal(v, c) \notin {"refused", "halt"}
  <2>0. Halt.t # "sysversion"
    BY DEF Halt
  <2>1. Quiet(<<>>) /\ Quiet(<<Halt>>)
    BY <2>0, QuietShort
  <2>2. ~Quiet(SetProperty(s, v, c))
    BY QuietNotReady
  <2> QED BY <2>1, <2>2 DEF SetProperty
<1>2. c.key = "sysversion"
  <2> SUFFICES ASSUME c.key # "sysversion" PROVE FALSE
    OBVIOUS
  <2>1. save.t # "sysversion"
    BY DEF SaveProperty
  <2>2. Quiet(<<>>) /\ Quiet(<<save>>)
    BY <2>1, QuietShort
  <2>3. Quiet(<<>> \o <<save>>)
    BY <2>2, QuietJoin
  <2>4. SetProperty(s, v, c) = <<>> \o <<save>>
    BY <1>1 DEF SetProperty
  <2> QED BY <2>3, <2>4, QuietNotReady
<1>3. c.value \in Int /\ v < c.value /\ c.value <= SysVersion
  <2>1. ~Malformed(c)
    BY <1>1 DEF ValidateProposal
  <2>2. c.ok
    BY <1>2, <2>1 DEF Malformed
  <2>3. ValidateNewSysVersion(v, c.value) \notin {"refused", "halt"}
    BY <1>1, <1>2, <2>1 DEF ValidateProposal
  <2> QED BY <1>2, <2>2, <2>3, GovernanceAssumption DEF TypedContent, ValidateNewSysVersion
<1>4. save = [t |-> "sysversion", data |-> c.value]
  BY <1>2 DEF SaveProperty
<1>5. SetProperty(s, v, c) = MigrateSystem(s, v) \o <<save>>
  BY <1>1, <1>2 DEF SetProperty
<1> DEFINE q == SetProperty(s, v, c)
<1>6. CASE v < 1
  <2> DEFINE n == Len(UserPages)
  <2>0. ByPages(q, s.legacy, save)
    BY <1>1, <1>2, <1>6, VersionPlan
  <2>3. l \in 1..Len(q) /\ q[l].t = "sysversion"
    BY DEF Ready
  <2> HIDE DEF q, save
  <2>1. n \in Nat /\ Len(q) = n + 1 /\ q[n+1] = save
    BY <2>0 DEF ByPages
  <2>2. ASSUME NEW i \in 1..n PROVE q[i].t # "sysversion"
    <3>1. \A U : MigrateToV1(U).t = "migrate"
      BY DEF MigrateToV1
    <3>2. q[i] = MigrateToV1(UserPages[i] \cap s.legacy)
      BY <2>0 DEF ByPages
    <3> QED BY <3>1, <3>2
  <2> HIDE DEF n
  <2>4. l = Len(q) /\ q[l] = save
    BY <2>1, <2>2, <2>3
  <2> QED BY <1>1, <1>2, <1>3, <1>4, <2>4 DEF Upgrade, q, save
<1>7. CASE ~(v < 1)
  <2> DEFINE r == <<save>>
  <2>1. q = r
    BY <1>5, <1>7 DEF MigrateSystem
  <2>2. Len(r) = 1 /\ r[1] = save
    OBVIOUS
  <2> HIDE DEF r, save
  <2>4. l = Len(q) /\ q[l] = save
    <3> HIDE DEF q
    <3>1. l \in 1..Len(q) /\ q[l].t = "sysversion"
      BY DEF Ready, q
    <3> QED BY <2>1, <2>2, <3>1
  <2> QED BY <1>1, <1>2, <1>3, <1>4, <2>4 DEF Upgrade
<1> QED BY <1>6, <1>7

\* Of the passed proposals only a set-property deploys.
LEMMA PassedReady ==
  ASSUME NEW s, NEW v \in Int, NEW o, NEW p, NEW c, TypedContent(c),
         NEW l, Ready(s, HandlePassedProposal(s, v, o, p, c), l)
  PROVE  Upgrade(HandlePassedProposal(s, v, o, p, c), l, v, c)
<1>1. c.act = "set-property"
  BY PassedQuiet, QuietNotReady
<1>2. HandlePassedProposal(s, v, o, p, c) = SetProperty(s, v, c)
  BY <1>1 DEF HandlePassedProposal
<1> QED BY <1>1, <1>2, PropertyReady

\* The row with the vote comes before what it decides and is not written yet.
LEMMA CountNotReady ==
  ASSUME NEW t, NEW v, NEW o, NEW p,
         NEW S, Decision(t, v, o, p, Voted(t.proposal[p], o)) \in Seq(S),
         NEW l, Ready(t, CountVote(t, v, o, p), l)
  PROVE  FALSE
<1> DEFINE q == CountVote(t, v, o, p)
           voted == Voted(t.proposal[p], o)
           h == Decision(t, v, o, p, voted)
           x == ProposalApproved(p, Voter(o), v)
           y == ProposalPassed(p, v)
           b == IF voted.passed THEN <<y>> ELSE <<>>
           w == UpdateProposal(t, p, voted, o.id)
<1>1. q = <<x>> \o b \o <<w>> \o h
  BY DEF CountVote, Decision
<1>h. h \in Seq(S) /\ Ready(t, q, l)
  OBVIOUS
<1>2. ~Spent(t, w) /\ w.t # "sysversion" /\ x.t # "sysversion" /\ y.t # "sysversion"
  BY DEF UpdateProposal, Spent, Rigid, Versioned, ProposalApproved, ProposalPassed, Notify
<1> HIDE DEF x, y, w, h, q
<1>3. PICK n \in 1..2 : Around(q, x, b, w, h, n)
  <2>1. b = <<>> \/ \E z : b = <<z>>
    OBVIOUS
  <2> HIDE DEF b
  <2> QED BY <1>1, <1>h, <2>1, PlanAround
<1>4. n = 2 => q[2] = y
  BY <1>3 DEF Around
<1>5. q[1] = x /\ q[n + 1] = w
  BY <1>3 DEF Around
<1>6. l \in 1..Len(q) /\ q[l].t = "sysversion" /\ \A j \in 1..l-1 : Spent(t, q[j])
  BY <1>h DEF Ready
<1>7. ~(l > n + 1)
  <2>1. SUFFICES ASSUME l > n + 1 PROVE FALSE
    OBVIOUS
  <2>2. n + 1 \in 1..l-1
    BY <1>6, <2>1
  <2> QED BY <1>2, <1>5, <1>6, <2>2
<1>8. l # 1 /\ l # n + 1 /\ (n = 2 => l # 2)
  BY <1>2, <1>4, <1>5, <1>6
<1> QED BY <1>3, <1>6, <1>7, <1>8

\* Only a vote deploys: the attempt that finds it counted and resumes it.
LEMMA OutputReady ==
  ASSUME NEW old, NEW v \in Int, NEW o, Numbered(o), TypedOutput(o), NEW s, During(s, old, o),
         NEW l, Ready(s, HandleOutput(s, v, o), l)
  PROVE  /\ o.act = "vote"
         /\ Upgrade(HandleOutput(s, v, o), l, v, s.proposal[o.prop].content)
         /\ \/ Route(v, o) = "member"
            \/ Route(v, o) = "action" /\ o.sender \notin Staff
<1> DEFINE q == HandleOutput(s, v, o)
           p == o.prop
           row == s.proposal[p]
           count == CountVote(s, v, o, p)
           execute == HandlePassedProposal(s, v, o, p, row.content)
           h == Decision(s, v, o, p, Voted(row, o))
<1>1. Reads(s, old, o) /\ Unvoted(s, o)
  BY DuringReads
<1>2. o.act = "vote"
  <2>1. PICK S : q \in Seq(S) /\ \A w \in S : Sound(w, old, o)
    BY <1>1, OutputPlan DEF SoundPlan
  <2> HIDE DEF q
  <2>2. l \in 1..Len(q) /\ q[l].t = "sysversion"
    BY DEF Ready, q
  <2>3. Sound(q[l], old, o)
    BY <2>1, <2>2
  <2> QED BY <2>2, <2>3 DEF Sound
<1>3. ~Quiet(q)
  BY QuietNotReady
<1>4. \/ Route(v, o) = "member" /\ q = HandleVoteProposalV0(s, v, o)
      \/ Route(v, o) = "action" /\ q = HandleVoteProposal(s, v, o)
  <2>1. ~IsPrice(s, v, o)
    BY <1>2 DEF IsPrice
  <2>2. Quiet(HandleUnknown(s, o)) /\ Quiet(<<>>)
    <3>1. /\ Nop.t # "sysversion" /\ CreateUser(o.sender).t # "sysversion"
          /\ RefundV0(o).t # "sysversion"
      BY DEF Nop, CreateUser, RefundV0, Transfer, InsertTransfer
    <3>2. EnsureUser(s, o).t # "sysversion"
      BY <3>1 DEF EnsureUser
    <3> QED BY <3>1, <3>2, QuietShort DEF HandleUnknown
  <2>3. Dispatch(s, v, o) = HandleVoteProposal(s, v, o)
    BY <1>2 DEF Dispatch
  <2>4. HandleProposalActionV0(s, v, o) = HandleVoteProposalV0(s, v, o)
    BY <1>2 DEF HandleProposalActionV0
  <2> QED BY <1>3, <2>1, <2>2, <2>3, <2>4 DEF HandleOutput
<1>5. q # <<>> /\ q # <<Halt>> /\ q # <<ForwardProposal(v, o, p, "vote")>>
  <2>1. Halt.t # "sysversion" /\ ForwardProposal(v, o, p, "vote").t # "sysversion"
    BY DEF Halt, ForwardProposal, Forward
  <2>2. Quiet(<<>>) /\ Quiet(<<Halt>>) /\ Quiet(<<ForwardProposal(v, o, p, "vote")>>)
    BY <2>1, QuietShort
  <2> QED BY <1>3, <2>2
<1>6. q # count
  <2>1. PICK S : h \in Seq(S)
    <3>1. p \in Proposals /\ TypedContent(row.content) /\ Voted(row, o).content = row.content
      BY <1>1, <1>2 DEF TypedOutput, Reads, TablesShape, Voted
    <3>2. SoundPlan(h, old, o)
      BY <1>1, <1>2, <3>1, PassedPlan, Plan0 DEF Decision
    <3> QED BY <3>2 DEF SoundPlan
  <2> HIDE DEF count
  <2>2. SUFFICES ASSUME q = count PROVE FALSE
    OBVIOUS
  <2>3. Ready(s, count, l)
    BY <2>2
  <2> QED BY <2>1, <2>3, CountNotReady DEF count
<1>7. q = execute /\ (Route(v, o) = "action" => o.sender \notin Staff)
  <2> HIDE DEF q, count, execute
  <2> QED BY <1>4, <1>5, <1>6 DEF HandleVoteProposal, HandleVoteProposalV0, count, execute
<1>8. TypedContent(row.content)
  BY <1>1, <1>2 DEF TypedOutput, Reads
<1>9. Upgrade(q, l, v, row.content)
  <2>1. Ready(s, execute, l)
    BY <1>7
  <2>2. Upgrade(execute, l, v, row.content)
    BY <1>8, <2>1, PassedReady
  <2> QED BY <1>7, <2>2
<1> QED BY <1>2, <1>4, <1>7, <1>9

\* Under the version it deployed the vote is refused, or no longer read: a memo
\* of version 0 or 1 is ignored in version 1 and refunded since version 2.
Refused(s, o) ==
  /\ o.act = "vote"
  /\ Route(s.sysversion, o) = "unknown" \/ HandleOutput(s, s.sysversion, o) = <<>>

\* So it is with every vote that deploys a version.
LEMMA UpgradeRefused ==
  ASSUME NEW v \in Nat, NEW o, TypedOutput(o), o.act = "vote", NEW s, TablesShape(s),
         NEW q, NEW l, Upgrade(q, l, v, s.proposal[o.prop].content),
         Route(v, o) = "member" \/ (Route(v, o) = "action" /\ o.sender \notin Staff)
  PROVE  /\ Refused(Apply(s, q[l]), o) /\ Apply(s, q[l]).sysversion > v
         /\ v >= 2 => HandleOutput(Apply(s, q[l]), Apply(s, q[l]).sysversion, o) = <<>>
<1> DEFINE c == s.proposal[o.prop].content
           t == Apply(s, q[l])
           new == c.value
<1>1. /\ q[l] = [t |-> "sysversion", data |-> new] /\ new \in Int /\ v < new
      /\ c.act = "set-property" /\ c.key = "sysversion"
  BY DEF Upgrade
<1>2. t.sysversion = new /\ t.proposal = s.proposal
  <2>1. t.sysversion = new
    BY <1>1, ApplyVersion, ZenonT(60)
  <2>2. t = [s EXCEPT !.sysversion = new]
    BY <1>1 DEF Apply
  <2>3. t.proposal = s.proposal
    BY <2>2 DEF TablesShape
  <2> QED BY <2>1, <2>3
<1> HIDE DEF t
<1>3. ~IsPrice(t, new, o)
  BY DEF IsPrice
<1>4. ValidateProposal(new, c) = "refused"
  <2>1. ValidateNewSysVersion(new, new) = "refused"
    BY <1>1 DEF ValidateNewSysVersion
  <2> QED BY <1>1, <2>1 DEF ValidateProposal
<1>5. Route(new, o) \in {"unknown", "ignored"} \/ (Route(new, o) = "action" /\ o.sender \notin Staff)
  <2>1. CASE Route(v, o) = "member"
    <3>1. o.fmt = "member"
      BY <2>1 DEF Route, RouteV1, RouteV2, RouteV3, IsMemberAction
    <3>2. ~(new < 1)
      BY <1>1
    <3> QED BY <3>1, <3>2 DEF Route, RouteV1, RouteV2, RouteV3
  <2>2. CASE Route(v, o) = "action" /\ o.sender \notin Staff
    <3>1. ~(new < 1)
      BY <1>1
    <3> QED BY <2>2, <3>1 DEF Route, RouteV1, RouteV2, RouteV3
  <2> QED BY <2>1, <2>2
<1>6. v >= 2 => Route(new, o) = "action"
  <2> SUFFICES ASSUME v >= 2 PROVE Route(new, o) = "action"
    OBVIOUS
  <2>1. ~(v < 2) /\ ~(v < 1) /\ ~(new < 2) /\ new # 2
    BY <1>1
  <2>2. o.sender # NoSender /\ RouteV2(o) = "action"
    BY <2>1 DEF Route, RouteV1, RouteV2, RouteV3
  <2> QED BY <2>1, <2>2 DEF Route, RouteV3
<1>7. Route(new, o) = "ignored" => HandleOutput(t, new, o) = <<>>
  BY <1>3 DEF HandleOutput
<1>8. Route(new, o) = "action" /\ o.sender \notin Staff => HandleOutput(t, new, o) = <<>>
  <2> SUFFICES ASSUME Route(new, o) = "action", o.sender \notin Staff
               PROVE  HandleOutput(t, new, o) = <<>>
    OBVIOUS
  <2>1. HandleOutput(t, new, o) = HandleVoteProposal(t, new, o)
    BY <1>3 DEF HandleOutput, Dispatch
  <2> QED BY <1>2, <1>4, <2>1 DEF HandleVoteProposal
<1>9. v >= 2 => HandleOutput(t, new, o) = <<>>
  BY <1>5, <1>6, <1>8
<1> QED BY <1>1, <1>2, <1>5, <1>7, <1>8, <1>9 DEF Refused, t

\* Where the attempt stands before a new version, so does a plan that goes on.
LEMMA NextReady ==
  ASSUME NEW s, NEW q, NEW p, Len(p) \in Nat, NEW c \in Nat, GoesOn(p, c, s, q),
         NEW k \in 1..Len(p), k > c, p[k].t = "sysversion", \A j \in c+1..k-1 : p[j] = Nop
  PROVE  \E l \in 1..k : Ready(s, q, l) /\ q[l] = p[k] /\ (l = Len(q) => k = Len(p))
<1>1. PICK e \in 0..c :
        /\ e <= Len(p) /\ Len(q) = Len(p) - e
        /\ \A j \in 1..Len(q) : IF j + e > c THEN q[j] = p[j + e] ELSE Spent(s, q[j])
  BY DEF GoesOn
<1> DEFINE l == k - e
<1>2. l \in 1..k /\ l \in 1..Len(q) /\ l + e = k /\ l + e > c /\ (l = Len(q) => k = Len(p))
  BY <1>1
<1>3. q[l] = p[k]
  BY <1>1, <1>2
<1>4. ASSUME NEW j \in 1..l-1 PROVE Spent(s, q[j])
  <2>1. j \in 1..Len(q) /\ (j + e > c => j + e \in c+1..k-1)
    BY <1>1, <1>2
  <2> QED BY <1>1, <2>1, NopSpent
<1> HIDE DEF l
<1>5. Ready(s, q, l)
  BY <1>2, <1>3, <1>4 DEF Ready
<1> QED BY <1>2, <1>3, <1>5

\* Where only the last statement is left, a plan does what that one does.
LEMMA ReadyLast ==
  ASSUME NEW s, NEW q, Len(q) \in Nat, Ready(s, q, Len(q))
  PROVE  ApplyAll(s, q) = Apply(s, q[Len(q)])
<1> DEFINE m == Len(q)
           n == m - 1
<1>1. PICK f : ApplyAll(s, q) = f[m] /\ f[0] = s /\ Steps(f, q, m)
  BY AppliedAll
<1>2. m \in Nat /\ n \in 0..m /\ n + 1 = m /\ m \in 1..m /\ Idle(s, q, n)
  BY DEF Ready, Spent, Idle
<1>3. f[n] = s
  <2> HIDE DEF m, n
  <2> QED BY <1>1, <1>2, TrailRests, ZenonT(60)
<1>4. f[m] = Apply(f[m - 1], q[m])
  <2> HIDE DEF m
  <2> QED BY <1>1, <1>2 DEF Steps
<1> QED BY <1>1, <1>3, <1>4

\* The new version completes the vote's effect, and a retry adds to it what the
\* new version does with a memo it cannot read, or nothing.
LEMMA CommitUpgrade ==
  ASSUME NEW old, NEW base, NEW v \in Nat, NEW o, Numbered(o), TypedOutput(o),
         NEW s, During(s, old, o), OnTheWay(base, v, s, o),
         NEW p, Len(p) \in Nat, NEW c \in Nat, GoesOn(p, c, s, HandleOutput(s, v, o)),
         NEW k \in 1..Len(p), k > c, p[k].t = "sysversion",
         \A j \in c+1..k-1 : p[j] = Nop
  PROVE  /\ k = Len(p) /\ Apply(s, p[k]) = Effect(base, v, o) /\ HaltFree(HandleOutput(base, v, o))
         /\ Refused(Effect(base, v, o), o) /\ Effect(base, v, o).sysversion > v
         /\ v >= 2 => HandleOutput(Effect(base, v, o), Effect(base, v, o).sysversion, o) = <<>>
<1> DEFINE q == HandleOutput(s, v, o)
           con == s.proposal[o.prop].content
<1>0. GoesOn(p, c, s, q)
  OBVIOUS
<1>1. PICK l \in 1..k : Ready(s, q, l) /\ q[l] = p[k] /\ (l = Len(q) => k = Len(p))
  <2> HIDE DEF q
  <2> QED BY <1>0, NextReady
<1>2. /\ o.act = "vote" /\ Upgrade(q, l, v, con)
      /\ Route(v, o) = "member" \/ (Route(v, o) = "action" /\ o.sender \notin Staff)
  BY <1>1, OutputReady
<1>3. l = Len(q) /\ k = Len(p)
  BY <1>1, <1>2 DEF Upgrade
<1>4. TablesShape(s)
  BY DEF During, Past
<1>5. /\ Refused(Apply(s, q[l]), o) /\ Apply(s, q[l]).sysversion > v
      /\ v >= 2 => HandleOutput(Apply(s, q[l]), Apply(s, q[l]).sysversion, o) = <<>>
  <2> HIDE DEF q
  <2> QED BY <1>2, <1>4, UpgradeRefused
<1>6. Len(q) \in Nat /\ Ready(s, q, Len(q))
  <2>1. PICK S : q \in Seq(S)
    BY OutputSeq
  <2> QED BY <1>1, <1>3, <2>1
<1> HIDE DEF q, con
<1>7. ApplyAll(s, q) = Apply(s, q[l])
  BY <1>3, <1>6, ReadyLast
<1>8. HaltFree(q)
  <2> SUFFICES ASSUME NEW j \in 1..Len(q) PROVE q[j] # Halt
    BY DEF HaltFree
  <2>1. Halt.t = "halt" /\ "halt" \in Rigid
    BY DEF Halt, Rigid
  <2>2. CASE j = Len(q)
    BY <1>6, <2>1, <2>2 DEF Ready
  <2>3. CASE j # Len(q)
    BY <1>6, <2>1, <2>3 DEF Ready, Spent
  <2> QED BY <2>2, <2>3
<1>9. Effect(base, v, o) = Apply(s, p[k]) /\ Apply(s, q[l]) = Apply(s, p[k]) /\ HaltFree(HandleOutput(base, v, o))
  BY <1>1, <1>7, <1>8 DEF OnTheWay, Effect, q
<1> QED BY <1>3, <1>5, <1>9

\* A memo the version cannot read deploys nothing.
LEMMA UnknownReady ==
  ASSUME NEW old, NEW v \in Nat, NEW o, Numbered(o), TypedOutput(o), Route(v, o) = "unknown",
         NEW s, During(s, old, o),
         NEW p, Len(p) \in Nat, NEW c \in Nat, GoesOn(p, c, s, HandleOutput(s, v, o)),
         NEW k \in 1..Len(p), k > c, p[k].t = "sysversion",
         \A j \in c+1..k-1 : p[j] = Nop
  PROVE  FALSE
<1> DEFINE q == HandleOutput(s, v, o)
<1>0. GoesOn(p, c, s, q)
  OBVIOUS
<1>1. PICK l \in 1..k : Ready(s, q, l)
  <2> HIDE DEF q
  <2> QED BY <1>0, NextReady
<1>2. Route(v, o) \in {"member", "action"}
  BY <1>1, OutputReady
<1> QED BY <1>2

\* An attempt starts on its way, and a plan that was just made goes on with itself.
LEMMA StartsOut ==
  ASSUME NEW s, NEW v, NEW o, NEW q, Len(q) \in Nat
  PROVE  OnTheWay(s, v, s, o) /\ GoesOn(q, 0, s, q)
<1>1. GoesOn(q, 0, s, q)
  BY GoesStraight
<1> QED BY <1>1 DEF OnTheWay

(***************************************************************************)
(* The worker.  Attempts at the current output are on the way to what the  *)
(* output does to the settled tables under their version (Whole), until a  *)
(* vote has deployed another version: then they start from there.          *)
(***************************************************************************)
Attempt(base, v) ==
  /\ OnTheWay(base, v, db, Current)
  /\ checkpoint < batch => sysversion = v
  /\ busy => GoesOn(plan, pc, db, HandleOutput(db, v, Current))

Whole == Effect(settled, settled.sysversion, Current)

FirstTime == Attempt(settled, settled.sysversion)

\* What is known of the vote once it has deployed a version.
Deployed ==
  /\ HaltFree(HandleOutput(settled, settled.sysversion, Current))
  /\ Refused(Whole, Current) /\ Whole.sysversion > settled.sysversion
  /\ settled.sysversion >= 2 => HandleOutput(Whole, Whole.sysversion, Current) = <<>>

Upgraded ==
  \/ busy /\ pc = Len(plan) /\ db = Whole
  \/ /\ Attempt(Whole, Whole.sysversion)
     /\ Route(Whole.sysversion, Current) = "unknown" \/ db = Whole

\* A liquidation, and before version 4 a quick borrow, names another asset than
\* it pays: the handlers load the two markets as separate rows.
Separate(o) ==
  (o.act = "liquidate" \/ (o.act = "quick-borrow" /\ Genesis.sysversion <= 3)) /\ o.ok
    => o.asset # o.cur.asset
AssetsSeparate ==
  (\A i \in Inputs : Separate(i)) /\ \A k \in 1..Len(Prefix) : Separate(Prefix[k])

\* The deployment handles one output per batch, or runs the newest version, so
\* that no output is handled under a version older than the settled one.
NoStaleBatch == BatchLimit = 1 \/ Genesis.sysversion = SysVersion

WorkInv == checkpoint < Len(outputs) => FirstTime \/ (Deployed /\ Upgraded)
PathInv ==
  /\ BatchLimit = 1 => batch <= checkpoint + 1
  /\ \A k \in 1..Len(outputs) : Separate(outputs[k])
  /\ settled.sysversion >= Genesis.sysversion
AInv == PathInv /\ WorkInv

\* The current output, the tables it finds and the plan of an attempt.
LEMMA Facts ==
  ASSUME IInv, VInv, AInv, checkpoint < Len(outputs)
  PROVE  /\ Numbered(Current) /\ TypedOutput(Current) /\ During(db, settled, Current)
         /\ Distinct(settled.sysversion, Current) /\ settled.sysversion \in Nat
         /\ db.sysversion \in Nat /\ db.sysversion <= SysVersion
         /\ \A v : \E S : HandleOutput(db, v, Current) \in Seq(S)
<1>1. /\ During(db, settled, Current) /\ Current.id = checkpoint + 1 /\ checkpoint \in Nat
      /\ TypedOutput(Current) /\ Separate(Current)
  <2>1. checkpoint \in Nat /\ checkpoint + 1 \in 1..Len(outputs)
    BY DEF IInv, Control
  <2> QED BY <2>1 DEF IInv, TablesInv, Control, Current, AInv, PathInv
<1>2. Numbered(Current)
  BY <1>1 DEF Numbered
<1>3. /\ settled.sysversion \in Nat /\ settled.sysversion >= Genesis.sysversion
      /\ Genesis.sysversion \in Nat /\ db.sysversion \in Nat /\ db.sysversion <= SysVersion
  BY GenesisAssumption, GovernanceAssumption DEF VInv, VersionOK, AInv, PathInv
<1>4. Distinct(settled.sysversion, Current)
  BY <1>1, <1>3 DEF Separate, Distinct
<1>5. ASSUME NEW v PROVE \E S : HandleOutput(db, v, Current) \in Seq(S)
  BY <1>1, <1>2, OutputSeq
<1> QED BY <1>1, <1>2, <1>3, <1>4, <1>5

\* A statement commits in an attempt that is on its way from tables base.
LEMMA CommitStep ==
  ASSUME IInv, VInv, AInv, busy, NEW k \in 1..Len(plan), IsNext(k), Commit(k)
  PROVE  /\ checkpoint < Len(outputs) /\ checkpoint < batch
         /\ Len(plan) \in Nat /\ pc \in Nat /\ k > pc /\ \A j \in pc+1..k-1 : plan[j] = Nop
         /\ plan[k].t \notin {"nop", "halt"}
         /\ db' = Apply(db, plan[k]) /\ During(db', settled, Current)
         /\ pc' = k /\ Current' = Current
         /\ UNCHANGED <<outputs, sysversion, checkpoint, batch, busy, plan, settled>>
<1>1. /\ db' = Apply(db, plan[k]) /\ LockHeld(db, plan[k]) /\ pc' = k /\ Current' = Current
      /\ UNCHANGED <<outputs, sysversion, checkpoint, batch, busy, plan, settled>>
      /\ plan[k] # Halt
  BY DEF Commit, Current
<1>2. checkpoint < batch /\ checkpoint < Len(outputs)
  BY DEF IInv, Control
<1>3. PICK S : plan \in Seq(S) /\ \A w \in S : Sound(w, settled, Current)
  BY DEF IInv, PlanInv, SoundPlan
<1>4. Sound(plan[k], settled, Current) /\ Len(plan) \in Nat
  BY <1>3
<1>5. During(db', settled, Current)
  <2>1. During(db, settled, Current) /\ Current.id \in Nat \ {0}
    BY <1>2, Facts DEF Numbered
  <2> QED BY <1>1, <1>4, <2>1, ApplySound
<1>6. k > pc /\ plan[k] # Nop /\ (\A j \in pc+1..k-1 : plan[j] = Nop) /\ pc \in Nat
  BY DEF IsNext, VInv
<1>7. plan[k].t \notin {"nop", "halt"}
  BY <1>1, <1>4, <1>6 DEF Sound
<1> QED BY <1>1, <1>2, <1>4, <1>5, <1>6, <1>7

\* Nothing is left to do of a plan that goes on with nothing.
LEMMA NothingLeft ==
  ASSUME NEW p, Len(p) \in Nat, NEW c \in Nat, NEW s, GoesOn(p, c, s, <<>>)
  PROVE  Len(p) <= c
<1>1. PICK e \in 0..c : e <= Len(p) /\ Len(<<>>) = Len(p) - e
  BY DEF GoesOn
<1>2. Len(<<>>) = 0
  OBVIOUS
<1> QED BY <1>1, <1>2

\* A statement commits: the attempt stays on its way, or has deployed a version.
LEMMA CommitWork ==
  ASSUME IInv, VInv, AInv, busy, NEW k \in 1..Len(plan), IsNext(k), Commit(k)
  PROVE  WorkInv'
<1> DEFINE o == Current
           v == settled.sysversion
           w == Whole.sysversion
<1>1. /\ checkpoint < Len(outputs) /\ checkpoint < batch
      /\ Len(plan) \in Nat /\ pc \in Nat /\ k > pc /\ \A j \in pc+1..k-1 : plan[j] = Nop
      /\ plan[k].t \notin {"nop", "halt"}
      /\ db' = Apply(db, plan[k]) /\ During(db', settled, Current)
      /\ pc' = k /\ Current' = Current
      /\ UNCHANGED <<outputs, sysversion, checkpoint, batch, busy, plan, settled>>
  BY CommitStep
<1>2. /\ Numbered(o) /\ TypedOutput(o) /\ During(db, settled, o)
      /\ Distinct(v, o) /\ v \in Nat /\ db.sysversion \in Nat
  BY <1>1, Facts
<1>3. Whole' = Whole
  BY <1>1 DEF Whole
<1>4. FirstTime \/ (Deployed /\ Upgraded)
  BY <1>1 DEF AInv, WorkInv
<1>5. CASE FirstTime /\ plan[k].t # "sysversion"
  <2>1. OnTheWay(settled, v, db, o) /\ sysversion = v /\ GoesOn(plan, pc, db, HandleOutput(db, v, o))
    BY <1>1, <1>5 DEF FirstTime, Attempt
  <2>2. plan[k].t \notin {"nop", "halt", "sysversion"}
    BY <1>1, <1>5
  <2>3. OnTheWay(settled, v, db', o) /\ GoesOn(plan, k, db', HandleOutput(db', v, o))
    <3> HIDE DEF o, v
    <3> QED BY <1>1, <1>2, <2>1, <2>2, CommitOnTheWay DEF o
  <2>4. FirstTime'
    BY <1>1, <2>1, <2>3 DEF FirstTime, Attempt
  <2> QED BY <2>4 DEF WorkInv
<1>6. CASE FirstTime /\ plan[k].t = "sysversion"
  <2>1. OnTheWay(settled, v, db, o) /\ GoesOn(plan, pc, db, HandleOutput(db, v, o))
    BY <1>1, <1>6 DEF FirstTime, Attempt
  <2>2. /\ k = Len(plan) /\ Apply(db, plan[k]) = Effect(settled, v, o)
        /\ HaltFree(HandleOutput(settled, v, o))
        /\ Refused(Effect(settled, v, o), o) /\ Effect(settled, v, o).sysversion > v
        /\ v >= 2 => HandleOutput(Effect(settled, v, o), Effect(settled, v, o).sysversion, o) = <<>>
    <3> HIDE DEF o, v
    <3> QED BY <1>1, <1>2, <1>6, <2>1, CommitUpgrade
  <2>3. Deployed
    BY <2>2 DEF Deployed, Whole
  <2>4. Deployed'
    BY <1>1, <1>3, <2>3 DEF Deployed
  <2>5. Upgraded'
    <3>1. db' = Whole /\ pc' = Len(plan)
      BY <1>1, <2>2 DEF Whole
    <3> QED BY <1>1, <1>3, <3>1 DEF Upgraded
  <2> QED BY <2>4, <2>5 DEF WorkInv
<1>7. CASE Deployed /\ Upgraded
  <2>1. Deployed'
    BY <1>1, <1>3, <1>7 DEF Deployed
  <2>2. /\ OnTheWay(Whole, w, db, o) /\ sysversion = w
        /\ GoesOn(plan, pc, db, HandleOutput(db, w, o))
        /\ Route(w, o) = "unknown" \/ db = Whole
    BY <1>1, <1>7 DEF Upgraded, Attempt
  <2>3. o.act = "vote" /\ (Route(w, o) = "unknown" \/ HandleOutput(Whole, w, o) = <<>>)
    BY <1>7 DEF Deployed, Refused
  <2>4. Route(w, o) = "unknown"
    <3> SUFFICES ASSUME Route(w, o) # "unknown" PROVE FALSE
      OBVIOUS
    <3>1. HandleOutput(db, w, o) = <<>>
      BY <2>2, <2>3
    <3>2. Len(plan) <= pc
      <4>1. GoesOn(plan, pc, db, <<>>)
        BY <2>2, <3>1
      <4> QED BY <1>1, <4>1, NothingLeft
    <3> QED BY <1>1, <3>2
  <2>5. Distinct(w, o) /\ w \in Nat
    BY <1>2, <2>2, <2>3 DEF Distinct, OnTheWay
  <2>6. plan[k].t # "sysversion"
    <3> HIDE DEF o, w
    <3> QED BY <1>1, <1>2, <2>2, <2>4, <2>5, UnknownReady
  <2>7. plan[k].t \notin {"nop", "halt", "sysversion"}
    BY <1>1, <2>6
  <2>8. OnTheWay(Whole, w, db', o) /\ GoesOn(plan, k, db', HandleOutput(db', w, o))
    <3> HIDE DEF o, w
    <3> QED BY <1>1, <1>2, <2>2, <2>5, <2>7, CommitOnTheWay DEF o
  <2>9. Upgraded'
    BY <1>1, <1>3, <2>2, <2>4, <2>8 DEF Upgraded, Attempt
  <2> QED BY <2>1, <2>9 DEF WorkInv
<1> QED BY <1>4, <1>5, <1>6, <1>7

\* An attempt that is over leaves what it did; the next one is on the same way.
LEMMA AbandonWork == ASSUME IInv, VInv, AInv, Abandon PROVE WorkInv'
<1>1. /\ UNCHANGED <<outputs, db, sysversion, checkpoint, settled>>
      /\ Current' = Current /\ ~busy' /\ batch' = checkpoint
  BY DEF Abandon, Current
<1>2. Whole' = Whole /\ ~(checkpoint' < batch')
  BY <1>1 DEF Whole, IInv, Control
<1> SUFFICES ASSUME checkpoint < Len(outputs) PROVE WorkInv'
  BY <1>1 DEF WorkInv
<1>3. CASE FirstTime
  <2>1. FirstTime'
    BY <1>1, <1>2, <1>3 DEF FirstTime, Attempt
  <2> QED BY <2>1 DEF WorkInv
<1>4. CASE Deployed /\ Upgraded
  <2>1. Deployed'
    BY <1>1, <1>2, <1>4 DEF Deployed
  <2>2. /\ OnTheWay(Whole, Whole.sysversion, db, Current)
        /\ Route(Whole.sysversion, Current) = "unknown" \/ db = Whole
    <3>1. OnTheWay(Whole, Whole.sysversion, Whole, Current)
      BY DEF OnTheWay
    <3> QED BY <1>4, <3>1 DEF Upgraded, Attempt
  <2>3. Upgraded'
    BY <1>1, <1>2, <2>2 DEF Upgraded, Attempt
  <2> QED BY <2>1, <2>3 DEF WorkInv
<1> QED BY <1>3, <1>4 DEF AInv, WorkInv

\* A batch starts with the version of the tables: the one to start from.
LEMMA LoadWork == ASSUME IInv, VInv, AInv, LoadBatch PROVE WorkInv'
<1>1. /\ UNCHANGED <<outputs, db, checkpoint, busy, plan, pc, settled>>
      /\ Current' = Current /\ ~busy /\ checkpoint < Len(outputs) /\ sysversion' = db.sysversion
  BY DEF LoadBatch, Current
<1>2. Whole' = Whole
  BY <1>1 DEF Whole
<1>3. CASE FirstTime
  <2>1. OnTheWay(settled, settled.sysversion, db, Current) /\ sysversion' = settled.sysversion
    BY <1>1, <1>3 DEF FirstTime, Attempt, OnTheWay
  <2>2. FirstTime'
    BY <1>1, <2>1 DEF FirstTime, Attempt
  <2> QED BY <2>2 DEF WorkInv
<1>4. CASE Deployed /\ Upgraded
  <2>1. Deployed'
    BY <1>1, <1>2, <1>4 DEF Deployed
  <2>2. /\ OnTheWay(Whole, Whole.sysversion, db, Current) /\ sysversion' = Whole.sysversion
        /\ Route(Whole.sysversion, Current) = "unknown" \/ db = Whole
    BY <1>1, <1>4 DEF Upgraded, Attempt, OnTheWay
  <2>3. Upgraded'
    BY <1>1, <1>2, <2>2 DEF Upgraded, Attempt
  <2> QED BY <2>1, <2>3 DEF WorkInv
<1> QED BY <1>1, <1>3, <1>4 DEF AInv, WorkInv

\* An attempt starts with a plan made from the tables as they are.
LEMMA HandleWork == ASSUME IInv, VInv, AInv, Handle PROVE WorkInv'
<1>1. /\ UNCHANGED <<outputs, db, sysversion, checkpoint, batch, settled>>
      /\ Current' = Current /\ ~busy /\ checkpoint < batch /\ busy' /\ pc' = 0
      /\ plan' = HandleOutput(db, sysversion, Current)
  BY DEF Handle, Current
<1>2. checkpoint < Len(outputs) /\ Whole' = Whole
  BY <1>1 DEF Whole, IInv, Control
<1>3. PICK S : plan' \in Seq(S)
  BY <1>1, <1>2, Facts
<1>4. GoesOn(plan', 0, db, plan')
  <2>1. Len(plan') \in Nat
    BY <1>3
  <2> QED BY <2>1, StartsOut
<1>5. CASE FirstTime
  <2>1. OnTheWay(settled, settled.sysversion, db, Current) /\ sysversion = settled.sysversion
    BY <1>1, <1>5 DEF FirstTime, Attempt
  <2>2. FirstTime'
    BY <1>1, <1>4, <2>1 DEF FirstTime, Attempt
  <2> QED BY <2>2 DEF WorkInv
<1>6. CASE Deployed /\ Upgraded
  <2>1. Deployed'
    BY <1>1, <1>2, <1>6 DEF Deployed
  <2>2. /\ OnTheWay(Whole, Whole.sysversion, db, Current) /\ sysversion = Whole.sysversion
        /\ Route(Whole.sysversion, Current) = "unknown" \/ db = Whole
    BY <1>1, <1>6 DEF Upgraded, Attempt
  <2>3. Upgraded'
    BY <1>1, <1>2, <1>4, <2>2 DEF Upgraded, Attempt
  <2> QED BY <2>1, <2>3 DEF WorkInv
<1> QED BY <1>2, <1>5, <1>6 DEF AInv, WorkInv

\* What the output has done when its checkpoint is saved.
Done ==
  /\ HaltFree(HandleOutput(settled, settled.sysversion, Current))
  /\ \/ db = Whole
     \/ Deployed /\ db = Effect(Whole, Whole.sysversion, Current)
  /\ db.sysversion >= settled.sysversion

\* It has done so when the attempt has nothing left to issue.
LEMMA SaveDone == ASSUME IInv, VInv, AInv, SaveCheckpoint PROVE Done
<1>1. busy /\ (\A k \in pc+1..Len(plan) : plan[k] = Nop) /\ pc \in Nat
  BY DEF SaveCheckpoint, VInv
<1>2. checkpoint < Len(outputs) /\ checkpoint < batch
  BY <1>1 DEF IInv, Control
<1>3. Len(plan) \in Nat
  <2>1. PICK S : plan \in Seq(S)
    BY <1>1 DEF IInv, PlanInv, SoundPlan
  <2> QED BY <2>1
<1>4. ASSUME NEW base, NEW v, OnTheWay(base, v, db, Current),
             GoesOn(plan, pc, db, HandleOutput(db, v, Current))
      PROVE  /\ db = Effect(base, v, Current) /\ HaltFree(HandleOutput(base, v, Current))
             /\ db.sysversion = base.sysversion
  <2> DEFINE q == HandleOutput(db, v, Current)
  <2>1. PICK S : q \in Seq(S)
    BY <1>2, Facts
  <2>2. Len(q) \in Nat /\ GoesOn(plan, pc, db, q)
    BY <1>4, <2>1
  <2>3. ApplyAll(db, q) = db /\ HaltFree(q)
    <3> HIDE DEF q
    <3> QED BY <1>1, <1>3, <2>2, Arrived
  <2> QED BY <1>4, <2>3 DEF OnTheWay, Effect
<1>5. CASE FirstTime
  <2>1. /\ OnTheWay(settled, settled.sysversion, db, Current)
        /\ GoesOn(plan, pc, db, HandleOutput(db, settled.sysversion, Current))
    BY <1>1, <1>5 DEF FirstTime, Attempt
  <2>2. /\ db = Whole /\ HaltFree(HandleOutput(settled, settled.sysversion, Current))
        /\ db.sysversion = settled.sysversion
    BY <1>4, <2>1 DEF Whole
  <2>3. settled.sysversion \in Nat
    BY <1>2, Facts
  <2> QED BY <2>2, <2>3 DEF Done
<1>6. CASE Deployed /\ Upgraded
  <2>1. /\ HaltFree(HandleOutput(settled, settled.sysversion, Current))
        /\ Whole.sysversion > settled.sysversion
    BY <1>6 DEF Deployed
  <2>2. CASE db = Whole
    <3>1. db.sysversion \in Nat /\ settled.sysversion \in Nat
      BY <1>2, Facts
    <3> QED BY <2>1, <2>2, <3>1 DEF Done
  <2>3. CASE Attempt(Whole, Whole.sysversion)
    <3>1. /\ OnTheWay(Whole, Whole.sysversion, db, Current)
          /\ GoesOn(plan, pc, db, HandleOutput(db, Whole.sysversion, Current))
      BY <1>1, <2>3 DEF Attempt
    <3>2. db = Effect(Whole, Whole.sysversion, Current) /\ db.sysversion = Whole.sysversion
      BY <1>4, <3>1
    <3>3. db.sysversion \in Nat /\ settled.sysversion \in Nat
      BY <1>2, Facts
    <3> QED BY <1>6, <2>1, <3>2, <3>3 DEF Done
  <2> QED BY <1>6, <2>2, <2>3 DEF Upgraded
<1> QED BY <1>2, <1>5, <1>6 DEF AInv, WorkInv

\* With the checkpoint saved the next output finds the tables settled, and the
\* batch goes on, if it does, under their version.
LEMMA SaveWork == ASSUME IInv, VInv, AInv, NoStaleBatch, SaveCheckpoint PROVE WorkInv'
<1>1. /\ UNCHANGED <<outputs, db, sysversion, batch>>
      /\ checkpoint' = checkpoint + 1 /\ settled' = db /\ ~busy' /\ busy
  BY DEF SaveCheckpoint
<1>2. /\ checkpoint < Len(outputs) /\ checkpoint < batch
      /\ checkpoint \in Nat /\ batch \in Nat
  BY <1>1 DEF IInv, Control
<1>3. /\ settled.sysversion \in Nat /\ db.sysversion \in Nat /\ db.sysversion <= SysVersion
      /\ settled.sysversion >= Genesis.sysversion
  BY <1>2, Facts DEF AInv, PathInv
<1>4. checkpoint' < batch' => sysversion = db.sysversion
  <2> SUFFICES ASSUME checkpoint + 1 < batch PROVE sysversion = db.sysversion
    BY <1>1
  <2>1. BatchLimit # 1 /\ Genesis.sysversion = SysVersion
    BY <1>2 DEF NoStaleBatch, AInv, PathInv
  <2>2. CASE FirstTime
    BY <1>2, <2>2 DEF FirstTime, Attempt, OnTheWay
  <2>3. CASE Deployed /\ Upgraded
    <3>1. Whole.sysversion > settled.sysversion
      BY <2>3 DEF Deployed
    <3>2. db.sysversion = Whole.sysversion
      BY <2>3 DEF Upgraded, Attempt, OnTheWay
    <3> QED BY <1>3, <2>1, <3>1, <3>2, GovernanceAssumption
  <2> QED BY <1>2, <2>2, <2>3 DEF AInv, WorkInv
<1>5. OnTheWay(db, db.sysversion, db, Current')
  BY DEF OnTheWay
<1>6. FirstTime'
  BY <1>1, <1>4, <1>5 DEF FirstTime, Attempt
<1> QED BY <1>6 DEF WorkInv

\* The log grows by one output.
LEMMA ReceiveGrows ==
  ASSUME IInv, NEW i, Separate(i), TypedOutput(i), Receive(i)
  PROVE  \E x : /\ Separate(x) /\ Len(outputs) \in Nat /\ Len(outputs') = Len(outputs) + 1
                /\ \A k \in 1..Len(outputs) : outputs'[k] = outputs[k]
                /\ outputs'[Len(outputs) + 1] = x
<1> DEFINE x == [i EXCEPT !.id = Len(outputs) + 1,
                          !.time = i.time + outputs[Len(outputs)].time]
<1>1. outputs' = Append(outputs, x) /\ Separate(x)
  BY DEF Receive, Separate, TypedOutput, Asking
<1> HIDE DEF x
<1>2. PICK S : outputs \in Seq(S)
  BY DEF IInv, Control
<1>3. outputs \in Seq(S \cup {x}) /\ x \in S \cup {x}
  BY <1>2
<1> QED BY <1>1, <1>3

\* An output that arrives finds the tables settled or waits behind others.
LEMMA ReceiveWork ==
  ASSUME IInv, VInv, AInv, NEW i, Separate(i), TypedOutput(i), Receive(i)
  PROVE  WorkInv' /\ \A k \in 1..Len(outputs') : Separate(outputs'[k])
<1>1. UNCHANGED <<db, sysversion, checkpoint, batch, busy, plan, pc, settled>> /\ ~busy
  BY DEF Receive
<1>2. PICK x : /\ Separate(x) /\ Len(outputs) \in Nat /\ Len(outputs') = Len(outputs) + 1
               /\ \A k \in 1..Len(outputs) : outputs'[k] = outputs[k]
               /\ outputs'[Len(outputs) + 1] = x
  BY ReceiveGrows
<1>3. \A k \in 1..Len(outputs') : Separate(outputs'[k])
  <2> SUFFICES ASSUME NEW k \in 1..Len(outputs') PROVE Separate(outputs'[k])
    OBVIOUS
  <2>1. CASE k \in 1..Len(outputs)
    <3>1. Separate(outputs[k])
      BY <2>1 DEF AInv, PathInv
    <3> QED BY <1>2, <2>1, <3>1
  <2>2. CASE k = Len(outputs) + 1
    BY <1>2, <2>2
  <2> QED BY <1>2, <2>1, <2>2
<1>4. CASE checkpoint < Len(outputs)
  <2>1. checkpoint + 1 \in 1..Len(outputs)
    BY <1>2, <1>4 DEF IInv, Control
  <2>2. Current' = Current
    BY <1>1, <1>2, <2>1 DEF Current
  <2>3. Whole' = Whole
    BY <1>1, <2>2 DEF Whole
  <2>4. FirstTime => FirstTime'
    BY <1>1, <2>2 DEF FirstTime, Attempt
  <2>5. Deployed => Deployed'
    BY <1>1, <2>2, <2>3 DEF Deployed
  <2>6. Upgraded => Upgraded'
    BY <1>1, <2>2, <2>3 DEF Upgraded, Attempt
  <2> QED BY <1>3, <1>4, <2>4, <2>5, <2>6 DEF AInv, WorkInv
<1>5. CASE ~(checkpoint < Len(outputs))
  <2>1. checkpoint = Len(outputs) /\ ~(checkpoint < batch) /\ db = settled
    BY <1>2, <1>5 DEF IInv, Control, TablesInv
  <2>2. OnTheWay(settled, settled.sysversion, db, Current')
    BY <2>1 DEF OnTheWay
  <2>3. FirstTime'
    BY <1>1, <2>1, <2>2 DEF FirstTime, Attempt
  <2> QED BY <1>3, <2>3 DEF WorkInv
<1> QED BY <1>4, <1>5

\* The invariant holds at first
LEMMA InitAtomic == ASSUME AssetsSeparate, Init PROVE AInv
<1>1. /\ outputs = Prefix /\ db = Genesis /\ settled = Genesis /\ checkpoint = 0 /\ batch = 0 /\ ~busy
  BY DEF Init
<1>2. OnTheWay(Genesis, Genesis.sysversion, Genesis, Current)
  BY DEF OnTheWay
<1>3. FirstTime
  BY <1>1, <1>2 DEF FirstTime, Attempt
<1>4. Genesis.sysversion \in Nat
  BY GenesisAssumption, GovernanceAssumption
<1>5. PathInv
  BY <1>1, <1>4 DEF PathInv, AssetsSeparate
<1> QED BY <1>3, <1>5 DEF AInv, WorkInv

\* and is kept by every step, which saves the checkpoint of an output that is done
\* or keeps it.
LEMMA StepAtomic ==
  ASSUME AssetsSeparate, NoStaleBatch, IInv, VInv, AInv, [Next]_vars
  PROVE  AInv' /\ (SaveCheckpoint => Done)
<1> DEFINE Goal == AInv' /\ (SaveCheckpoint => Done)
<1>0. /\ checkpoint \in Nat /\ batch \in Nat /\ checkpoint <= batch /\ Len(outputs) \in Nat
      /\ settled.sysversion \in Nat /\ db.sysversion \in Nat /\ Genesis.sysversion \in Nat
  BY GenesisAssumption, GovernanceAssumption DEF IInv, Control, VInv, VersionOK
<1>1. ASSUME ~SaveCheckpoint, WorkInv', UNCHANGED <<outputs, checkpoint, settled>>,
             batch' = batch \/ batch' = checkpoint PROVE Goal
  BY <1>0, <1>1 DEF AInv, PathInv
<1>2. CASE \E i \in Inputs : Receive(i)
  <2>1. PICK i \in Inputs : Receive(i)
    BY <1>2
  <2>2. Separate(i) /\ TypedOutput(i)
    BY LogAssumption DEF AssetsSeparate
  <2>3. WorkInv' /\ \A k \in 1..Len(outputs') : Separate(outputs'[k])
    BY <2>1, <2>2, ReceiveWork
  <2>4. UNCHANGED <<checkpoint, batch, settled>> /\ ~SaveCheckpoint
    BY <2>1 DEF Receive, SaveCheckpoint
  <2> QED BY <2>3, <2>4 DEF AInv, PathInv
<1>3. CASE LoadBatch
  <2>1. WorkInv'
    BY <1>3, LoadWork
  <2>2. /\ UNCHANGED <<outputs, checkpoint, settled>> /\ ~SaveCheckpoint
        /\ batch' = Lesser(Len(outputs), checkpoint + BatchLimit)
    BY <1>3 DEF LoadBatch, SaveCheckpoint
  <2>3. BatchLimit = 1 => batch' <= checkpoint' + 1
    BY <1>0, <2>2 DEF Lesser
  <2> QED BY <2>1, <2>2, <2>3 DEF AInv, PathInv
<1>4. CASE Handle
  <2>1. WorkInv'
    BY <1>4, HandleWork
  <2> QED BY <1>1, <1>4, <2>1 DEF Handle, SaveCheckpoint
<1>5. CASE Abandon
  <2>1. WorkInv'
    BY <1>5, AbandonWork
  <2>2. ~SaveCheckpoint
    BY <1>0, <1>5 DEF Abandon, SaveCheckpoint
  <2> QED BY <1>1, <1>5, <2>1, <2>2 DEF Abandon
<1>6. CASE Execute
  <2>1. PICK k \in 1..Len(plan) : IsNext(k) /\ (Commit(k) \/ Abandon)
    BY <1>6 DEF Execute
  <2>2. CASE Commit(k)
    <3>1. WorkInv'
      BY <1>6, <2>1, <2>2, CommitWork DEF Execute
    <3>2. ~SaveCheckpoint /\ UNCHANGED <<outputs, checkpoint, batch, settled>>
      BY <1>0, <2>2 DEF Commit, SaveCheckpoint
    <3> QED BY <1>1, <3>1, <3>2
  <2> QED BY <1>5, <2>1, <2>2
<1>7. CASE SaveCheckpoint
  <2>1. WorkInv' /\ Done
    BY <1>7, SaveWork, SaveDone
  <2>2. UNCHANGED <<outputs, batch>> /\ checkpoint' = checkpoint + 1 /\ settled' = db
    BY <1>7 DEF SaveCheckpoint
  <2>3. settled'.sysversion >= Genesis.sysversion
    BY <1>0, <2>1, <2>2 DEF Done, AInv, PathInv
  <2>4. PathInv'
    BY <1>0, <2>2, <2>3 DEF AInv, PathInv
  <2> QED BY <2>1, <2>4 DEF AInv
<1>8. CASE UNCHANGED vars
  <2>1. WorkInv'
    <3>1. Current' = Current /\ Whole' = Whole
      BY <1>8 DEF vars, Current, Whole
    <3>2. (FirstTime => FirstTime') /\ (Upgraded => Upgraded')
      BY <1>8, <3>1 DEF vars, FirstTime, Upgraded, Attempt
    <3>3. Deployed => Deployed'
      BY <1>8, <3>1 DEF vars, Deployed
    <3> QED BY <1>8, <3>2, <3>3 DEF vars, AInv, WorkInv
  <2>2. ~SaveCheckpoint
    BY <1>0, <1>8 DEF vars, SaveCheckpoint
  <2> QED BY <1>1, <1>8, <2>1, <2>2 DEF vars
<1> QED BY <1>2, <1>3, <1>4, <1>5, <1>6, <1>7, <1>8 DEF Next, Fault

(***************************************************************************)
(* What the payee promises                                                 *)
(***************************************************************************)

\* Saving the checkpoint of an output that is done settles its effect as a whole.
LEMMA DoneWhole ==
  ASSUME IInv, VInv, Done, SaveCheckpoint
  PROVE  \E v \in 0..settled.sysversion :
           LET once  == ApplyAll(settled, HandleOutput(settled, v, Current))
               again == ApplyAll(once, HandleOutput(once, once.sysversion, Current))
           IN  settled' \in {once, again}
<1>1. settled' = db /\ settled.sysversion \in Nat
  BY GovernanceAssumption DEF SaveCheckpoint, VInv, VersionOK
<1>2. db \in {Whole, Effect(Whole, Whole.sysversion, Current)}
  BY DEF Done
<1>3. settled.sysversion \in 0..settled.sysversion
  BY <1>1
<1>4. settled' \in {ApplyAll(settled, HandleOutput(settled, settled.sysversion, Current)),
                    ApplyAll(Whole, HandleOutput(Whole, Whole.sysversion, Current))}
  BY <1>1, <1>2 DEF Whole, Effect
<1> QED BY <1>3, <1>4 DEF Whole, Effect

\* However often an output is attempted, wherever the attempts stop, and even if
\* its vote deploys another version in between: the tables settle to what the
\* output does in one go, or to that and what the new version adds to it.
THEOREM AppliedInWholeTheorem ==
  ASSUME AssetsSeparate, NoStaleBatch
  PROVE  Spec => AppliedInWhole
<1> DEFINE Inv == IInv /\ VInv /\ AInv
           Step == checkpoint' > checkpoint =>
             \E v \in 0..settled.sysversion :
               LET once  == ApplyAll(settled, HandleOutput(settled, v, Current))
                   again == ApplyAll(once, HandleOutput(once, once.sysversion, Current))
               IN  settled' \in {once, again}
<1>1. Init => Inv
  BY InitInv, InitVersion, InitAtomic
<1>2. Inv /\ [Next]_vars => Inv'
  BY StepInv, StepVersion, StepAtomic
<1>3. Inv /\ [Next]_vars => [Step]_vars
  <2> SUFFICES ASSUME Inv, [Next]_vars PROVE Step
    OBVIOUS
  <2>1. CASE SaveCheckpoint
    <3>1. Done
      BY <2>1, StepAtomic
    <3> QED BY <2>1, <3>1, DoneWhole
  <2>2. CASE ~SaveCheckpoint
    <3>1. checkpoint' = checkpoint /\ checkpoint \in Nat
      BY <2>2, Settling DEF IInv, Control
    <3> QED BY <3>1
  <2> QED BY <2>1, <2>2
<1>4. Spec => []Inv
  <2> HIDE DEF Inv
  <2> QED BY <1>1, <1>2, PTL DEF Spec
<1>5. Spec => [][Step]_vars
  <2> HIDE DEF Inv, Step
  <2> QED BY <1>3, <1>4, PTL DEF Spec
<1> QED BY <1>5 DEF AppliedInWhole

\* The payment of the abstract ledger is the output the payee receives.
LEMMA ReceivePays ==
  ASSUME NEW i \in Inputs, Receive(i)
  PROVE  Atomic!AtomicNext
<1>1. Atomic!Pay(i)
  BY DEF Receive, Atomic!Pay
<1> QED BY <1>1 DEF Atomic!AtomicNext

\* Saving the checkpoint is the abstract step that applies the whole output.
LEMMA SaveSettles ==
  ASSUME IInv, VInv, Past(settled, checkpoint), settled.sysversion >= 2, Done, SaveCheckpoint
  PROVE  Atomic!AtomicNext
<1> DEFINE v == settled.sysversion
           q == HandleOutput(settled, v, Current)
<1>1. /\ checkpoint < Len(outputs) /\ checkpoint \in Nat /\ Current.id = checkpoint + 1
      /\ TypedOutput(Current) /\ Numbered(Current)
  BY DEF SaveCheckpoint, IInv, Control, Current, Numbered
<1>2. v \in 0..SysVersion /\ v <= settled.sysversion
  BY GovernanceAssumption DEF VInv, VersionOK
<1>3. PICK S : q \in Seq(S)
  <2>1. During(settled, settled, Current)
    BY <1>1, PastDuring
  <2> QED BY <1>1, <2>1, OutputSeq
<1>4. db = ApplyAll(settled, q) /\ HaltFree(q)
  <2>1. db = Whole \/ (Deployed /\ db = Effect(Whole, Whole.sysversion, Current))
    BY DEF Done
  <2>2. CASE db = Whole
    BY <2>2 DEF Done, Whole, Effect
  <2>3. CASE Deployed /\ db = Effect(Whole, Whole.sysversion, Current)
    <3>1. HandleOutput(Whole, Whole.sysversion, Current) = <<>>
      BY <2>3 DEF Deployed
    <3>2. db = ApplyAll(Whole, <<>>)
      BY <2>3, <3>1 DEF Effect
    <3>3. ApplyAll(Whole, <<>>) = Whole
      <4>1. Len(<<>>) = 0
        OBVIOUS
      <4>2. PICK f : ApplyAll(Whole, <<>>) = f[Len(<<>>)] /\ f[0] = Whole
        BY <4>1, AppliedAll
      <4> QED BY <4>1, <4>2
    <3> QED BY <3>2, <3>3 DEF Done, Whole, Effect
  <2> QED BY <2>1, <2>2, <2>3
<1>5. \A k \in DOMAIN q : q[k] # Halt
  <2> HIDE DEF q
  <2>1. DOMAIN q = 1..Len(q)
    BY <1>3
  <2> QED BY <1>4, <2>1 DEF HaltFree
<1>6. settled' = ApplyAll(settled, q) /\ checkpoint' = checkpoint + 1 /\ UNCHANGED outputs
  BY <1>4 DEF SaveCheckpoint
<1>7. Atomic!Settle(v)
  <2>1. q = HandleOutput(settled, v, outputs[checkpoint + 1])
    BY DEF Current
  <2> QED BY <1>1, <1>2, <1>5, <1>6, <2>1 DEF Atomic!Settle
<1> QED BY <1>2, <1>7 DEF Atomic!AtomicNext

\* Outputs take effect exactly once, in order and as a whole: from version 2 on,
\* whose votes are read or refused by every later version, the payee with all its
\* attempts, faults and locks implements the ledger that has none of them.
THEOREM EffectsAreAtomicTheorem ==
  ASSUME AssetsSeparate, NoStaleBatch, Genesis.sysversion >= 2
  PROVE  Spec => EffectsAreAtomic
<1> DEFINE Inv == IInv /\ VInv /\ AInv /\ Past(settled, checkpoint)
           State == <<outputs, settled, checkpoint>>
<1>1. Init => Inv /\ Atomic!AtomicInit
  <2> SUFFICES ASSUME Init PROVE Inv /\ Atomic!AtomicInit
    OBVIOUS
  <2>1. IInv /\ VInv /\ AInv
    BY InitInv, InitVersion, InitAtomic
  <2>2. Past(settled, checkpoint)
    BY GenesisPast DEF Init
  <2>3. Atomic!AtomicInit
    BY DEF Init, Atomic!AtomicInit
  <2> QED BY <2>1, <2>2, <2>3
<1>2. Inv /\ [Next]_vars => Inv'
  <2> SUFFICES ASSUME Inv, [Next]_vars PROVE Inv'
    OBVIOUS
  <2>1. IInv' /\ VInv' /\ AInv'
    BY StepInv, StepVersion, StepAtomic
  <2>2. Past(settled, checkpoint)'
    <3>1. CASE UNCHANGED <<checkpoint, settled>>
      BY <3>1
    <3>2. CASE /\ SaveCheckpoint /\ checkpoint' = checkpoint + 1 /\ settled' = db
               /\ checkpoint \in Nat /\ checkpoint < Len(outputs)
               /\ During(db, settled, Current)
      <4>1. Current.id = checkpoint + 1
        BY <3>2 DEF IInv, Control, Current
      <4> QED BY <3>2, <4>1 DEF During
    <3> QED BY <3>1, <3>2, Settling
  <2> QED BY <2>1, <2>2
<1>3. Inv /\ [Next]_vars => [Atomic!AtomicNext]_State
  <2> SUFFICES ASSUME Inv, [Next]_vars PROVE Atomic!AtomicNext \/ UNCHANGED State
    OBVIOUS
  <2>1. CASE SaveCheckpoint
    <3>1. Done
      BY <2>1, StepAtomic
    <3>2. settled.sysversion >= 2
      BY GenesisAssumption, GovernanceAssumption DEF AInv, PathInv, VInv, VersionOK
    <3> QED BY <2>1, <3>1, <3>2, SaveSettles
  <2>2. CASE \E i \in Inputs : Receive(i)
    BY <2>2, ReceivePays
  <2>3. CASE LoadBatch \/ Handle \/ Execute \/ Fault \/ UNCHANGED vars
    BY <2>3 DEF LoadBatch, Handle, Execute, Commit, Abandon, Fault, vars
  <2> QED BY <2>1, <2>2, <2>3 DEF Next
<1>4. Spec => []Inv
  <2> HIDE DEF Inv
  <2> QED BY <1>1, <1>2, PTL DEF Spec
<1>5. Spec => Atomic!AtomicInit /\ [][Atomic!AtomicNext]_State
  <2> HIDE DEF Inv, State
  <2> QED BY <1>1, <1>3, <1>4, PTL DEF Spec
<1> QED BY <1>5 DEF EffectsAreAtomic, Atomic!AtomicSpec

(***************************************************************************)
(* One outcome.  A plan either returns the money, by a single transfer and *)
(* without a record in the transactions, or it does what was asked and     *)
(* returns nothing.  The tables on the way to its effect hold no more.     *)
(***************************************************************************)

\* A statement that, if it pays for an output or records one, does so for id.
Own(w, id) ==
  /\ w.t = "tx" => w.data.id = id
  /\ w.t = "transfer" /\ w.data.trace[1] = "out" => w.data.trace[2] = id

Mild(w)     == w.t \notin {"tx", "transfer"}
Official(w) == w.t # "tx" /\ (w.t = "transfer" => w.data.trace[1] # "out")
Refund(w)   == w.t = "transfer" /\ w.data.trace[1] = "out" /\ w.data.trace[3] \notin Kinds
Back(w, id) == Own(w, id) /\ w.t # "tx"
Paid(w, id) == Own(w, id) /\ ~Refund(w)

Returning(p, id) ==
  \E S, x : p \in Seq(S) /\ \A w \in S : Back(w, id) /\ (w.t = "transfer" => w.data = x)
Performing(p, id) == \E S : p \in Seq(S) /\ \A w \in S : Paid(w, id)
Deciding(p) == \E S : p \in Seq(S) /\ \A w \in S : Official(w)

\* Plans as long as the handlers write them.
LEMMA Returned ==
  ASSUME NEW id
  PROVE  /\ Returning(<<>>, id)
         /\ \A a : Back(a, id) => Returning(<<a>>, id)
         /\ \A a, b : Mild(a) /\ Back(b, id) => Returning(<<a, b>>, id)
         /\ \A a, b, c : Mild(a) /\ Mild(b) /\ Back(c, id) => Returning(<<a, b, c>>, id)
<1>0. \A a : Mild(a) => Back(a, id) /\ a.t # "transfer"
  BY DEF Mild, Back, Own
<1>1. Returning(<<>>, id)
  <2> DEFINE S == {}
             x == 0
  <2>1. <<>> \in Seq(S) /\ \A w \in S : Back(w, id) /\ (w.t = "transfer" => w.data = x)
    OBVIOUS
  <2> HIDE DEF S, x
  <2> QED BY <2>1 DEF Returning
<1>2. ASSUME NEW a, Back(a, id) PROVE Returning(<<a>>, id)
  <2> DEFINE S == {a}
             x == a.data
  <2>1. <<a>> \in Seq(S) /\ \A w \in S : Back(w, id) /\ (w.t = "transfer" => w.data = x)
    BY <1>2
  <2> HIDE DEF S, x
  <2> QED BY <2>1 DEF Returning
<1>3. ASSUME NEW a, NEW b, Mild(a), Back(b, id) PROVE Returning(<<a, b>>, id)
  <2> DEFINE S == {a, b}
             x == b.data
  <2>1. /\ <<a, b>> \in Seq(S)
        /\ \A w \in S : Back(w, id) /\ (w.t = "transfer" => w.data = x)
    BY <1>0, <1>3
  <2> HIDE DEF S, x
  <2> QED BY <2>1 DEF Returning
<1>4. ASSUME NEW a, NEW b, NEW c, Mild(a), Mild(b), Back(c, id) PROVE Returning(<<a, b, c>>, id)
  <2> DEFINE S == {a, b, c}
             x == c.data
  <2>1. /\ <<a, b, c>> \in Seq(S)
        /\ \A w \in S : Back(w, id) /\ (w.t = "transfer" => w.data = x)
    BY <1>0, <1>4
  <2> HIDE DEF S, x
  <2> QED BY <2>1 DEF Returning
<1> QED BY <1>1, <1>2, <1>3, <1>4

\* The same of plans that do what was asked.
LEMMA Performed ==
  ASSUME NEW id
  PROVE  /\ \A a, b, c : Paid(a, id) /\ Paid(b, id) /\ Paid(c, id) => Performing(<<a, b, c>>, id)
         /\ \A a, b, c, d : Paid(a, id) /\ Paid(b, id) /\ Paid(c, id) /\ Paid(d, id)
              => Performing(<<a, b, c, d>>, id)
         /\ \A a, b, c, d, e :
              Paid(a, id) /\ Paid(b, id) /\ Paid(c, id) /\ Paid(d, id) /\ Paid(e, id)
                => Performing(<<a, b, c, d, e>>, id)
         /\ \A a, b, c, d, e, f, g :
              Paid(a, id) /\ Paid(b, id) /\ Paid(c, id) /\ Paid(d, id) /\ Paid(e, id)
                /\ Paid(f, id) /\ Paid(g, id) => Performing(<<a, b, c, d, e, f, g>>, id)
         /\ \A a, b, c, d, e, f, g, h :
              Paid(a, id) /\ Paid(b, id) /\ Paid(c, id) /\ Paid(d, id) /\ Paid(e, id)
                /\ Paid(f, id) /\ Paid(g, id) /\ Paid(h, id)
                => Performing(<<a, b, c, d, e, f, g, h>>, id)
<1>1. ASSUME NEW a, NEW b, NEW c, Paid(a, id), Paid(b, id), Paid(c, id)
      PROVE  Performing(<<a, b, c>>, id)
  <2> DEFINE S == {a, b, c}
  <2>1. <<a, b, c>> \in Seq(S) /\ \A w \in S : Paid(w, id)
    BY <1>1
  <2> HIDE DEF S
  <2> QED BY <2>1 DEF Performing
<1>2. ASSUME NEW a, NEW b, NEW c, NEW d, Paid(a, id), Paid(b, id), Paid(c, id), Paid(d, id)
      PROVE  Performing(<<a, b, c, d>>, id)
  <2> DEFINE S == {a, b, c, d}
  <2>1. <<a, b, c, d>> \in Seq(S) /\ \A w \in S : Paid(w, id)
    BY <1>2
  <2> HIDE DEF S
  <2> QED BY <2>1 DEF Performing
<1>3. ASSUME NEW a, NEW b, NEW c, NEW d, NEW e, Paid(a, id), Paid(b, id), Paid(c, id), Paid(d, id),
             Paid(e, id)
      PROVE  Performing(<<a, b, c, d, e>>, id)
  <2> DEFINE S == {a, b, c, d, e}
  <2>1. <<a, b, c, d, e>> \in Seq(S) /\ \A w \in S : Paid(w, id)
    BY <1>3
  <2> HIDE DEF S
  <2> QED BY <2>1 DEF Performing
<1>4. ASSUME NEW a, NEW b, NEW c, NEW d, NEW e, NEW f, NEW g, Paid(a, id), Paid(b, id), Paid(c, id),
             Paid(d, id), Paid(e, id), Paid(f, id), Paid(g, id)
      PROVE  Performing(<<a, b, c, d, e, f, g>>, id)
  <2> DEFINE S == {a, b, c, d, e, f, g}
  <2>1. /\ <<a, b, c, d, e, f, g>> \in Seq(S)
        /\ \A w \in S : Paid(w, id)
    BY <1>4
  <2> HIDE DEF S
  <2> QED BY <2>1 DEF Performing
<1>5. ASSUME NEW a, NEW b, NEW c, NEW d, NEW e, NEW f, NEW g, NEW h, Paid(a, id), Paid(b, id),
             Paid(c, id), Paid(d, id), Paid(e, id), Paid(f, id), Paid(g, id), Paid(h, id)
      PROVE  Performing(<<a, b, c, d, e, f, g, h>>, id)
  <2> DEFINE S == {a, b, c, d, e, f, g, h}
  <2>1. /\ <<a, b, c, d, e, f, g, h>> \in Seq(S)
        /\ \A w \in S : Paid(w, id)
    BY <1>5
  <2> HIDE DEF S
  <2> QED BY <2>1 DEF Performing
<1> QED BY <1>1, <1>2, <1>3, <1>4, <1>5

\* What the handlers of user actions issue.
LEMMA Wages ==
  ASSUME NEW o
  PROVE  /\ Back(Nop, o.id) /\ Back(Halt, o.id) /\ Back(RefundV0(o), o.id)
         /\ \A msg, fl : Back(Raise(o, msg, fl), o.id)
         /\ \A v, msg, fl : Back(Reject(v, o, msg, fl), o.id)
         /\ \A s, u, a : Mild(GetOrCreateSupply(s, u, a)) /\ Mild(GetOrCreateBorrow(s, u, a))
         /\ \A s, u, a : /\ Paid(GetOrCreateSupply(s, u, a), o.id)
                         /\ Paid(GetOrCreateBorrow(s, u, a), o.id)
         /\ \A s : Mild(EnsureUser(s, o))
         /\ Paid(Nop, o.id)
         /\ \A kind, cur, amount : kind \in Kinds => Paid(Transfer(o, kind, cur, amount), o.id)
         /\ \A s, n, r : /\ Paid(Record(s, o, Tx(o, n, r)), o.id)
                         /\ Paid(Record(s, o, Decided(s, o, Tx(o, n, r))), o.id)
         /\ \A s, supply, borrow, sm, bm :
              Paid(Record(s, o, Decided(s, o, SeizeTx(o, supply, borrow, sm, bm))), o.id)
         /\ \A s, a, m, id : Paid(UpdateMarket(s, a, m, id), o.id)
         /\ \A s, u, a, r, id : /\ Paid(UpdateSupply(s, u, a, r, id), o.id)
                                /\ Paid(UpdateBorrow(s, u, a, r, id), o.id)
<1>0. \A w : Mild(w) => Paid(w, o.id) /\ Back(w, o.id)
  BY DEF Mild, Paid, Back, Own, Refund
<1>1. Mild(Nop) /\ Mild(Halt)
  BY DEF Mild, Nop, Halt
<1>2. \A kind, cur, amount :
        LET w == Transfer(o, kind, cur, amount)
        IN  Back(w, o.id) /\ (kind \in Kinds => Paid(w, o.id))
  <2> SUFFICES ASSUME NEW kind, NEW cur, NEW amount
               PROVE  LET w == Transfer(o, kind, cur, amount)
                      IN  Back(w, o.id) /\ (kind \in Kinds => Paid(w, o.id))
    OBVIOUS
  <2> DEFINE w == Transfer(o, kind, cur, amount)
  <2>1. w.t = "transfer" /\ w.data.trace = <<"out", o.id, kind>>
    BY DEF Transfer, InsertTransfer
  <2> HIDE DEF w
  <2>2. w.data.trace[2] = o.id /\ w.data.trace[3] = kind
    BY <2>1
  <2>3. Back(w, o.id) /\ (kind \in Kinds => Paid(w, o.id))
    BY <2>1, <2>2 DEF Back, Paid, Own, Refund
  <2> QED BY <2>3 DEF w
<1>3. Back(RefundV0(o), o.id)
  BY <1>2 DEF RefundV0
<1>4. \A msg, fl : Back(Raise(o, msg, fl), o.id)
  BY <1>0, <1>1, <1>2 DEF Raise
<1>5. \A v, msg, fl : Back(Reject(v, o, msg, fl), o.id)
  BY <1>3, <1>4 DEF Reject
<1>6. \A s, u, a : Mild(GetOrCreateSupply(s, u, a)) /\ Mild(GetOrCreateBorrow(s, u, a))
  BY <1>1 DEF GetOrCreateSupply, GetOrCreateBorrow, CreateSupply, CreateBorrow, Mild
<1>7. \A s : Mild(EnsureUser(s, o))
  BY <1>1 DEF EnsureUser, CreateUser, Mild
<1>8. \A s, x : x.id = o.id => /\ Paid(Record(s, o, x), o.id)
                               /\ Paid(Record(s, o, Decided(s, o, x)), o.id)
  <2>1. \A x : x.id = o.id => Paid(InsertTx(x), o.id)
    BY DEF InsertTx, Paid, Own, Refund
  <2> QED BY <1>0, <1>1, <2>1 DEF Record, Decided
<1>9. \A n, r : Tx(o, n, r).id = o.id
  BY DEF Tx
<1>10. \A supply, borrow, sm, bm : SeizeTx(o, supply, borrow, sm, bm).id = o.id
  BY DEF SeizeTx, Tx
<1>11. \A s, table, key, data, id : table \in Versioned => Mild(Update(s, table, key, data, id))
  BY <1>1 DEF Update, Versioned, Mild
<1>12. /\ \A s, a, m, id : Mild(UpdateMarket(s, a, m, id))
       /\ \A s, u, a, r, id : Mild(UpdateSupply(s, u, a, r, id)) /\ Mild(UpdateBorrow(s, u, a, r, id))
  BY <1>11 DEF UpdateMarket, UpdateSupply, UpdateBorrow, Versioned
<1> QED BY <1>0, <1>1, <1>2, <1>3, <1>4, <1>5, <1>6, <1>7, <1>8, <1>9, <1>10, <1>12

\* An outcome of output id is one or the other.
Single(p, id) == Returning(p, id) \/ Performing(p, id)

\* Every user action returns the money or does what was asked.
LEMMA UserSingle ==
  ASSUME NEW s, NEW v, NEW o
  PROVE  Single(HandleUserAction(s, v, o), o.id)
<1>k. /\ "mint" \in Kinds /\ "redeem" \in Kinds /\ "unpledge" \in Kinds /\ "quick-redeem" \in Kinds
      /\ "borrow" \in Kinds /\ "repay-refund" \in Kinds /\ "quick-borrow" \in Kinds
      /\ "liquidate" \in Kinds /\ "liquidate-refund" \in Kinds
  BY DEF Kinds
<1>1. Single(HandleSupply(s, v, o), o.id)
  BY <1>k, Returned, Performed, Wages DEF HandleSupply, Single
<1>2. Single(HandlePledge(s, v, o), o.id)
  BY <1>k, Returned, Performed, Wages DEF HandlePledge, Single
<1>3. Single(HandleRedeem(s, v, o), o.id)
  BY <1>k, Returned, Performed, Wages DEF HandleRedeem, Single
<1>4. Single(HandleUnpledge(s, v, o), o.id)
  BY <1>k, Returned, Performed, Wages DEF HandleUnpledge, Single
<1>5. Single(HandleQuickPledge(s, v, o), o.id)
  BY <1>k, Returned, Performed, Wages DEF HandleQuickPledge, Single
<1>6. Single(HandleQuickRedeem(s, v, o), o.id)
  BY <1>k, Returned, Performed, Wages DEF HandleQuickRedeem, Single
<1>7. Single(HandleBorrow(s, v, o), o.id)
  BY <1>k, Returned, Performed, Wages DEF HandleBorrow, Single
<1>8. Single(HandleRepay(s, v, o), o.id)
  BY <1>k, Returned, Performed, Wages DEF HandleRepay, Single
<1>9. Single(HandleQuickBorrow(s, v, o), o.id)
  BY <1>k, Returned, Performed, Wages DEF HandleQuickBorrow, Single
<1>10. Single(HandleLiquidation(s, v, o), o.id)
  BY <1>k, Returned, Performed, Wages, ZenonT(60) DEF HandleLiquidation, Single
<1>11. Single(<<RefundV0(o)>>, o.id)
  BY Returned, Wages DEF Single
<1> QED BY <1>1, <1>2, <1>3, <1>4, <1>5, <1>6, <1>7, <1>8, <1>9, <1>10, <1>11
        DEF HandleUserAction

\* So it does behind the creation of the account.
LEMMA SingleBehind ==
  ASSUME NEW w, Mild(w), NEW id, NEW h, Single(h, id)
  PROVE  Single(<<w>> \o h, id)
<1>0. Back(w, id) /\ w.t # "transfer" /\ Paid(w, id)
  BY DEF Mild, Back, Paid, Own, Refund
<1>1. CASE Returning(h, id)
  <2>1. PICK S, x : h \in Seq(S) /\ \A y \in S : Back(y, id) /\ (y.t = "transfer" => y.data = x)
    BY <1>1 DEF Returning
  <2> DEFINE T == S \cup {w}
  <2>2. <<w>> \in Seq(T) /\ h \in Seq(T)
    BY <2>1
  <2>3. \A y \in T : Back(y, id) /\ (y.t = "transfer" => y.data = x)
    BY <1>0, <2>1
  <2> HIDE DEF T
  <2>4. <<w>> \o h \in Seq(T)
    BY <2>2
  <2> QED BY <2>3, <2>4 DEF Single, Returning
<1>2. CASE Performing(h, id)
  <2>1. PICK S : h \in Seq(S) /\ \A y \in S : Paid(y, id)
    BY <1>2 DEF Performing
  <2> DEFINE T == S \cup {w}
  <2>2. <<w>> \in Seq(T) /\ h \in Seq(T)
    BY <2>1
  <2>3. \A y \in T : Paid(y, id)
    BY <1>0, <2>1
  <2> HIDE DEF T
  <2>4. <<w>> \o h \in Seq(T)
    BY <2>2
  <2> QED BY <2>3, <2>4 DEF Single, Performing
<1> QED BY <1>1, <1>2 DEF Single

\* Plans of the members, put together.
LEMMA DecidingPlans ==
  /\ Deciding(<<>>)
  /\ \A a : Official(a) => Deciding(<<a>>)
  /\ \A a, b : Official(a) /\ Official(b) => Deciding(<<a, b>>)
  /\ \A p, q : Deciding(p) /\ Deciding(q) => Deciding(p \o q)
<1>1. Deciding(<<>>)
  <2> DEFINE S == {}
  <2>1. <<>> \in Seq(S) /\ \A w \in S : Official(w)
    OBVIOUS
  <2> HIDE DEF S
  <2> QED BY <2>1 DEF Deciding
<1>2. ASSUME NEW a, Official(a) PROVE Deciding(<<a>>)
  <2> DEFINE S == {a}
  <2>1. <<a>> \in Seq(S) /\ \A w \in S : Official(w)
    BY <1>2
  <2> HIDE DEF S
  <2> QED BY <2>1 DEF Deciding
<1>3. ASSUME NEW a, NEW b, Official(a), Official(b) PROVE Deciding(<<a, b>>)
  <2> DEFINE S == {a, b}
  <2>1. <<a, b>> \in Seq(S) /\ \A w \in S : Official(w)
    BY <1>3
  <2> HIDE DEF S
  <2> QED BY <2>1 DEF Deciding
<1>4. ASSUME NEW p, NEW q, Deciding(p), Deciding(q) PROVE Deciding(p \o q)
  <2>1. PICK S : p \in Seq(S) /\ \A w \in S : Official(w)
    BY <1>4 DEF Deciding
  <2>2. PICK T : q \in Seq(T) /\ \A w \in T : Official(w)
    BY <1>4 DEF Deciding
  <2> DEFINE U == S \cup T
  <2>3. p \in Seq(U) /\ q \in Seq(U) /\ \A w \in U : Official(w)
    BY <2>1, <2>2
  <2> HIDE DEF U
  <2>4. p \o q \in Seq(U)
    BY <2>3
  <2> QED BY <2>3, <2>4 DEF Deciding
<1> QED BY <1>1, <1>2, <1>3, <1>4

\* What the members issue: no record in the transactions, and no transfer but that
\* of a withdrawal, which has the trace of its proposal.
LEMMA OfficialStatements ==
  /\ Official(Nop) /\ Official(Halt)
  /\ \A s, a, m, id : Official(UpdateMarket(s, a, m, id)) /\ Official(CreateMarket(a, m, id))
  /\ \A s, p, r, id : Official(UpdateProposal(s, p, r, id)) /\ Official(CreateProposal(p, r, id))
  /\ \A k, x : Official(SaveProperty(k, x))
  /\ \A ss : Official(SaveSigners(ss)) /\ Official(MigrateToV1(ss))
  /\ \A v, p, u : Official(ProposalCreated(p, u, v)) /\ Official(ProposalApproved(p, u, v))
  /\ \A v, p : Official(ProposalPassed(p, v))
  /\ \A v, o, p, act : Official(ForwardProposal(v, o, p, act))
<1>0. \A w : Mild(w) => Official(w)
  BY DEF Mild, Official
<1>1. Mild(Nop) /\ Mild(Halt)
  BY DEF Mild, Nop, Halt
<1>2. \A s, a, m, id : Mild(UpdateMarket(s, a, m, id)) /\ Mild(CreateMarket(a, m, id))
  BY <1>1 DEF UpdateMarket, Update, CreateMarket, Mild
<1>3. \A s, p, r, id : Mild(UpdateProposal(s, p, r, id)) /\ Mild(CreateProposal(p, r, id))
  BY DEF UpdateProposal, CreateProposal, Mild
<1>4. /\ \A k, x : Mild(SaveProperty(k, x))
      /\ \A ss : Mild(SaveSigners(ss)) /\ Mild(MigrateToV1(ss))
  BY DEF SaveProperty, SaveSigners, MigrateToV1, Mild
<1>5. /\ \A v, p, u : Mild(ProposalCreated(p, u, v)) /\ Mild(ProposalApproved(p, u, v))
      /\ \A v, p : Mild(ProposalPassed(p, v))
      /\ \A v, o, p, act : Mild(ForwardProposal(v, o, p, act))
  BY DEF ProposalCreated, ProposalApproved, ProposalPassed, ForwardProposal, Notify, Forward, Mild
<1> QED BY <1>0, <1>1, <1>2, <1>3, <1>4, <1>5

\* A passed proposal pays for no output.
LEMMA PassedDecides ==
  ASSUME NEW s, NEW v, NEW o, NEW p, NEW c
  PROVE  Deciding(HandlePassedProposal(s, v, o, p, c))
<1>1. Deciding(HandleMarketEvent(s, o, c))
  BY DecidingPlans, OfficialStatements DEF HandleMarketEvent
<1>2. Deciding(HandleWithdraw(s, o, p, c))
  <2> DEFINE w == InsertTransfer([trace |-> <<"prop", p, "withdraw">>, cur |-> Currency(c.asset),
                                  amount |-> Trunc8(c.amount), to |-> c.to])
  <2>1. Official(w)
    <3>1. w.t = "transfer" /\ w.data.trace = <<"prop", p, "withdraw">>
      BY DEF InsertTransfer
    <3> HIDE DEF w
    <3>2. w.data.trace[1] = "prop"
      BY <3>1
    <3> QED BY <3>1, <3>2 DEF Official
  <2> HIDE DEF w
  <2>2. HandleWithdraw(s, o, p, c) = <<>> \/ \E m : HandleWithdraw(s, o, p, c) = <<w, UpdateMarket(s, c.asset, m, o.id)>>
    BY DEF HandleWithdraw, w
  <2> QED BY <2>1, <2>2, DecidingPlans, OfficialStatements
<1>3. Deciding(HandleMarketStatus(s, o, c))
  BY DecidingPlans, OfficialStatements DEF HandleMarketStatus
<1>4. Deciding(HandleOracleSigner(s, c))
  BY DecidingPlans, OfficialStatements DEF HandleOracleSigner
<1>5. Deciding(SetProperty(s, v, c))
  <2>1. Deciding(MigrateSystem(s, v))
    <3>1. PICK S : MigrateSystem(s, v) \in Seq(S) /\ \A w \in S : \E us : w = MigrateToV1(us)
      BY Pages
    <3> QED BY <3>1, OfficialStatements DEF Deciding
  <2>2. Deciding(<<SaveProperty(c.key, c.value)>>) /\ Deciding(<<Halt>>) /\ Deciding(<<>>)
    BY DecidingPlans, OfficialStatements
  <2>3. Deciding((IF c.key = "sysversion" THEN MigrateSystem(s, v) ELSE <<>>)
                   \o <<SaveProperty(c.key, c.value)>>)
    BY <2>1, <2>2, DecidingPlans
  <2> QED BY <2>2, <2>3 DEF SetProperty
<1> QED BY <1>1, <1>2, <1>3, <1>4, <1>5, DecidingPlans DEF HandlePassedProposal

\* Nor does a vote, a new proposal or an announcement.
LEMMA MemberDecides ==
  ASSUME NEW s, NEW v, NEW o
  PROVE  /\ Deciding(HandleMakeProposal(s, v, o)) /\ Deciding(HandleShoutProposal(s, v, o))
         /\ Deciding(HandleVoteProposal(s, v, o)) /\ Deciding(HandleProposalActionV0(s, v, o))
<1>0. Deciding(<<>>) /\ Deciding(<<Halt>>)
  BY DecidingPlans, OfficialStatements
<1>1. Deciding(HandleMakeProposal(s, v, o))
  <2> DEFINE x == CreateProposal(o.id, NewProposal(o.content), o.id)
             y == IF o.sender \in Members THEN <<ProposalCreated(o.id, o.sender, v)>>
                  ELSE IF o.sender \in Staff THEN <<ForwardProposal(v, o, o.id, "shout")>>
                  ELSE <<>>
  <2>1. Deciding(<<x>>) /\ Deciding(y)
    BY DecidingPlans, OfficialStatements
  <2>2. Deciding(<<x>> \o y)
    BY <2>1, DecidingPlans
  <2> HIDE DEF x, y
  <2> QED BY <1>0, <2>2 DEF HandleMakeProposal, x, y
<1>2. Deciding(HandleShoutProposal(s, v, o))
  BY DecidingPlans, OfficialStatements DEF HandleShoutProposal
<1>3. ASSUME NEW p PROVE Deciding(CountVote(s, v, o, p))
  <2> DEFINE voted == Voted(s.proposal[p], o)
             x == <<ProposalApproved(p, Voter(o), v)>>
             y == IF voted.passed THEN <<ProposalPassed(p, v)>> ELSE <<>>
             z == <<UpdateProposal(s, p, voted, o.id)>>
             h == IF voted.passed THEN HandlePassedProposal(s, v, o, p, voted.content) ELSE <<>>
  <2>1. Deciding(x) /\ Deciding(y) /\ Deciding(z) /\ Deciding(h)
    BY DecidingPlans, OfficialStatements, PassedDecides
  <2> HIDE DEF x, y, z, h
  <2>2. Deciding(x \o y)
    BY <2>1, DecidingPlans
  <2>3. Deciding(x \o y \o z)
    BY <2>1, <2>2, DecidingPlans
  <2>4. Deciding(x \o y \o z \o h)
    BY <2>1, <2>3, DecidingPlans
  <2>5. CountVote(s, v, o, p) = x \o y \o z \o h
    BY DEF CountVote, x, y, z, h
  <2> QED BY <2>4, <2>5
<1>4. Deciding(HandleVoteProposal(s, v, o))
  <2>1. Deciding(<<ForwardProposal(v, o, o.prop, "vote")>>)
    BY DecidingPlans, OfficialStatements
  <2> QED BY <1>0, <1>3, <2>1, PassedDecides DEF HandleVoteProposal
<1>5. Deciding(HandleVoteProposalV0(s, v, o))
  BY <1>0, <1>3, PassedDecides DEF HandleVoteProposalV0
<1>6. Deciding(HandleCreateProposalV0(s, v, o))
  BY <1>0, DecidingPlans, OfficialStatements DEF HandleCreateProposalV0
<1> QED BY <1>1, <1>2, <1>4, <1>5, <1>6 DEF HandleProposalActionV0

\* Whatever the output is, its handler returns the money or does what was asked, and
\* a vote that is read does neither.
LEMMA OutputSingle ==
  ASSUME NEW s, NEW v, NEW o
  PROVE  /\ Single(HandleOutput(s, v, o), o.id)
         /\ o.act = "vote" /\ Route(v, o) # "unknown" => Deciding(HandleOutput(s, v, o))
<1>0. ASSUME NEW p, Deciding(p) PROVE Single(p, o.id)
  <2>1. \A w : Official(w) => Paid(w, o.id)
    BY DEF Official, Paid, Own, Refund
  <2> QED BY <1>0, <2>1 DEF Deciding, Performing, Single
<1>1. Deciding(<<>>) /\ Single(<<>>, o.id)
  BY <1>0, DecidingPlans
<1>2. Deciding(HandlePriceEvent(s, v, o))
  BY DecidingPlans, OfficialStatements DEF HandlePriceEvent
<1>3. Single(HandleUnknown(s, o), o.id)
  BY Returned, Wages DEF HandleUnknown, Single
<1>4. /\ Single(Dispatch(s, v, o), o.id)
      /\ o.act = "vote" => Deciding(Dispatch(s, v, o))
  <2>1. Single(<<EnsureUser(s, o)>> \o HandleUserAction(Apply(s, EnsureUser(s, o)), v, o), o.id)
    <3>1. Mild(EnsureUser(s, o))
      BY Wages
    <3>2. Single(HandleUserAction(Apply(s, EnsureUser(s, o)), v, o), o.id)
      BY UserSingle
    <3> QED BY <3>1, <3>2, SingleBehind
  <2> QED BY <1>0, <2>1, MemberDecides DEF Dispatch
<1>5. Deciding(HandleProposalActionV0(s, v, o))
  BY MemberDecides
<1>6. Single(HandleOutput(s, v, o), o.id)
  BY <1>0, <1>1, <1>2, <1>3, <1>4, <1>5 DEF HandleOutput
<1>7. ASSUME o.act = "vote", Route(v, o) # "unknown" PROVE Deciding(HandleOutput(s, v, o))
  BY <1>1, <1>2, <1>4, <1>5, <1>7 DEF HandleOutput
<1> QED BY <1>6, <1>7

\* The tables a plan records its outcome in.
Keeps(s) == {"tx", "transfer", "sysversion"} \subseteq DOMAIN s
Within(s, t) == s.tx \subseteq t.tx /\ s.transfer \subseteq t.transfer
Adds(s, t, S) ==
  /\ \A x \in t.tx : x \in s.tx \/ \E w \in S : w.t = "tx" /\ x = w.data
  /\ \A x \in t.transfer : x \in s.transfer \/ \E w \in S : w.t = "transfer" /\ x = w.data
  /\ (\A w \in S : w.t # "sysversion") => t.sysversion = s.sysversion

\* A statement takes nothing back, and adds what it inserts.
LEMMA ApplyAdds ==
  ASSUME NEW s, Keeps(s), NEW S, NEW w \in S
  PROVE  Keeps(Apply(s, w)) /\ Within(s, Apply(s, w)) /\ Adds(s, Apply(s, w), S)
<1> DEFINE t == Apply(s, w)
<1>1. CASE w.t = "tx"
  <2>1. t = s \/ t = [s EXCEPT !.tx = @ \cup {w.data}]
    BY <1>1 DEF Apply
  <2> HIDE DEF t
  <2> QED BY <1>1, <2>1 DEF Keeps, Within, Adds, t
<1>2. CASE w.t = "transfer"
  <2>1. t = s \/ t = [s EXCEPT !.transfer = @ \cup {w.data}]
    BY <1>2 DEF Apply
  <2> HIDE DEF t
  <2> QED BY <1>2, <2>1 DEF Keeps, Within, Adds, t
<1>3. CASE w.t \notin {"tx", "transfer"}
  <2>1. Keeps(t) /\ t.tx = s.tx /\ t.transfer = s.transfer
    BY <1>3 DEF Apply, Keeps
  <2>2. w.t # "sysversion" => t.sysversion = s.sysversion
    BY <1>3 DEF Apply, Keeps
  <2> HIDE DEF t
  <2> QED BY <2>1, <2>2 DEF Within, Adds, t
<1> QED BY <1>1, <1>2, <1>3

\* So does a plan.
LEMMA AllAdds ==
  ASSUME NEW s, Keeps(s), NEW S, NEW p \in Seq(S)
  PROVE  Keeps(ApplyAll(s, p)) /\ Within(s, ApplyAll(s, p)) /\ Adds(s, ApplyAll(s, p), S)
<1>1. Len(p) \in Nat /\ \A i \in 1..Len(p) : p[i] \in S
  OBVIOUS
<1>2. PICK f : ApplyAll(s, p) = f[Len(p)] /\ f[0] = s /\ Steps(f, p, Len(p))
  BY <1>1, AppliedAll
<1> DEFINE Good(t) == Keeps(t) /\ Within(s, t) /\ Adds(s, t, S)
           T == {i \in 0..Len(p) : ~Good(f[i])}
<1>3. ASSUME T # {} PROVE FALSE
  <2>1. T \in SUBSET Nat
    BY <1>1
  <2>2. PICK i \in T : \A j \in T : i <= j
    BY <1>3, <2>1, Least
  <2>3. Good(s)
    BY DEF Within, Adds
  <2>4. i # 0
    BY <1>2, <2>2, <2>3
  <2>5. i \in 1..Len(p) /\ i - 1 \in 0..Len(p) /\ i - 1 \notin T
    BY <1>1, <2>2, <2>4
  <2>6. Good(f[i-1]) /\ f[i] = Apply(f[i-1], p[i]) /\ p[i] \in S
    BY <1>1, <1>2, <2>5 DEF Steps
  <2>7. Keeps(f[i]) /\ Within(f[i-1], f[i]) /\ Adds(f[i-1], f[i], S)
    BY <2>6, ApplyAdds
  <2>8. Good(f[i])
    BY <2>6, <2>7 DEF Within, Adds
  <2> QED BY <2>2, <2>8
<1>4. Len(p) \in 0..Len(p) /\ Len(p) \notin T
  BY <1>1, <1>3
<1>5. Good(f[Len(p)])
  BY <1>4
<1> QED BY <1>2, <1>5

\* No output has been returned twice, or returned and carried out, and none past n
\* at all.
Clean(s, i) == Refunds(s, i) = {} /\ ~HasTx(s, i)
OneAt(s, i) ==
  /\ \A x, y \in Refunds(s, i) : x = y
  /\ Refunds(s, i) = {} \/ ~HasTx(s, i)
Tidy(s, n) == \A i \in Nat : OneAt(s, i) /\ (i > n => Clean(s, i))

\* Tables that hold less are no less tidy.
LEMMA TidyWithin ==
  ASSUME NEW s, NEW t, Within(s, t), NEW n, Tidy(t, n)
  PROVE  Tidy(s, n)
<1>1. \A i : Refunds(s, i) \subseteq Refunds(t, i) /\ (HasTx(s, i) => HasTx(t, i))
  BY DEF Within, Refunds, Outcomes, HasTx
<1> QED BY <1>1 DEF Tidy, OneAt, Clean

\* A plan of the next output leaves the tables tidy, and the members' as they are.
LEMMA TidyPlan ==
  ASSUME NEW s, Keeps(s), NEW n \in Nat, Tidy(s, n), NEW p
  PROVE  /\ Single(p, n + 1) => Tidy(ApplyAll(s, p), n + 1)
         /\ Deciding(p) => Tidy(ApplyAll(s, p), n)
<1> DEFINE t == ApplyAll(s, p)
           id == n + 1
<1>0. id \in Nat /\ Clean(s, id) /\ \A i \in Nat : i > id => i > n /\ i # id
  BY DEF Tidy
<1>1. ASSUME NEW S, p \in Seq(S), \A w \in S : Own(w, id), NEW i \in Nat, i # id
      PROVE  Refunds(t, i) \subseteq Refunds(s, i) /\ (HasTx(t, i) => HasTx(s, i))
  <2>1. Adds(s, t, S)
    BY <1>1, AllAdds
  <2> HIDE DEF t, id
  <2>2. ASSUME NEW x \in Refunds(t, i) PROVE x \in Refunds(s, i)
    <3>1. x \in t.transfer /\ x.trace[1] = "out" /\ x.trace[2] = i /\ x.trace[3] \notin Kinds
      BY <2>2 DEF Refunds, Outcomes
    <3>2. x \in s.transfer
      BY <1>1, <2>1, <3>1 DEF Adds, Own
    <3> QED BY <3>1, <3>2 DEF Refunds, Outcomes
  <2>3. ASSUME HasTx(t, i) PROVE HasTx(s, i)
    BY <1>1, <2>1, <2>3 DEF Adds, Own, HasTx
  <2> QED BY <2>2, <2>3
<1>2. ASSUME NEW S, p \in Seq(S), \A w \in S : Own(w, id), OneAt(t, id) PROVE Tidy(t, id)
  <2> HIDE DEF t, id
  <2>1. ASSUME NEW i \in Nat, i # id PROVE OneAt(t, i) /\ (i > id => Clean(t, i))
    <3>1. Refunds(t, i) \subseteq Refunds(s, i) /\ (HasTx(t, i) => HasTx(s, i))
      BY <1>1, <1>2, <2>1
    <3> QED BY <1>0, <2>1, <3>1 DEF Tidy, OneAt, Clean
  <2> QED BY <1>0, <1>2, <2>1 DEF Tidy
<1>3. ASSUME Returning(p, id) PROVE Tidy(t, id)
  <2>1. PICK S, x : p \in Seq(S) /\ \A w \in S : Back(w, id) /\ (w.t = "transfer" => w.data = x)
    BY <1>3 DEF Returning
  <2>2. Adds(s, t, S)
    BY <2>1, AllAdds
  <2>3. \A w \in S : Own(w, id)
    BY <2>1 DEF Back
  <2> HIDE DEF t, id
  <2>4. \A y \in Refunds(t, id) : y = x
    <3> SUFFICES ASSUME NEW y \in Refunds(t, id) PROVE y = x
      OBVIOUS
    <3>1. y \in t.transfer /\ y \notin s.transfer
      BY <1>0 DEF Refunds, Outcomes, Clean
    <3> QED BY <2>1, <2>2, <3>1 DEF Adds
  <2>5. ~HasTx(t, id)
    BY <1>0, <2>1, <2>2 DEF HasTx, Adds, Back, Clean
  <2>6. OneAt(t, id)
    BY <2>4, <2>5 DEF OneAt
  <2> QED BY <1>2, <2>1, <2>3, <2>6
<1>4. ASSUME Performing(p, id) PROVE Tidy(t, id)
  <2>1. PICK S : p \in Seq(S) /\ \A w \in S : Paid(w, id)
    BY <1>4 DEF Performing
  <2>2. Adds(s, t, S)
    BY <2>1, AllAdds
  <2>3. \A w \in S : Own(w, id)
    BY <2>1 DEF Paid
  <2> HIDE DEF t, id
  <2>4. Refunds(t, id) = {}
    <3> SUFFICES ASSUME NEW y \in Refunds(t, id) PROVE FALSE
      OBVIOUS
    <3>1. y \in t.transfer /\ y \notin s.transfer /\ y.trace[1] = "out" /\ y.trace[3] \notin Kinds
      BY <1>0 DEF Refunds, Outcomes, Clean
    <3> QED BY <2>1, <2>2, <3>1 DEF Adds, Paid, Refund
  <2>5. OneAt(t, id)
    BY <2>4 DEF OneAt
  <2> QED BY <1>2, <2>1, <2>3, <2>5
<1>5. ASSUME Deciding(p) PROVE Tidy(t, n)
  <2>1. PICK S : p \in Seq(S) /\ \A w \in S : Official(w)
    BY <1>5 DEF Deciding
  <2>2. Adds(s, t, S)
    BY <2>1, AllAdds
  <2> HIDE DEF t, id
  <2>3. ASSUME NEW i PROVE Refunds(t, i) \subseteq Refunds(s, i) /\ (HasTx(t, i) => HasTx(s, i))
    <3>1. ASSUME NEW x \in Refunds(t, i) PROVE x \in Refunds(s, i)
      <4>1. x \in t.transfer /\ x.trace[1] = "out" /\ x.trace[2] = i /\ x.trace[3] \notin Kinds
        BY <3>1 DEF Refunds, Outcomes
      <4>2. x \in s.transfer
        BY <2>1, <2>2, <4>1 DEF Adds, Official
      <4> QED BY <4>1, <4>2 DEF Refunds, Outcomes
    <3>2. ASSUME HasTx(t, i) PROVE HasTx(s, i)
      BY <2>1, <2>2, <3>2 DEF Adds, Official, HasTx
    <3> QED BY <3>1, <3>2
  <2> QED BY <2>3 DEF Tidy, OneAt, Clean
<1> QED BY <1>3, <1>4, <1>5 DEF Single

\* The settled tables are tidy.
TidyInv == Keeps(settled) /\ Tidy(settled, checkpoint)

\* The tables of an attempt hold no more than those it leads to.
LEMMA WayWithin ==
  ASSUME NEW base, NEW v, NEW s, Keeps(s), NEW o, OnTheWay(base, v, s, o),
         NEW S, HandleOutput(s, v, o) \in Seq(S)
  PROVE  Within(s, Effect(base, v, o))
<1>1. Within(s, Effect(s, v, o))
  BY AllAdds DEF Effect
<1> QED BY <1>1 DEF OnTheWay

\* A vote that deploys a version was read under the one before.
LEMMA DeployedRead ==
  ASSUME Keeps(settled), Deployed, settled.sysversion \in Nat
  PROVE  Current.act = "vote" /\ Route(settled.sysversion, Current) # "unknown"
<1> DEFINE o == Current
           v == settled.sysversion
<1>1. o.act = "vote" /\ Whole.sysversion > v
  BY DEF Deployed, Refused
<1>2. SUFFICES ASSUME Route(v, o) = "unknown" PROVE FALSE
  BY <1>1
<1>3. HandleOutput(settled, v, o) = <<EnsureUser(settled, o), RefundV0(o)>>
  <2>1. ~IsPrice(settled, v, o)
    BY <1>1 DEF IsPrice
  <2> QED BY <1>2, <2>1 DEF HandleOutput, HandleUnknown
<1> DEFINE S == {EnsureUser(settled, o), RefundV0(o)}
           p == <<EnsureUser(settled, o), RefundV0(o)>>
<1>4. \A w \in S : w.t # "sysversion"
  BY DEF EnsureUser, RefundV0, Transfer, InsertTransfer, CreateUser, Nop
<1>5. p \in Seq(S)
  OBVIOUS
<1>6. Whole = ApplyAll(settled, p)
  BY <1>3 DEF Whole, Effect
<1> HIDE DEF S, p
<1>7. Adds(settled, Whole, S)
  BY <1>5, <1>6, AllAdds
<1>8. Whole.sysversion = v
  BY <1>4, <1>7 DEF Adds
<1> QED BY <1>1, <1>8

\* At every moment of an attempt the tables are tidy up to the current output.
LEMMA AttemptTidy ==
  ASSUME IInv, VInv, AInv, TidyInv, checkpoint < Len(outputs)
  PROVE  Keeps(db) /\ Tidy(db, checkpoint + 1)
<1> DEFINE o == Current
           v == settled.sysversion
           w == Whole.sysversion
           n == checkpoint
<1>1. /\ TablesShape(db) /\ v \in Nat /\ n \in Nat /\ o.id = n + 1
      /\ \A x : \E S : HandleOutput(db, x, o) \in Seq(S)
  <2>1. n \in Nat /\ n + 1 \in 1..Len(outputs)
    BY DEF IInv, Control
  <2>2. o.id = n + 1
    BY <2>1 DEF IInv, Control, Current
  <2> QED BY <2>1, <2>2, Facts DEF During, Past
<1>2. Keeps(db) /\ Keeps(settled) /\ Tidy(settled, n)
  BY <1>1 DEF Keeps, TablesShape, Tables, TidyInv
<1>3. Tidy(Whole, n + 1)
  <2>1. Single(HandleOutput(settled, v, o), n + 1)
    BY <1>1, OutputSingle
  <2> QED BY <1>1, <1>2, <2>1, TidyPlan DEF Whole, Effect
<1>4. CASE FirstTime
  <2>1. OnTheWay(settled, v, db, o)
    BY <1>4 DEF FirstTime, Attempt
  <2>2. Within(db, Whole)
    BY <1>1, <1>2, <2>1, WayWithin DEF Whole
  <2> QED BY <1>2, <1>3, <2>2, TidyWithin
<1>5. CASE Deployed /\ Upgraded
  <2>1. CASE db = Whole
    BY <1>2, <1>3, <2>1
  <2>2. CASE Attempt(Whole, w)
    <3>1. OnTheWay(Whole, w, db, o)
      BY <2>2 DEF Attempt
    <3>2. Within(db, Effect(Whole, w, o))
      BY <1>1, <1>2, <3>1, WayWithin
    <3>3. Keeps(Whole) /\ Tidy(Whole, n)
      <4>1. Deciding(HandleOutput(settled, v, o))
        BY <1>1, <1>2, <1>5, DeployedRead, OutputSingle
      <4>2. Tidy(Whole, n)
        BY <1>1, <1>2, <4>1, TidyPlan DEF Whole, Effect
      <4>3. PICK S : HandleOutput(settled, v, o) \in Seq(S)
        BY <4>1 DEF Deciding
      <4>4. Keeps(Whole)
        BY <1>2, <4>3, AllAdds DEF Whole, Effect
      <4> QED BY <4>2, <4>4
    <3>4. Single(HandleOutput(Whole, w, o), n + 1)
      BY <1>1, OutputSingle
    <3>5. Tidy(Effect(Whole, w, o), n + 1)
      BY <1>1, <3>3, <3>4, TidyPlan DEF Effect
    <3> QED BY <1>2, <3>2, <3>5, TidyWithin
  <2> QED BY <1>5, <2>1, <2>2 DEF Upgraded
<1> QED BY <1>4, <1>5 DEF AInv, WorkInv

\* Tidy tables have at most one refund of an output.
LEMMA TidyOutcome ==
  ASSUME IInv, VInv, AInv, TidyInv
  PROVE  OneOutcome
<1>1. \E n : Tidy(db, n)
  <2>1. CASE checkpoint < Len(outputs)
    BY <2>1, AttemptTidy
  <2>2. CASE ~(checkpoint < Len(outputs))
    <3>1. checkpoint = Len(outputs)
      BY <2>2 DEF IInv, Control
    <3>2. db = settled
      BY <3>1 DEF IInv, TablesInv
    <3> QED BY <3>2 DEF TidyInv
  <2> QED BY <2>1, <2>2
<1>2. SUFFICES ASSUME NEW i \in 1..checkpoint+1
               PROVE  /\ Cardinality(Refunds(db, i)) <= 1
                      /\ Refunds(db, i) = {} \/ ~HasTx(db, i)
  BY DEF OneOutcome
<1>3. OneAt(db, i)
  BY <1>1 DEF Tidy
<1> DEFINE R == Refunds(db, i)
<1>4. Cardinality(R) <= 1
  <2>1. CASE R = {}
    BY <2>1, FS_EmptySet
  <2>2. CASE R # {}
    <3>1. PICK x : x \in R
      BY <2>2
    <3>2. R = {x}
      BY <1>3, <3>1 DEF OneAt
    <3>3. Cardinality({x}) = 1
      BY FS_Singleton
    <3> HIDE DEF R
    <3> QED BY <3>2, <3>3
  <2> QED BY <2>1, <2>2
<1> QED BY <1>3, <1>4 DEF OneAt

\* What is settled next is what the attempt has left.
LEMMA StepTidy ==
  ASSUME IInv, VInv, AInv, TidyInv, [Next]_vars
  PROVE  TidyInv'
<1>1. CASE SaveCheckpoint
  <2>1. checkpoint < Len(outputs) /\ settled' = db /\ checkpoint' = checkpoint + 1
    BY <1>1 DEF SaveCheckpoint, IInv, Control
  <2> QED BY <2>1, AttemptTidy DEF TidyInv
<1>2. CASE ~SaveCheckpoint
  <2>1. UNCHANGED <<checkpoint, settled>>
    BY <1>2 DEF Next, Receive, LoadBatch, Handle, Execute, Commit, Abandon, Fault, vars
  <2> QED BY <2>1 DEF TidyInv
<1> QED BY <1>1, <1>2

\* An output is never both carried out and refunded, and never refunded twice, not
\* even between a crash and the retry, nor by a version its own vote has deployed.
THEOREM OneOutcomeTheorem ==
  ASSUME AssetsSeparate, NoStaleBatch
  PROVE  Spec => []OneOutcome
<1> DEFINE Inv == IInv /\ VInv /\ AInv /\ TidyInv
<1>1. Init => Inv
  <2>1. ASSUME Init PROVE TidyInv
    <3>1. settled = Genesis /\ checkpoint = 0
      BY <2>1 DEF Init
    <3>2. Genesis.tx = {} /\ Genesis.transfer = {} /\ Keeps(Genesis)
      BY GenesisAssumption DEF TablesShape, Tables, Keeps
    <3>3. \A i : Clean(Genesis, i)
      BY <3>2 DEF Clean, Refunds, Outcomes, HasTx
    <3> QED BY <3>1, <3>2, <3>3 DEF TidyInv, Tidy, OneAt, Clean
  <2> QED BY <2>1, InitInv, InitVersion, InitAtomic
<1>2. Inv /\ [Next]_vars => Inv'
  BY StepInv, StepVersion, StepAtomic, StepTidy
<1>3. Inv => OneOutcome
  BY TidyOutcome
<1> QED BY <1>1, <1>2, <1>3, PTL DEF Spec

(***************************************************************************)
(* Whether a market is open is what the votes say.  Every plan but that of *)
(* a vote that passes leaves the markets' status and the passed proposals  *)
(* alone; a vote that passes adds one decision, later than all others.     *)
(***************************************************************************)

\* What the status depends on.
Frame(s) ==
  /\ {"market", "proposal", "ver"} \subseteq DOMAIN s
  /\ DOMAIN s.market = Assets /\ DOMAIN s.proposal = Proposals /\ DOMAIN s.ver = Rows
Firm(s) == \A p \in Proposals : s.proposal[p].passed => s.proposal[p].exists

SameStatus(s, t, a) ==
  t.market[a].exists = s.market[a].exists /\ t.market[a].closed = s.market[a].closed
SameVerdict(s, t, p) ==
  \/ t.proposal[p] = s.proposal[p] /\ t.ver[<<"proposal", p>>] = s.ver[<<"proposal", p>>]
  \/ ~s.proposal[p].passed /\ ~t.proposal[p].passed
Unmoved(s, t) ==
  /\ \A a \in Assets : SameStatus(s, t, a)
  /\ \A p \in Proposals : SameVerdict(s, t, p)

\* A statement that changes neither, of tables with the status of s.
Calm(w, s) ==
  /\ w.t \notin {"proposal", "newmarket"}
  /\ w.t = "market" /\ w.key \in Assets =>
       w.data.exists = s.market[w.key].exists /\ w.data.closed = s.market[w.key].closed
  /\ w.t = "newproposal" => ~w.data.passed
CalmPlan(p, s) == \E S : p \in Seq(S) /\ \A w \in S : Calm(w, s)

LEMMA ApplyCalm ==
  ASSUME NEW s, NEW t, Frame(t), Firm(t), Unmoved(s, t), NEW w, Calm(w, s)
  PROVE  Frame(Apply(t, w)) /\ Firm(Apply(t, w)) /\ Unmoved(s, Apply(t, w))
<1> DEFINE u == Apply(t, w)
<1>1. CASE w.t = "market"
  <2>1. u = [t EXCEPT !.market[w.key] = w.data, !.ver[<<"market", w.key>>] = w.new]
    BY <1>1 DEF Apply
  <2> HIDE DEF u
  <2>2. Frame(u) /\ u.proposal = t.proposal
    BY <2>1 DEF Frame
  <2>3. \A p \in Proposals : u.ver[<<"proposal", p>>] = t.ver[<<"proposal", p>>]
    BY <2>1, RowKinds DEF Frame
  <2>4. \A a \in Assets : u.market[a] = IF a = w.key THEN w.data ELSE t.market[a]
    BY <2>1 DEF Frame
  <2>5. \A a \in Assets : SameStatus(s, u, a)
    BY <1>1, <2>4 DEF Unmoved, SameStatus, Calm
  <2>6. \A p \in Proposals : SameVerdict(s, u, p)
    BY <2>2, <2>3 DEF Unmoved, SameVerdict
  <2> QED BY <2>2, <2>5, <2>6 DEF Firm, Unmoved, u
<1>2. CASE w.t = "newproposal"
  <2>1. u = t \/ /\ ~t.proposal[w.key].exists
                 /\ u = [t EXCEPT !.proposal[w.key] = w.data, !.ver[<<"proposal", w.key>>] = w.new]
    BY <1>2 DEF Apply
  <2>2. CASE u = t
    BY <2>2
  <2>3. CASE /\ ~t.proposal[w.key].exists
             /\ u = [t EXCEPT !.proposal[w.key] = w.data, !.ver[<<"proposal", w.key>>] = w.new]
    <3> HIDE DEF u
    <3>1. Frame(u) /\ u.market = t.market
      BY <2>3 DEF Frame
    <3>2. \A p \in Proposals :
            IF p = w.key THEN u.proposal[p] = w.data
            ELSE u.proposal[p] = t.proposal[p] /\ u.ver[<<"proposal", p>>] = t.ver[<<"proposal", p>>]
      BY <2>3, RowKinds DEF Frame
    <3>3. w.key \in Proposals => ~t.proposal[w.key].passed /\ ~w.data.passed
      BY <1>2, <2>3 DEF Firm, Calm
    <3>4. \A p \in Proposals : SameVerdict(s, u, p)
      <4> TAKE p \in Proposals
      <4>1. CASE p = w.key
        <5>1. ~t.proposal[p].passed /\ ~u.proposal[p].passed
          BY <3>2, <3>3, <4>1
        <5>2. SameVerdict(s, t, p)
          BY DEF Unmoved
        <5> QED BY <5>1, <5>2 DEF SameVerdict
      <4>2. CASE p # w.key
        BY <3>2, <4>2 DEF Unmoved, SameVerdict
      <4> QED BY <4>1, <4>2
    <3>5. Firm(u)
      BY <3>2, <3>3 DEF Firm
    <3> QED BY <3>1, <3>4, <3>5 DEF Unmoved, SameStatus, u
  <2> QED BY <2>1, <2>2, <2>3
<1>3. CASE w.t \notin {"market", "newproposal"}
  <2>1. /\ {"market", "proposal", "ver"} \subseteq DOMAIN u
        /\ u.market = t.market /\ u.proposal = t.proposal
        /\ DOMAIN u.ver = Rows
        /\ \A p \in Proposals : u.ver[<<"proposal", p>>] = t.ver[<<"proposal", p>>]
    <3>1. w.t \notin {"market", "newproposal", "proposal", "newmarket"}
      BY <1>3 DEF Calm
    <3>2. CASE w.t \in {"supply", "borrow"}
      <4>1. /\ w.t = "supply" => u = [t EXCEPT !.supply[w.key] = w.data, !.ver[<<"supply", w.key>>] = w.new]
            /\ w.t = "borrow" => u = [t EXCEPT !.borrow[w.key] = w.data, !.ver[<<"borrow", w.key>>] = w.new]
        BY <3>2 DEF Apply
      <4> HIDE DEF u
      <4>2. /\ {"market", "proposal", "ver"} \subseteq DOMAIN u
            /\ u.market = t.market /\ u.proposal = t.proposal
        BY <3>2, <4>1 DEF Frame
      <4>3. u.ver = [t.ver EXCEPT ![<<w.t, w.key>>] = w.new]
        BY <3>2, <4>1 DEF Frame
      <4>4. \A p \in Proposals : <<"proposal", p>> # <<w.t, w.key>> /\ <<"proposal", p>> \in Rows
        BY <3>2, RowKinds
      <4> QED BY <4>2, <4>3, <4>4 DEF Frame
    <3>3. CASE w.t \notin {"supply", "borrow"}
      BY <3>1, <3>3 DEF Apply, Frame
    <3> QED BY <3>2, <3>3
  <2> HIDE DEF u
  <2>2. \A p \in Proposals : SameVerdict(s, u, p)
    BY <2>1 DEF Unmoved, SameVerdict
  <2> QED BY <2>1, <2>2 DEF Frame, Firm, Unmoved, SameStatus, u
<1> QED BY <1>1, <1>2, <1>3

\* So does a plan of such statements.
LEMMA CalmAll ==
  ASSUME NEW s, Frame(s), Firm(s), NEW p, CalmPlan(p, s)
  PROVE  Frame(ApplyAll(s, p)) /\ Firm(ApplyAll(s, p)) /\ Unmoved(s, ApplyAll(s, p))
<1>0. PICK S : p \in Seq(S) /\ \A w \in S : Calm(w, s)
  BY DEF CalmPlan
<1>1. Len(p) \in Nat /\ \A i \in 1..Len(p) : p[i] \in S
  BY <1>0
<1>2. PICK f : ApplyAll(s, p) = f[Len(p)] /\ f[0] = s /\ Steps(f, p, Len(p))
  BY <1>1, AppliedAll
<1> DEFINE Good(t) == Frame(t) /\ Firm(t) /\ Unmoved(s, t)
           T == {i \in 0..Len(p) : ~Good(f[i])}
<1>3. ASSUME T # {} PROVE FALSE
  <2>1. T \in SUBSET Nat
    BY <1>1
  <2>2. PICK i \in T : \A j \in T : i <= j
    BY <1>3, <2>1, Least
  <2>3. Good(s)
    BY DEF Unmoved, SameStatus, SameVerdict
  <2>4. i # 0
    BY <1>2, <2>2, <2>3
  <2>5. i \in 1..Len(p) /\ i - 1 \in 0..Len(p) /\ i - 1 \notin T
    BY <1>1, <2>2, <2>4
  <2>6. Good(f[i-1]) /\ f[i] = Apply(f[i-1], p[i]) /\ Calm(p[i], s)
    BY <1>0, <1>1, <1>2, <2>5 DEF Steps
  <2>7. Good(f[i])
    BY <2>6, ApplyCalm
  <2> QED BY <2>2, <2>7
<1>4. Len(p) \in 0..Len(p) /\ Len(p) \notin T
  BY <1>1, <1>3
<1>5. Good(f[Len(p)])
  BY <1>4
<1> QED BY <1>2, <1>5

\* Short plans, at once.
LEMMA ApplyShort ==
  ASSUME NEW s
  PROVE  /\ ApplyAll(s, <<>>) = s
         /\ \A w : ApplyAll(s, <<w>>) = Apply(s, w)
<1>1. ApplyAll(s, <<>>) = s
  <2>1. PICK f : ApplyAll(s, <<>>) = f[0] /\ f[0] = s
    <3>1. Len(<<>>) = 0
      OBVIOUS
    <3> QED BY <3>1, AppliedAll
  <2> QED BY <2>1
<1>2. ASSUME NEW w PROVE ApplyAll(s, <<w>>) = Apply(s, w)
  <2> DEFINE p == <<w>>
  <2>1. Len(p) = 1 /\ p[1] = w
    OBVIOUS
  <2> HIDE DEF p
  <2>2. PICK f : ApplyAll(s, p) = f[1] /\ f[0] = s /\ Steps(f, p, 1)
    <3>1. Len(p) \in Nat
      BY <2>1
    <3>2. \E f : ApplyAll(s, p) = f[Len(p)] /\ f[0] = s /\ Steps(f, p, Len(p))
      BY <3>1, AppliedAll
    <3> QED BY <2>1, <3>2
  <2>3. f[1] = Apply(f[0], p[1])
    <3>1. 1 \in 1..1 /\ 1 - 1 = 0
      OBVIOUS
    <3> QED BY <2>2, <3>1 DEF Steps
  <2> QED BY <2>1, <2>2, <2>3 DEF p
<1> QED BY <1>1, <1>2

\* The tables say of every market what the votes decided, and a market is listed if
\* it was deployed or a vote listed it.
Stands(s) ==
  /\ Frame(s) /\ Firm(s)
  /\ \A a \in Assets :
       s.market[a].exists <=> Genesis.market[a].exists \/ PassedOn(s, a, {"market"}) # {}
  /\ \A a \in Assets : s.market[a].exists => s.market[a].closed = ClosedByVotes(s, a)

OpenOrClose == {"open-market", "close-market"}

\* It is read off the status and the passed proposals alone.
LEMMA SameDecisions ==
  ASSUME NEW s, NEW t, NEW a,
         PassedOn(t, a, {"market"}) = PassedOn(s, a, {"market"}),
         PassedOn(t, a, OpenOrClose) = PassedOn(s, a, OpenOrClose),
         \A q \in PassedOn(s, a, {"market"}) \cup PassedOn(s, a, OpenOrClose) :
           PassedAt(t, q) = PassedAt(s, q) /\ t.proposal[q] = s.proposal[q]
  PROVE  ClosedByVotes(t, a) = ClosedByVotes(s, a)
<1>1. ASSUME NEW q \in PassedOn(s, a, OpenOrClose) PROVE ListedBefore(t, a, q) <=> ListedBefore(s, a, q)
  BY <1>1 DEF ListedBefore
<1>2. Decisions(t, a) = Decisions(s, a) /\ Decisions(s, a) \subseteq PassedOn(s, a, OpenOrClose)
  BY <1>1 DEF Decisions, OpenOrClose
<1> DEFINE ds == Decisions(s, a)
           Shut(u) == \A p \in ds : (\A q \in ds : PassedAt(u, q) <= PassedAt(u, p))
                                      => u.proposal[p].content.act = "close-market"
<1>3. Shut(t) = Shut(s)
  BY <1>2
<1>4. /\ ClosedByVotes(t, a) = IF ds = {} THEN ClosedAtFirst(a) ELSE Shut(t)
      /\ ClosedByVotes(s, a) = IF ds = {} THEN ClosedAtFirst(a) ELSE Shut(s)
  BY <1>2 DEF ClosedByVotes
<1> HIDE DEF Shut, ds
<1> QED BY <1>3, <1>4

LEMMA StandsStill ==
  ASSUME NEW s, Stands(s), NEW t, Frame(t), Firm(t), Unmoved(s, t)
  PROVE  Stands(t)
<1>1. ASSUME NEW p \in Proposals, s.proposal[p].passed \/ t.proposal[p].passed
      PROVE  t.proposal[p] = s.proposal[p] /\ PassedAt(t, p) = PassedAt(s, p)
  BY <1>1 DEF Unmoved, SameVerdict, PassedAt
<1>2. ASSUME NEW a, NEW acts
      PROVE  /\ PassedOn(t, a, acts) = PassedOn(s, a, acts)
             /\ \A q \in PassedOn(s, a, acts) :
                  PassedAt(t, q) = PassedAt(s, q) /\ t.proposal[q] = s.proposal[q]
  BY <1>1 DEF PassedOn
<1>3. \A a : ClosedByVotes(t, a) = ClosedByVotes(s, a)
  BY <1>2, SameDecisions
<1> QED BY <1>2, <1>3 DEF Stands, Unmoved, SameStatus

\* What a passed proposal c makes of the markets' status.
Follows(s, t, c) ==
  \A a \in Assets :
    /\ c.act = "market" /\ c.asset = a =>
         /\ t.market[a].exists = TRUE
         /\ t.market[a].closed = IF s.market[a].exists THEN s.market[a].closed ELSE TRUE
    /\ c.act \in OpenOrClose /\ c.asset = a /\ s.market[a].exists =>
         t.market[a].exists = TRUE /\ t.market[a].closed = (c.act = "close-market")
    /\ ~(c.act = "market" /\ c.asset = a) /\ ~(c.act \in OpenOrClose /\ c.asset = a /\ s.market[a].exists)
         => SameStatus(s, t, a)

\* A proposal that passes later than all others decides.
LEMMA StandsDecided ==
  ASSUME NEW s, Stands(s), NEW t, Frame(t), Firm(t), NEW id \in Nat, NEW p \in Proposals,
         ~s.proposal[p].passed, t.proposal[p].passed, t.ver[<<"proposal", p>>] = id,
         \A q \in Proposals : s.ver[<<"proposal", q>>] \in Nat /\ s.ver[<<"proposal", q>>] < id,
         \A q \in Proposals \ {p} : SameVerdict(s, t, q),
         Follows(s, t, t.proposal[p].content)
  PROVE  Stands(t)
<1> DEFINE c == t.proposal[p].content
           On(a, acts) == c.act \in acts /\ c.asset = a
<1>1. ASSUME NEW q \in Proposals \ {p}, s.proposal[q].passed \/ t.proposal[q].passed
      PROVE  t.proposal[q] = s.proposal[q] /\ PassedAt(t, q) = PassedAt(s, q)
  BY <1>1 DEF SameVerdict, PassedAt
<1>2. ASSUME NEW a, NEW acts
      PROVE  /\ On(a, acts) => PassedOn(t, a, acts) = PassedOn(s, a, acts) \cup {p}
             /\ ~On(a, acts) => PassedOn(t, a, acts) = PassedOn(s, a, acts)
             /\ \A q \in PassedOn(s, a, acts) :
                  /\ PassedAt(t, q) = PassedAt(s, q) /\ t.proposal[q] = s.proposal[q]
                  /\ PassedAt(s, q) \in Nat /\ PassedAt(s, q) < id
  <2>1. p \in PassedOn(t, a, acts) <=> On(a, acts)
    BY DEF PassedOn
  <2>2. p \notin PassedOn(s, a, acts)
    BY DEF PassedOn
  <2>3. \A q \in Proposals \ {p} : q \in PassedOn(t, a, acts) <=> q \in PassedOn(s, a, acts)
    BY <1>1 DEF PassedOn
  <2>4. PassedOn(t, a, acts) \subseteq Proposals /\ PassedOn(s, a, acts) \subseteq Proposals
    BY DEF PassedOn
  <2>5. \A q \in PassedOn(s, a, acts) :
          /\ q # p /\ s.proposal[q].passed
          /\ PassedAt(s, q) \in Nat /\ PassedAt(s, q) < id
    BY <2>2, <2>4 DEF PassedOn, PassedAt
  <2>6. \A q \in PassedOn(s, a, acts) : PassedAt(t, q) = PassedAt(s, q) /\ t.proposal[q] = s.proposal[q]
    BY <1>1, <2>4, <2>5
  <2> HIDE DEF On
  <2> QED BY <2>1, <2>2, <2>3, <2>4, <2>5, <2>6
<1>3. PassedAt(t, p) = id
  BY DEF PassedAt
<1> HIDE DEF c, On
<1>4. ASSUME NEW a \in Assets, ~On(a, {"market"}), ~On(a, OpenOrClose)
      PROVE  ClosedByVotes(t, a) = ClosedByVotes(s, a)
  BY <1>2, <1>4, SameDecisions
<1>5. ASSUME NEW a \in Assets, On(a, {"market"})
      PROVE  ClosedByVotes(t, a) = ClosedByVotes(s, a)
  <2>1. ~On(a, OpenOrClose)
    BY <1>5 DEF On, OpenOrClose
  <2>2. PassedOn(t, a, OpenOrClose) = PassedOn(s, a, OpenOrClose)
    BY <1>2, <2>1
  <2>3. PassedOn(t, a, {"market"}) = PassedOn(s, a, {"market"}) \cup {p}
    BY <1>2, <1>5
  <2>4. ASSUME NEW q \in PassedOn(s, a, OpenOrClose)
        PROVE  ListedBefore(t, a, q) <=> ListedBefore(s, a, q)
    <3>1. ~(PassedAt(t, p) < PassedAt(t, q))
      BY <1>2, <1>3, <2>4
    <3>2. \A r \in PassedOn(s, a, {"market"}) :
            PassedAt(t, r) < PassedAt(t, q) <=> PassedAt(s, r) < PassedAt(s, q)
      BY <1>2, <2>4
    <3> QED BY <2>3, <3>1, <3>2 DEF ListedBefore
  <2>5. Decisions(t, a) = Decisions(s, a) /\ Decisions(s, a) \subseteq PassedOn(s, a, OpenOrClose)
    BY <2>2, <2>4 DEF Decisions, OpenOrClose
  <2> DEFINE ds == Decisions(s, a)
             Shut(u) == \A x \in ds : (\A q \in ds : PassedAt(u, q) <= PassedAt(u, x))
                                        => u.proposal[x].content.act = "close-market"
  <2>6. Shut(t) = Shut(s)
    BY <1>2, <2>5
  <2>7. /\ ClosedByVotes(t, a) = IF ds = {} THEN ClosedAtFirst(a) ELSE Shut(t)
        /\ ClosedByVotes(s, a) = IF ds = {} THEN ClosedAtFirst(a) ELSE Shut(s)
    BY <2>5 DEF ClosedByVotes
  <2> HIDE DEF Shut, ds
  <2> QED BY <2>6, <2>7
<1>6. ASSUME NEW a \in Assets, On(a, OpenOrClose), s.market[a].exists
      PROVE  ClosedByVotes(t, a) = (c.act = "close-market")
  <2>1. ~On(a, {"market"})
    BY <1>6 DEF On, OpenOrClose
  <2>2. PassedOn(t, a, {"market"}) = PassedOn(s, a, {"market"})
    BY <1>2, <2>1
  <2>3. PassedOn(t, a, OpenOrClose) = PassedOn(s, a, OpenOrClose) \cup {p}
    BY <1>2, <1>6
  <2>4. ListedBefore(t, a, p)
    <3>1. Genesis.market[a].exists \/ PassedOn(s, a, {"market"}) # {}
      BY <1>6 DEF Stands
    <3> QED BY <1>2, <1>3, <2>2, <3>1 DEF ListedBefore
  <2> DEFINE ds == Decisions(t, a)
  <2>5. p \in ds /\ ds \subseteq PassedOn(s, a, OpenOrClose) \cup {p}
    BY <2>3, <2>4 DEF Decisions, OpenOrClose
  <2>6. ASSUME NEW x \in ds
        PROVE  (\A q \in ds : PassedAt(t, q) <= PassedAt(t, x)) <=> x = p
    <3>1. \A q \in ds : PassedAt(t, q) \in Nat /\ PassedAt(t, q) <= id /\ (q # p => PassedAt(t, q) < id)
      BY <1>2, <1>3, <2>5
    <3> HIDE DEF ds
    <3> QED BY <1>3, <2>5, <2>6, <3>1
  <2>7. ClosedByVotes(t, a) = \A x \in ds : (\A q \in ds : PassedAt(t, q) <= PassedAt(t, x))
                                              => t.proposal[x].content.act = "close-market"
    BY <2>5 DEF ClosedByVotes
  <2> HIDE DEF ds
  <2>8. (\A x \in ds : (\A q \in ds : PassedAt(t, q) <= PassedAt(t, x))
                         => t.proposal[x].content.act = "close-market") = (c.act = "close-market")
    BY <2>5, <2>6 DEF c
  <2> QED BY <2>7, <2>8
<1>7. ASSUME NEW a \in Assets
      PROVE  /\ t.market[a].exists <=> Genesis.market[a].exists \/ PassedOn(t, a, {"market"}) # {}
             /\ t.market[a].exists => t.market[a].closed = ClosedByVotes(t, a)
  <2>0. /\ s.market[a].exists <=> Genesis.market[a].exists \/ PassedOn(s, a, {"market"}) # {}
        /\ s.market[a].exists => s.market[a].closed = ClosedByVotes(s, a)
    BY DEF Stands
  <2>1. CASE On(a, {"market"})
    <3>1. /\ t.market[a].exists = TRUE
          /\ t.market[a].closed = IF s.market[a].exists THEN s.market[a].closed ELSE TRUE
      BY <2>1 DEF Follows, On, c
    <3>2. PassedOn(t, a, {"market"}) # {}
      BY <1>2, <2>1
    <3>3. CASE ~s.market[a].exists
      <4>1. Decisions(s, a) = {}
        BY <2>0, <3>3 DEF Decisions, ListedBefore
      <4>2. ClosedByVotes(s, a) = TRUE
        BY <2>0, <3>3, <4>1 DEF ClosedByVotes, ClosedAtFirst
      <4> QED BY <1>5, <2>1, <3>1, <3>2, <3>3, <4>2
    <3>4. CASE s.market[a].exists
      BY <1>5, <2>0, <2>1, <3>1, <3>2, <3>4
    <3> QED BY <3>3, <3>4
  <2>2. CASE ~On(a, {"market"})
    <3>1. PassedOn(t, a, {"market"}) = PassedOn(s, a, {"market"})
      BY <1>2, <2>2
    <3>2. CASE On(a, OpenOrClose) /\ s.market[a].exists
      <4>1. t.market[a].exists = TRUE /\ t.market[a].closed = (c.act = "close-market")
        BY <3>2 DEF Follows, On, c
      <4> QED BY <1>6, <2>0, <3>1, <3>2, <4>1
    <3>3. CASE ~(On(a, OpenOrClose) /\ s.market[a].exists)
      <4>1. SameStatus(s, t, a)
        BY <2>2, <3>3 DEF Follows, On, c
      <4>2. s.market[a].exists => ClosedByVotes(t, a) = ClosedByVotes(s, a)
        BY <1>4, <2>2, <3>3
      <4> QED BY <2>0, <3>1, <4>1, <4>2 DEF SameStatus
    <3> QED BY <3>2, <3>3
  <2> QED BY <2>1, <2>2
<1> QED BY <1>7 DEF Stands

\* Plans that leave the status alone.
LEMMA CalmPlans ==
  ASSUME NEW s
  PROVE  /\ CalmPlan(<<>>, s)
         /\ \A a : Calm(a, s) => CalmPlan(<<a>>, s)
         /\ \A a, b : Calm(a, s) /\ Calm(b, s) => CalmPlan(<<a, b>>, s)
<1>1. CalmPlan(<<>>, s)
  <2> DEFINE S == {}
  <2>1. <<>> \in Seq(S) /\ \A w \in S : Calm(w, s)
    OBVIOUS
  <2> HIDE DEF S
  <2> QED BY <2>1 DEF CalmPlan
<1>2. ASSUME NEW a, Calm(a, s) PROVE CalmPlan(<<a>>, s)
  <2> DEFINE S == {a}
  <2>1. <<a>> \in Seq(S) /\ \A w \in S : Calm(w, s)
    BY <1>2
  <2> HIDE DEF S
  <2> QED BY <2>1 DEF CalmPlan
<1>3. ASSUME NEW a, NEW b, Calm(a, s), Calm(b, s) PROVE CalmPlan(<<a, b>>, s)
  <2> DEFINE S == {a, b}
  <2>1. <<a, b>> \in Seq(S) /\ \A w \in S : Calm(w, s)
    BY <1>3
  <2> HIDE DEF S
  <2> QED BY <2>1 DEF CalmPlan
<1> QED BY <1>1, <1>2, <1>3

LEMMA CalmJoin ==
  ASSUME NEW s, NEW p, NEW q, CalmPlan(p, s), CalmPlan(q, s)
  PROVE  CalmPlan(p \o q, s)
<1>1. PICK S : p \in Seq(S) /\ \A w \in S : Calm(w, s)
  BY DEF CalmPlan
<1>2. PICK T : q \in Seq(T) /\ \A w \in T : Calm(w, s)
  BY DEF CalmPlan
<1> DEFINE V == S \cup T
<1>3. p \in Seq(V) /\ q \in Seq(V) /\ \A w \in V : Calm(w, s)
  BY <1>1, <1>2
<1> HIDE DEF V
<1>4. p \o q \in Seq(V)
  BY <1>3
<1> QED BY <1>3, <1>4 DEF CalmPlan

LEMMA CalmStatements ==
  ASSUME NEW s
  PROVE  /\ Calm(Nop, s) /\ Calm(Halt, s)
         /\ \A x : Calm(InsertTransfer(x), s) /\ Calm(CreateUser(x), s)
         /\ \A o : Calm(RefundV0(o), s) /\ Calm(EnsureUser(s, o), s)
         /\ \A x : Calm(SaveSigners(x), s) /\ Calm(MigrateToV1(x), s)
         /\ \A k, x : Calm(SaveProperty(k, x), s)
         /\ \A v, o, p, act : Calm(ForwardProposal(v, o, p, act), s)
         /\ \A a, m, id : Kin(m, s.market[a]) => Calm(UpdateMarket(s, a, m, id), s)
<1>1. \A o : RefundV0(o) = Nop \/ \E x : RefundV0(o) = InsertTransfer(x)
  BY Payments DEF Payment
<1>2. Calm(Nop, s) /\ \A x : Calm(InsertTransfer(x), s)
  BY DEF Calm, Nop, InsertTransfer
<1>3. \A o : Calm(RefundV0(o), s)
  BY <1>1, <1>2
<1>4. \A x : Calm(SaveSigners(x), s) /\ Calm(MigrateToV1(x), s) /\ Calm(CreateUser(x), s)
  BY DEF Calm, SaveSigners, MigrateToV1, CreateUser
<1>5. \A k, x : Calm(SaveProperty(k, x), s)
  BY DEF Calm, SaveProperty
<1>6. \A v, o, p, act : Calm(ForwardProposal(v, o, p, act), s)
  BY DEF Calm, ForwardProposal, Forward
<1>7. \A a, m, id : Kin(m, s.market[a]) => Calm(UpdateMarket(s, a, m, id), s)
  BY <1>2 DEF Calm, UpdateMarket, Update, Kin
<1>8. Calm(Halt, s)
  BY DEF Calm, Halt
<1>9. \A o : Calm(EnsureUser(s, o), s)
  BY <1>2, <1>4 DEF EnsureUser
<1> QED BY <1>2, <1>3, <1>4, <1>5, <1>6, <1>7, <1>8, <1>9

LEMMA FrameRead == ASSUME NEW s, TablesShape(s) PROVE Frame(s)
  BY DEF TablesShape, Tables, Frame

\* One statement about a market.
LEMMA OneMarket ==
  ASSUME NEW t, Frame(t), Firm(t), NEW a \in Assets, NEW x, NEW n, NEW u,
         u = [t EXCEPT !.market[a] = x, !.ver[<<"market", a>>] = n]
  PROVE  /\ Frame(u) /\ Firm(u) /\ \A q \in Proposals : SameVerdict(t, u, q)
         /\ u.market[a] = x /\ \A b \in Assets \ {a} : SameStatus(t, u, b)
<1>1. Frame(u) /\ u.proposal = t.proposal
  BY DEF Frame
<1>2. \A q \in Proposals : u.ver[<<"proposal", q>>] = t.ver[<<"proposal", q>>]
  BY RowKinds DEF Frame
<1>3. \A b \in Assets : u.market[b] = IF b = a THEN x ELSE t.market[b]
  BY DEF Frame
<1> QED BY <1>1, <1>2, <1>3 DEF Firm, SameVerdict, SameStatus

\* What a passed proposal does.
LEMMA PassedFollows ==
  ASSUME NEW t, TablesShape(t), Firm(t), NEW o, Numbered(o),
         \A a \in Assets : t.ver[<<"market", a>>] < o.id,
         NEW v, NEW p, NEW c, TypedContent(c), HaltFree(HandlePassedProposal(t, v, o, p, c)),
         NEW u, u = ApplyAll(t, HandlePassedProposal(t, v, o, p, c))
  PROVE  /\ Frame(u) /\ Firm(u) /\ Follows(t, u, c)
         /\ \A q \in Proposals : SameVerdict(t, u, q)
<1> DEFINE h == HandlePassedProposal(t, v, o, p, c)
           a == c.asset
           m == Loaded(t, a, o)
<1>0. Frame(t)
  BY FrameRead
<1>1. ASSUME CalmPlan(h, t), c.act \in {"market"} \cup OpenOrClose => a \in Assets /\ ~t.market[a].exists /\ c.act # "market"
      PROVE  /\ Frame(u) /\ Firm(u) /\ Follows(t, u, c)
             /\ \A q \in Proposals : SameVerdict(t, u, q)
  <2>1. Frame(u) /\ Firm(u) /\ Unmoved(t, u)
    BY <1>0, <1>1, CalmAll
  <2> QED BY <1>1, <2>1 DEF Unmoved, Follows
<1>2. CASE c.act = "market"
  <2> DEFINE new == [NoMarket EXCEPT !.exists = TRUE, !.symbol = c.symbol,
                       !.ctoken = c.ctoken, !.p = c.p, !.rate = c.p["init"],
                       !.index = ONE, !.price = c.price, !.priceAt = o.time]
             changed == [m EXCEPT !.p = [n \in ParamNames |->
                                           IF Accepts(n, c.p[n]) THEN c.p[n] ELSE @[n]],
                                  !.price = IF c.price > 0 THEN c.price ELSE @]
  <2>0. a \in Assets /\ h = HandleMarketEvent(t, o, c)
    BY <1>2 DEF TypedContent, HandlePassedProposal
  <2>1. CASE ~t.market[a].exists
    <3>1. h = <<CreateMarket(a, new, o.id)>>
      <4>1. h = <<Halt>> \/ h = <<CreateMarket(a, new, o.id)>>
        BY <2>0, <2>1 DEF HandleMarketEvent
      <4>2. <<Halt>>[1] = Halt /\ 1 \in 1..Len(<<Halt>>)
        OBVIOUS
      <4> HIDE DEF h, new
      <4>3. h # <<Halt>>
        BY <4>2 DEF HaltFree, h
      <4> QED BY <4>1, <4>3
    <3>2. new.exists = TRUE /\ new.closed = TRUE
      BY DEF NoMarket
    <3> HIDE DEF new
    <3>3. u = Apply(t, CreateMarket(a, new, o.id))
      BY <3>1, ApplyShort
    <3>4. u = [t EXCEPT !.market[a] = new, !.ver[<<"market", a>>] = o.id]
      BY <2>1, <3>3 DEF Apply, CreateMarket
    <3> HIDE DEF h, a
    <3>5. /\ Frame(u) /\ Firm(u) /\ \A q \in Proposals : SameVerdict(t, u, q)
          /\ u.market[a] = new /\ \A b \in Assets \ {a} : SameStatus(t, u, b)
      BY <1>0, <2>0, <3>4, OneMarket
    <3> QED BY <1>2, <2>1, <3>2, <3>5 DEF Follows, OpenOrClose, a
  <2>2. CASE t.market[a].exists
    <3>1. h = <<UpdateMarket(t, a, changed, o.id)>>
      BY <2>0, <2>2 DEF HandleMarketEvent
    <3>2. Kin(m, t.market[a]) /\ {"exists", "closed"} \subseteq DOMAIN m
      <4>1. Kin(m, t.market[a])
        BY <2>0, LoadedKin
      <4>2. {"exists", "closed", "p"} \subseteq DOMAIN t.market[a]
        BY <2>0 DEF TablesShape
      <4> QED BY <4>1, <4>2, MarketsKin DEF Loaded, FindMarket
    <3> HIDE DEF m
    <3>3. changed.exists = t.market[a].exists /\ changed.closed = t.market[a].closed
      BY <3>2 DEF Kin
    <3> HIDE DEF changed
    <3>4. u = Apply(t, UpdateMarket(t, a, changed, o.id))
      BY <3>1, ApplyShort
    <3>5. UpdateMarket(t, a, changed, o.id)
            = [t |-> "market", key |-> a, data |-> changed, old |-> t.ver[<<"market", a>>], new |-> o.id]
      BY <2>0, RowKinds DEF UpdateMarket, Update, TablesShape, Numbered
    <3>6. u = [t EXCEPT !.market[a] = changed, !.ver[<<"market", a>>] = o.id]
      BY <3>4, <3>5 DEF Apply
    <3> HIDE DEF h, a
    <3>7. /\ Frame(u) /\ Firm(u) /\ \A q \in Proposals : SameVerdict(t, u, q)
          /\ u.market[a] = changed /\ \A b \in Assets \ {a} : SameStatus(t, u, b)
      BY <1>0, <2>0, <3>6, OneMarket
    <3> QED BY <1>2, <2>2, <3>3, <3>7 DEF Follows, OpenOrClose, a
  <2> QED BY <2>1, <2>2
<1>3. CASE c.act \in OpenOrClose
  <2> DEFINE changed == [m EXCEPT !.closed = (c.act = "close-market")]
  <2>0. a \in Assets /\ h = HandleMarketStatus(t, o, c)
    BY <1>3 DEF TypedContent, HandlePassedProposal, OpenOrClose
  <2>1. CASE ~t.market[a].exists
    <3>1. h = <<>>
      BY <2>0, <2>1 DEF HandleMarketStatus
    <3>2. c.act # "market"
      BY <1>3 DEF OpenOrClose
    <3> HIDE DEF h, a
    <3> QED BY <1>1, <2>0, <2>1, <3>1, <3>2, CalmPlans DEF a
  <2>2. CASE t.market[a].exists
    <3>1. h = <<UpdateMarket(t, a, changed, o.id)>>
      BY <2>0, <2>2 DEF HandleMarketStatus
    <3>2. Kin(m, t.market[a]) /\ {"exists", "closed"} \subseteq DOMAIN m
      <4>1. Kin(m, t.market[a])
        BY <2>0, LoadedKin
      <4>2. {"exists", "closed", "p"} \subseteq DOMAIN t.market[a]
        BY <2>0 DEF TablesShape
      <4> QED BY <4>1, <4>2, MarketsKin DEF Loaded, FindMarket
    <3> HIDE DEF m
    <3>3. changed.exists = t.market[a].exists /\ changed.closed = (c.act = "close-market")
      BY <3>2 DEF Kin
    <3> HIDE DEF changed
    <3>4. u = Apply(t, UpdateMarket(t, a, changed, o.id))
      BY <3>1, ApplyShort
    <3>5. UpdateMarket(t, a, changed, o.id)
            = [t |-> "market", key |-> a, data |-> changed, old |-> t.ver[<<"market", a>>], new |-> o.id]
      BY <2>0, RowKinds DEF UpdateMarket, Update, TablesShape, Numbered
    <3>6. u = [t EXCEPT !.market[a] = changed, !.ver[<<"market", a>>] = o.id]
      BY <3>4, <3>5 DEF Apply
    <3> HIDE DEF h, a
    <3>7. /\ Frame(u) /\ Firm(u) /\ \A q \in Proposals : SameVerdict(t, u, q)
          /\ u.market[a] = changed /\ \A b \in Assets \ {a} : SameStatus(t, u, b)
      BY <1>0, <2>0, <3>6, OneMarket
    <3> QED BY <1>3, <2>2, <3>3, <3>7 DEF Follows, OpenOrClose, a
  <2> QED BY <2>1, <2>2
<1>4. CASE c.act \notin {"market"} \cup OpenOrClose
  <2>1. CASE c.act = "withdraw"
    <3> DEFINE f == FindMarket(t, a)
               amount == Trunc8(c.amount)
               paid == [f EXCEPT !.cash = @ - amount, !.reserves = @ - amount]
               w1 == InsertTransfer([trace |-> <<"prop", p, "withdraw">>,
                                     cur |-> Currency(c.asset), amount |-> amount, to |-> c.to])
               w2 == UpdateMarket(t, a, AccrueInterest(paid, o.time), o.id)
    <3>1. a \in Assets /\ h = HandleWithdraw(t, o, p, c)
      BY <2>1 DEF TypedContent, HandlePassedProposal
    <3>2. Kin(AccrueInterest(paid, o.time), t.market[a])
      <4>1. {"exists", "closed", "p"} \subseteq DOMAIN t.market[a]
        BY <3>1 DEF TablesShape
      <4>2. Kin(f, t.market[a]) /\ {"exists", "closed", "p"} \subseteq DOMAIN f
        BY <4>1, MarketsKin DEF FindMarket
      <4> HIDE DEF f
      <4>3. Kin(paid, t.market[a]) /\ {"exists", "closed", "p"} \subseteq DOMAIN paid
        BY <4>2 DEF Kin
      <4> HIDE DEF paid
      <4>4. Kin(AccrueInterest(paid, o.time), paid)
        BY <4>3, MarketsKin
      <4> QED BY <4>3, <4>4 DEF Kin
    <3> HIDE DEF paid
    <3>3. Calm(w1, t) /\ Calm(w2, t)
      BY <3>2, CalmStatements
    <3>4. h = <<>> \/ h = <<w1, w2>>
      BY <3>1 DEF HandleWithdraw, paid
    <3> HIDE DEF w1, w2, h
    <3>5. CalmPlan(h, t)
      BY <3>3, <3>4, CalmPlans
    <3> QED BY <1>1, <1>4, <3>5
  <2>2. CASE c.act \in {"add-oracle-signer", "rm-oracle-signer"}
    <3>1. h = <<>> \/ \E x : h = <<SaveSigners(x)>>
      BY <2>2 DEF HandlePassedProposal, HandleOracleSigner
    <3> HIDE DEF h
    <3>2. CalmPlan(h, t)
      BY <3>1, CalmPlans, CalmStatements
    <3> QED BY <1>1, <1>4, <3>2
  <2>3. CASE c.act = "set-property"
    <3> DEFINE w == SaveProperty(c.key, c.value)
    <3>1. h = SetProperty(t, v, c)
      BY <2>3 DEF HandlePassedProposal
    <3>2. \/ h = <<>> \/ h = <<Halt>>
          \/ h = (IF c.key = "sysversion" THEN MigrateSystem(t, v) ELSE <<>>) \o <<w>>
      BY <3>1 DEF SetProperty
    <3>3. CalmPlan(MigrateSystem(t, v), t)
      <4>1. PICK S : MigrateSystem(t, v) \in Seq(S) /\ \A x \in S : \E us : x = MigrateToV1(us)
        BY Pages
      <4> QED BY <4>1, CalmStatements DEF CalmPlan
    <3>4. CalmPlan(<<w>>, t) /\ CalmPlan(<<Halt>>, t) /\ CalmPlan(<<>>, t)
      BY CalmStatements, CalmPlans
    <3>5. \A q : CalmPlan(q, t) => CalmPlan(q \o <<w>>, t)
      BY <3>4, CalmJoin
    <3> HIDE DEF w, h
    <3>6. CalmPlan(h, t)
      BY <3>2, <3>3, <3>4, <3>5
    <3> QED BY <1>1, <1>4, <3>6
  <2>4. CASE c.act \notin {"withdraw", "add-oracle-signer", "rm-oracle-signer", "set-property"}
    <3>1. h = <<>>
      BY <1>4, <2>4 DEF HandlePassedProposal, OpenOrClose
    <3> HIDE DEF h
    <3>2. CalmPlan(h, t)
      BY <3>1, CalmPlans
    <3> QED BY <1>1, <1>4, <3>2
  <2> QED BY <2>1, <2>2, <2>3, <2>4
<1> QED BY <1>2, <1>3, <1>4

\* The tables a vote is written to stay tables.
LEMMA VoteShape ==
  ASSUME NEW s, TablesShape(s), Frame(s), Firm(s), NEW p \in Proposals, s.proposal[p].exists, NEW o, Numbered(o),
         NEW r, r = Voted(s.proposal[p], o), NEW t, t = Apply(s, UpdateProposal(s, p, r, o.id))
  PROVE  /\ TablesShape(t) /\ Frame(t) /\ Firm(t)
         /\ t.proposal[p] = r /\ t.ver[<<"proposal", p>>] = o.id
         /\ t.market = s.market /\ t.signers = s.signers /\ t.legacy = s.legacy
         /\ \A a \in Assets : t.ver[<<"market", a>>] = s.ver[<<"market", a>>]
         /\ \A q \in Proposals \ {p} : /\ t.proposal[q] = s.proposal[q]
                                       /\ t.ver[<<"proposal", q>>] = s.ver[<<"proposal", q>>]
<1>1. t = [s EXCEPT !.proposal[p] = r, !.ver[<<"proposal", p>>] = o.id]
  BY DEF Apply, UpdateProposal
<1>2. {"exists", "votes", "passed", "content"} \subseteq DOMAIN r /\ r.exists = s.proposal[p].exists
  BY DEF Voted, TablesShape
<1>3. /\ DOMAIN t = DOMAIN s /\ t.market = s.market /\ t.supply = s.supply /\ t.borrow = s.borrow
      /\ t.signers = s.signers /\ t.legacy = s.legacy
      /\ t.proposal = [s.proposal EXCEPT ![p] = r]
      /\ t.ver = [s.ver EXCEPT ![<<"proposal", p>>] = o.id]
  BY <1>1 DEF TablesShape, Tables
<1>4. s.ver \in [Rows -> Nat] /\ o.id \in Nat
  BY DEF TablesShape, Numbered
<1>5. t.ver \in [Rows -> Nat]
  <2>1. \A f \in [Rows -> Nat] : \A n \in Nat : \A k : [f EXCEPT ![k] = n] \in [Rows -> Nat]
    OBVIOUS
  <2>2. t.ver = [s.ver EXCEPT ![<<"proposal", p>>] = o.id]
    BY <1>3
  <2> QED BY <1>4, <2>1, <2>2, Zenon
<1>6. \A q \in Proposals : t.proposal[q] = IF q = p THEN r ELSE s.proposal[q]
  BY <1>3 DEF TablesShape
<1>7. t.ver[<<"proposal", p>>] = o.id /\ \A a \in Assets : t.ver[<<"market", a>>] = s.ver[<<"market", a>>]
  BY <1>3, <1>4, RowKinds
<1>8. ASSUME NEW q \in Proposals \ {p} PROVE t.ver[<<"proposal", q>>] = s.ver[<<"proposal", q>>]
  <2>1. <<"proposal", q>> # <<"proposal", p>> /\ <<"proposal", q>> \in Rows
    BY RowKinds
  <2> QED BY <1>3, <1>4, <2>1
<1>9. TablesShape(t)
  BY <1>2, <1>3, <1>5, <1>6 DEF TablesShape
<1>10. Frame(t)
  BY <1>9, FrameRead
<1>11. Firm(t)
  BY <1>2, <1>6 DEF Firm
<1> QED BY <1>3, <1>6, <1>7, <1>8, <1>9, <1>10, <1>11

\* A vote that is counted writes its row and then does what it decides.
LEMMA CountedThen ==
  ASSUME NEW old, NEW s, NEW v, NEW o, o.act = "vote", Reads(s, old, o), NEW p \in Proposals,
         NEW r, r = Voted(s.proposal[p], o)
  PROVE  /\ ApplyAll(s, CountVote(s, v, o, p))
              = ApplyAll(Apply(s, UpdateProposal(s, p, r, o.id)), Decision(s, v, o, p, r))
         /\ HaltFree(CountVote(s, v, o, p)) => HaltFree(Decision(s, v, o, p, r))
<1> DEFINE q == CountVote(s, v, o, p)
           h == Decision(s, v, o, p, r)
           x == ProposalApproved(p, Voter(o), v)
           y == ProposalPassed(p, v)
           b == IF r.passed THEN <<y>> ELSE <<>>
           w == UpdateProposal(s, p, r, o.id)
<1>0. TablesShape(s) /\ TypedContent(r.content)
  BY VotedRow DEF Reads
<1>1. q = <<x>> \o b \o <<w>> \o h
  BY DEF CountVote, Decision
<1>2. PICK S : h \in Seq(S)
  <2>1. SoundPlan(h, old, o)
    BY <1>0, PassedPlan, Plan0 DEF Decision
  <2> QED BY <2>1 DEF SoundPlan
<1>3. Spent(s, x) /\ Spent(s, y) /\ w.t = "proposal" /\ ~Spent(s, w)
  BY NewsSpent DEF UpdateProposal, Spent, Rigid, Versioned
<1> HIDE DEF x, y, w, h, q
<1>4. PICK n \in 1..2 : Around(q, x, b, w, h, n)
  <2>1. b = <<>> \/ \E z : b = <<z>>
    OBVIOUS
  <2> HIDE DEF b
  <2> QED BY <1>1, <1>2, <2>1, PlanAround
<1>5. Len(h) \in Nat /\ Len(q) = n + 1 + Len(h) /\ q[n + 1] = w /\ q[1] = x /\ (n = 2 => q[2] = y)
  BY <1>2, <1>4 DEF Around
<1> DEFINE k == n + 1
<1>6. Cut(s, q, k) /\ ~Spent(s, q[k]) /\ Len(q) \in Nat
  BY <1>3, <1>5 DEF Cut
<1>7. GoesOn(q, k, Apply(s, q[k]), h)
  BY <1>0, <1>2, <1>6, CountGoesOn DEF q, h
<1>8. ApplyAll(s, q) = ApplyAll(Apply(s, w), h)
  BY <1>5, <1>6, <1>7, SameEnd
<1>9. ASSUME HaltFree(q), NEW j \in 1..Len(h) PROVE h[j] # Halt
  <2>1. q[n + 1 + j] = h[j]
    BY <1>4 DEF Around
  <2>2. n + 1 + j \in 1..Len(q)
    BY <1>5
  <2> QED BY <1>9, <2>1, <2>2 DEF HaltFree
<1> QED BY <1>8, <1>9 DEF q, h, w, HaltFree

\* What becomes of a market is told from the markets alone.
LEMMA SameMarkets ==
  ASSUME NEW s, NEW t, t.market = s.market, NEW u, NEW c, Follows(t, u, c)
  PROVE  Follows(s, u, c)
BY ZenonT(60) DEF Follows, SameStatus

\* A vote that is counted.
LEMMA CountStands ==
  ASSUME NEW s, NEW n \in Nat, Past(s, n), Stands(s), NEW v, NEW o, o.id = n + 1, o.act = "vote",
         NEW p \in Proposals, s.proposal[p].exists, ~s.proposal[p].passed,
         HaltFree(CountVote(s, v, o, p))
  PROVE  Stands(ApplyAll(s, CountVote(s, v, o, p)))
<1> DEFINE r == Voted(s.proposal[p], o)
           t == Apply(s, UpdateProposal(s, p, r, o.id))
           h == Decision(s, v, o, p, r)
           u == ApplyAll(t, h)
<1>1. Numbered(o)
  BY DEF Numbered
<1>2. Reads(s, s, o) /\ TablesShape(s) /\ TypedContent(s.proposal[p].content)
  BY <1>1, PastDuring, DuringReads DEF Reads
<1>3. u = ApplyAll(s, CountVote(s, v, o, p)) /\ HaltFree(h)
  BY <1>2, CountedThen
<1>4. r.content = s.proposal[p].content
  BY <1>2, VotedRow
<1>5. Frame(s) /\ Firm(s)
  BY DEF Stands
<1> HIDE DEF r
<1>6. /\ TablesShape(t) /\ Frame(t) /\ Firm(t)
      /\ t.proposal[p] = r /\ t.ver[<<"proposal", p>>] = o.id
      /\ t.market = s.market /\ t.signers = s.signers /\ t.legacy = s.legacy
      /\ \A a \in Assets : t.ver[<<"market", a>>] = s.ver[<<"market", a>>]
      /\ \A q \in Proposals \ {p} : /\ t.proposal[q] = s.proposal[q]
                                    /\ t.ver[<<"proposal", q>>] = s.ver[<<"proposal", q>>]
  BY <1>1, <1>2, <1>5, VoteShape DEF r
<1>7. \A x \in Rows : s.ver[x] \in Nat /\ s.ver[x] < o.id
  BY DEF Past, TablesShape
<1>8. CASE r.passed
  <2> DEFINE c == r.content
  <2>1. h = HandlePassedProposal(t, v, o, p, c)
    <3> HIDE DEF t, c
    <3>2. TypedContent(c)
      BY <1>2, <1>4 DEF c
    <3>3. HandlePassedProposal(t, v, o, p, c) = HandlePassedProposal(s, v, o, p, c)
      BY <1>6, <3>2, PassedAlike
    <3> QED BY <1>8, <3>3 DEF Decision, c
  <2> HIDE DEF t, h
  <2>2. /\ Frame(u) /\ Firm(u) /\ Follows(t, u, c)
        /\ \A q \in Proposals : SameVerdict(t, u, q)
    <3>1. \A a \in Assets : t.ver[<<"market", a>>] < o.id
      BY <1>6, <1>7, RowKinds
    <3>2. TypedContent(c)
      BY <1>2, <1>4
    <3>3. HaltFree(HandlePassedProposal(t, v, o, p, c))
      BY <1>3, <2>1
    <3>4. u = ApplyAll(t, HandlePassedProposal(t, v, o, p, c))
      BY <2>1
    <3> HIDE DEF u, c
    <3> QED BY <1>1, <1>6, <3>1, <3>2, <3>3, <3>4, PassedFollows
  <2> HIDE DEF u
  <2>3. u.proposal[p] = r /\ u.ver[<<"proposal", p>>] = o.id
    BY <1>6, <1>8, <2>2 DEF SameVerdict
  <2>4. Follows(s, u, c)
    BY <1>6, <2>2, SameMarkets
  <2>5. \A q \in Proposals \ {p} : SameVerdict(s, u, q)
    BY <1>6, <2>2 DEF SameVerdict
  <2>6. o.id \in Nat /\ \A q \in Proposals : s.ver[<<"proposal", q>>] \in Nat /\ s.ver[<<"proposal", q>>] < o.id
    BY <1>7, RowKinds
  <2>7. Stands(u)
    BY <1>8, <2>2, <2>3, <2>4, <2>5, <2>6, StandsDecided
  <2> QED BY <1>3, <2>7 DEF u
<1>9. CASE ~r.passed
  <2>1. u = t
    BY <1>9, ApplyShort DEF Decision
  <2> HIDE DEF t, u
  <2>2. Unmoved(s, t)
    BY <1>6, <1>9 DEF Unmoved, SameStatus, SameVerdict
  <2>3. Stands(t)
    BY <1>6, <2>2, StandsStill
  <2> QED BY <1>3, <2>1, <2>3 DEF u
<1> QED BY <1>8, <1>9

\* What an output that is no vote does is calm.
LEMMA OtherCalm ==
  ASSUME NEW s, NEW o, o.act # "vote", NEW p, SoundPlan(p, s, o)
  PROVE  CalmPlan(p, s)
<1>1. PICK S : p \in Seq(S) /\ \A w \in S : Sound(w, s, o)
  BY DEF SoundPlan
<1>2. ASSUME NEW w \in S PROVE Calm(w, s)
  <2>1. Sound(w, s, o)
    BY <1>1
  <2>2. w.t \notin {"proposal", "newmarket"}
    BY <2>1 DEF Sound
  <2>3. w.t = "market" /\ w.key \in Assets =>
          w.data.exists = s.market[w.key].exists /\ w.data.closed = s.market[w.key].closed
    BY <2>1 DEF Sound, Priced, PriceKept
  <2>4. ASSUME w.t = "newproposal" PROVE ~w.data.passed
    <3>1. VotesCols(w.data) /\ w.data.votes = {}
      BY <2>1, <2>4 DEF Sound
    <3>2. ~(Cardinality({}) >= Threshold)
      BY FS_EmptySet, GovernanceAssumption
    <3> QED BY <3>1, <3>2 DEF VotesCols, Counted
  <2> QED BY <2>2, <2>3, <2>4 DEF Calm
<1> QED BY <1>1, <1>2 DEF CalmPlan

\* What an output does to settled tables, none of it stopping, leaves them standing.
LEMMA OutputStands ==
  ASSUME NEW s, NEW n \in Nat, Past(s, n), Stands(s), NEW v, NEW o, o.id = n + 1, TypedOutput(o),
         HaltFree(HandleOutput(s, v, o))
  PROVE  Stands(Effect(s, v, o))
<1> DEFINE q == HandleOutput(s, v, o)
           p == o.prop
           row == s.proposal[p]
<1>1. ASSUME CalmPlan(q, s) PROVE Stands(Effect(s, v, o))
  <2> HIDE DEF q
  <2>1. Frame(s) /\ Firm(s)
    BY DEF Stands
  <2>2. Frame(ApplyAll(s, q)) /\ Firm(ApplyAll(s, q)) /\ Unmoved(s, ApplyAll(s, q))
    BY <1>1, <2>1, CalmAll
  <2>3. Stands(ApplyAll(s, q))
    BY <2>2, StandsStill
  <2> QED BY <2>3 DEF Effect, q
<1>2. Numbered(o)
  BY DEF Numbered
<1>3. During(s, s, o) /\ Reads(s, s, o) /\ Unvoted(s, o) /\ TablesShape(s)
  BY <1>2, PastDuring, DuringReads DEF Reads
<1>4. CASE o.act # "vote"
  <2>1. SoundPlan(q, s, o)
    BY <1>3, OutputPlan
  <2> HIDE DEF q
  <2> QED BY <1>1, <1>4, <2>1, OtherCalm
<1>5. CASE o.act = "vote"
  <2>1. p \in Proposals /\ s.ver[<<"proposal", p>>] \in Nat /\ s.ver[<<"proposal", p>>] < o.id
    BY <1>3, <1>5, RowKinds DEF TypedOutput, Past, TablesShape
  <2>2. \/ q = <<>> \/ q = <<Halt>> \/ q = <<ForwardProposal(v, o, p, "vote")>>
        \/ q = HandleUnknown(s, o)
        \/ row.exists /\ ~row.passed /\ q = CountVote(s, v, o, p)
    <3>1. ~IsPrice(s, v, o)
      BY <1>5 DEF IsPrice
    <3>2. Dispatch(s, v, o) = HandleVoteProposal(s, v, o)
      BY <1>5 DEF Dispatch
    <3>3. HandleProposalActionV0(s, v, o) = HandleVoteProposalV0(s, v, o)
      BY <1>5 DEF HandleProposalActionV0
    <3>4. q \in {<<>>, HandleUnknown(s, o), HandleVoteProposal(s, v, o), HandleVoteProposalV0(s, v, o)}
      BY <3>1, <3>2, <3>3 DEF HandleOutput
    <3>5. CASE q = HandleVoteProposal(s, v, o)
      <4>1. ~Resumes(s, p, o)
        BY <2>1, <1>2 DEF Resumes, Numbered
      <4> HIDE DEF q
      <4> QED BY <3>5, <4>1 DEF HandleVoteProposal
    <3>6. CASE q = HandleVoteProposalV0(s, v, o)
      <4> HIDE DEF q
      <4> QED BY <2>1, <3>6 DEF HandleVoteProposalV0
    <3> QED BY <3>4, <3>5, <3>6
  <2> HIDE DEF q
  <2>3. CASE \/ q = <<>> \/ q = <<Halt>> \/ q = <<ForwardProposal(v, o, p, "vote")>>
             \/ q = HandleUnknown(s, o)
    <3>1. CalmPlan(q, s)
      BY <2>3, CalmPlans, CalmStatements DEF HandleUnknown
    <3> QED BY <1>1, <3>1 DEF q
  <2>4. CASE row.exists /\ ~row.passed /\ q = CountVote(s, v, o, p)
    BY <1>5, <2>1, <2>4, CountStands DEF Effect, q
  <2> QED BY <2>2, <2>3, <2>4
<1> QED BY <1>4, <1>5

\* So does a vote that is refused, or refunded, under the version it deployed.
LEMMA RefusedStands ==
  ASSUME NEW s, Stands(s), NEW o, Refused(s, o)
  PROVE  Stands(Effect(s, s.sysversion, o))
<1> DEFINE q == HandleOutput(s, s.sysversion, o)
<1>1. q = <<>> \/ q = HandleUnknown(s, o)
  BY DEF Refused, HandleOutput, IsPrice
<1>2. Frame(s) /\ Firm(s)
  BY DEF Stands
<1> HIDE DEF q
<1>3. CalmPlan(q, s)
  BY <1>1, CalmPlans, CalmStatements DEF HandleUnknown
<1>4. Frame(ApplyAll(s, q)) /\ Firm(ApplyAll(s, q)) /\ Unmoved(s, ApplyAll(s, q))
  BY <1>2, <1>3, CalmAll
<1>5. Stands(ApplyAll(s, q))
  BY <1>4, StandsStill
<1> QED BY <1>5 DEF Effect, q

\* Nothing has been decided in the tables the deployment starts with.
LEMMA GenesisStands == Stands(Genesis)
<1>1. TablesShape(Genesis)
  BY GenesisPast DEF Past
<1>2. Frame(Genesis)
  BY <1>1, FrameRead
<1>3. \A p \in Proposals : ~Genesis.proposal[p].passed
  BY GenesisAssumption DEF NoProposal
<1>4. \A a, acts : PassedOn(Genesis, a, acts) = {}
  BY <1>3 DEF PassedOn
<1>5. \A a : Decisions(Genesis, a) = {}
  BY <1>4 DEF Decisions
<1> QED BY <1>2, <1>3, <1>4, <1>5 DEF Stands, Firm, ClosedByVotes, ClosedAtFirst

\* What is settled next stands.
LEMMA StepStands ==
  ASSUME IInv, VInv, AInv, Past(settled, checkpoint), Stands(settled), [Next]_vars,
         SaveCheckpoint => Done
  PROVE  Stands(settled')
<1>1. CASE SaveCheckpoint
  <2>1. checkpoint < Len(outputs) /\ settled' = db
    BY <1>1 DEF SaveCheckpoint, IInv, Control
  <2>2. checkpoint \in Nat /\ Current.id = checkpoint + 1 /\ TypedOutput(Current)
    <3>1. checkpoint \in Nat /\ checkpoint + 1 \in 1..Len(outputs)
      BY <2>1 DEF IInv, Control
    <3>2. Current.id = checkpoint + 1
      BY <3>1 DEF IInv, Control, Current
    <3> QED BY <2>1, <3>1, <3>2, Facts
  <2>3. Stands(Whole)
    <3>1. HaltFree(HandleOutput(settled, settled.sysversion, Current))
      BY <1>1 DEF Done
    <3> QED BY <2>2, <3>1, OutputStands DEF Whole
  <2>4. Deployed => Stands(Effect(Whole, Whole.sysversion, Current))
    BY <2>3, RefusedStands DEF Deployed
  <2>5. \/ db = Whole
        \/ Deployed /\ db = Effect(Whole, Whole.sysversion, Current)
    BY <1>1 DEF Done
  <2> QED BY <2>1, <2>3, <2>4, <2>5
<1>2. CASE ~SaveCheckpoint
  <2>1. UNCHANGED settled
    BY <1>2 DEF Next, Receive, LoadBatch, Handle, Execute, Commit, Abandon, Fault, vars
  <2> QED BY <2>1
<1> QED BY <1>1, <1>2

\* A passed proposal takes effect, once, when it passes: whatever faults and
\* retries there were, the settled markets are listed, open or closed as the
\* votes decided, the last one last.
THEOREM StatusFollowsVotesTheorem ==
  ASSUME AssetsSeparate, NoStaleBatch
  PROVE  Spec => []StatusFollowsVotes
<1> DEFINE Inv == IInv /\ VInv /\ AInv /\ Past(settled, checkpoint) /\ Stands(settled)
<1>1. Init => Inv
  <2> SUFFICES ASSUME Init PROVE Inv
    OBVIOUS
  <2>1. IInv /\ VInv /\ AInv
    BY InitInv, InitVersion, InitAtomic
  <2>2. Past(settled, checkpoint) /\ Stands(settled)
    BY GenesisPast, GenesisStands DEF Init
  <2> QED BY <2>1, <2>2
<1>2. Inv /\ [Next]_vars => Inv'
  <2> SUFFICES ASSUME Inv, [Next]_vars PROVE Inv'
    OBVIOUS
  <2>1. IInv' /\ VInv' /\ AInv' /\ (SaveCheckpoint => Done)
    BY StepInv, StepVersion, StepAtomic
  <2>2. Past(settled, checkpoint)'
    <3>1. CASE UNCHANGED <<checkpoint, settled>>
      BY <3>1
    <3>2. CASE /\ SaveCheckpoint /\ checkpoint' = checkpoint + 1 /\ settled' = db
               /\ checkpoint \in Nat /\ checkpoint < Len(outputs)
               /\ During(db, settled, Current)
      <4>1. Current.id = checkpoint + 1
        BY <3>2 DEF IInv, Control, Current
      <4> QED BY <3>2, <4>1 DEF During
    <3> QED BY <3>1, <3>2, Settling
  <2>3. Stands(settled)'
    BY <2>1, StepStands
  <2> QED BY <2>1, <2>2, <2>3
<1>3. Inv => StatusFollowsVotes
  BY DEF StatusFollowsVotes, Stands, Listed
<1>4. Spec => []Inv
  <2> HIDE DEF Inv
  <2> QED BY <1>1, <1>2, PTL DEF Spec
<1> QED
  <2> HIDE DEF Inv
  <2> QED BY <1>3, <1>4, PTL
=============================================================================
