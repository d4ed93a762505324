---------------------------- MODULE CouncilProofs ----------------------------
(***************************************************************************)
(* For every set of members, admins, proposals and payments, every version *)
(* the deployment starts with and any number of crashes and failed calls:  *)
(* every vote that counted, and every proposal that passed, is on its way  *)
(* to every admin, was shown to him or was refused by the messenger        *)
(* (EveryDecisionAnnounced).  What the node pays for a proposal, and what  *)
(* the button of a message makes an admin pay, is read back by the payee   *)
(* as the same action on the same proposal in the same format              *)
(* (VoteMemoRead).                                                         *)
(*                                                                         *)
(* The argument.  A row for an admin is kept by the messenger: it deletes  *)
(* only what it picked, and only after the call that sent all of it        *)
(* succeeded or was refused (Mail); whatever else fails leaves the rows    *)
(* where they are.  In the payee a handler puts the statements that tell   *)
(* of a vote before the one that writes it (Led), so between two           *)
(* statements of an attempt every vote still to be written was told of, or *)
(* will be by a statement in between (Pending).  A retry after a crash     *)
(* reads the tables again and tells again.  Hence what is in the tables    *)
(* was told (DecidedIn).  The rows name proposals in a format the payee    *)
(* reads, because what the node pays and what a button makes an admin pay  *)
(* is read back as it was meant (VoteMemoRead).                            *)
(***************************************************************************)
EXTENDS Council, PayeeProofs, SetLemmas

(***************************************************************************)
(* Memos.  The argument follows the bytes: the recursive functions of Wire *)
(* are shown to exist on the inputs that matter.  FlattenSeq joins the two *)
(* values, a number below 128 is one byte in either encoding, and a scan   *)
(* for one value is one step.  A memo then has nineteen bytes, whose first *)
(* is 1 and so never the first of the wrapper of version 2, and reading    *)
(* takes off what writing put on.                                          *)
(***************************************************************************)

\* Sequences are joined one after the other, as FlattenSeq does.
Joins(f, q, n) == f = [i \in 1..n |-> IF i = 1 THEN q[i] ELSE f[i-1] \o q[i]]

\* However many they are, they can be joined.
LEMMA JoinsExist == ASSUME NEW q, NEW n \in Nat PROVE \E f : Joins(f, q, n)
<1> DEFINE T == {m \in Nat : ~\E f : Joins(f, q, m)}
<1>1. ASSUME T # {} PROVE FALSE
  <2>1. T \in SUBSET Nat
    OBVIOUS
  <2>2. PICK m \in T : \A k \in T : m <= k
    BY <1>1, <2>1, Least
  <2>3. CASE m = 0
    <3> DEFINE f == [i \in 1..0 |-> q]
    <3>1. f = [i \in 1..0 |-> IF i = 1 THEN q[i] ELSE f[i-1] \o q[i]]
      OBVIOUS
    <3> QED BY <2>2, <2>3, <3>1 DEF Joins
  <2>4. CASE m # 0
    <3>1. m - 1 \in Nat /\ m - 1 \notin T
      BY <2>2, <2>4
    <3>2. PICK g : Joins(g, q, m - 1)
      BY <3>1
    <3> DEFINE last == IF m = 1 THEN q[m] ELSE g[m-1] \o q[m]
               f == [i \in 1..m |-> IF i = m THEN last ELSE g[i]]
    <3>3. \A i \in 1..m-1 : g[i] = (IF i = 1 THEN q[i] ELSE g[i-1] \o q[i])
      BY <3>1, <3>2 DEF Joins
    <3>4. \A i \in 1..m-1 : f[i] = g[i] /\ (i # 1 => i - 1 \in 1..m-1)
      BY <2>2
    <3>5. f[m] = last /\ (m # 1 => m - 1 \in 1..m-1)
      BY <2>2, <2>4
    <3>6. \A i \in 1..m : i \in 1..m-1 \/ i = m
      BY <2>2
    <3>7. f = [i \in 1..m |-> f[i]]
      OBVIOUS
    <3> HIDE DEF f
    <3>8. \A i \in 1..m : f[i] = (IF i = 1 THEN q[i] ELSE f[i-1] \o q[i])
      BY <3>3, <3>4, <3>5, <3>6
    <3>9. f = [i \in 1..m |-> IF i = 1 THEN q[i] ELSE f[i-1] \o q[i]]
      BY <3>7, <3>8
    <3> QED BY <2>2, <3>9 DEF Joins
  <2> QED BY <2>3, <2>4
<1> QED BY <1>1

\* The sequence FlattenSeq returns is the last of those joined.
LEMMA Flattened ==
  ASSUME NEW q, Len(q) \in Nat \ {0}
  PROVE  \E f : Joins(f, q, Len(q)) /\ FlattenSeq(q) = f[Len(q)]
<1> DEFINE flatten == CHOOSE f : Joins(f, q, Len(q))
<1>1. Joins(flatten, q, Len(q))
  BY JoinsExist
<1>2. FlattenSeq(q) = flatten[Len(q)]
  BY DEF FlattenSeq, Joins
<1> QED BY <1>1, <1>2

\* What PutUvarint writes of x, when it writes rest after a first byte.
Written(x, rest) == IF x < 128 THEN <<x>> ELSE <<(x % 128) + 128>> \o rest

\* PutUvarint up to n, and for every number.
Bytes(f, n) == f = [x \in 0..n |-> Written(x, f[x \div 128])]
AllBytes(f) == f = [x \in Nat |-> Written(x, f[x \div 128])]

\* Up to every number, there is such a function.
LEMMA BytesExist == \A n \in Nat : \E f : Bytes(f, n)
<1> DEFINE T == {m \in Nat : ~\E f : Bytes(f, m)}
<1>0. \A x, y, z : x < 128 => Written(x, y) = Written(x, z)
  BY DEF Written
<1>1. ASSUME T # {} PROVE FALSE
  <2>1. T \in SUBSET Nat
    OBVIOUS
  <2>2. PICK m \in T : \A k \in T : m <= k
    BY <1>1, <2>1, Least
  <2>3. PICK g : m # 0 => Bytes(g, m - 1)
    <3>1. CASE m = 0
      BY <3>1
    <3>2. CASE m # 0
      <4>1. m - 1 \in Nat /\ m - 1 \notin T
        BY <2>2, <3>2
      <4> QED BY <4>1
    <3> QED BY <3>1, <3>2
  <2>4. \A x \in 0..m-1 : g[x] = Written(x, g[x \div 128])
    BY <2>2, <2>3 DEF Bytes
  <2> DEFINE last == Written(m, g[m \div 128])
             f == [x \in 0..m |-> IF x = m THEN last ELSE g[x]]
  <2>5. f = [x \in 0..m |-> f[x]] /\ f[m] = last /\ \A x \in 0..m-1 : f[x] = g[x]
    BY <2>2
  <2> HIDE DEF f, last
  <2>6. ASSUME NEW x \in 0..m PROVE f[x] = Written(x, f[x \div 128])
    <3> DEFINE d == x \div 128
    <3>1. f[x] = Written(x, g[d])
      <4>1. CASE x = m
        BY <2>5, <4>1 DEF last
      <4>2. CASE x # m
        <5>1. x \in 0..m-1
          BY <2>2, <4>2
        <5>2. f[x] = g[x]
          BY <2>5, <5>1
        <5>3. g[x] = Written(x, g[x \div 128])
          BY <2>4, <5>1
        <5> QED BY <5>2, <5>3
      <4> QED BY <4>1, <4>2
    <3>2. CASE x < 128
      BY <1>0, <3>1, <3>2
    <3>3. CASE ~(x < 128)
      <4>1. d \in 0..m-1
        BY <2>2, <3>3
      <4>2. f[d] = g[d]
        BY <2>5, <4>1
      <4> QED BY <3>1, <4>2
    <3> QED BY <3>2, <3>3
  <2>7. f = [x \in 0..m |-> Written(x, f[x \div 128])]
    BY <2>5, <2>6
  <2> QED BY <2>2, <2>7 DEF Bytes
<1> QED BY <1>1

\* Up to whatever number, it writes a number alike.
LEMMA BytesAgree ==
  ASSUME NEW m \in Nat, NEW n \in Nat, NEW f, NEW g, Bytes(f, m), Bytes(g, n)
  PROVE  \A x \in Nat : x <= m /\ x <= n => f[x] = g[x]
<1> DEFINE T == {x \in Nat : x <= m /\ x <= n /\ f[x] # g[x]}
<1>1. ASSUME T # {} PROVE FALSE
  <2>1. T \in SUBSET Nat
    OBVIOUS
  <2>2. PICK x \in T : \A k \in T : x <= k
    BY <1>1, <2>1, Least
  <2>3. x \in 0..m /\ x \in 0..n /\ f[x] # g[x]
    BY <2>2
  <2>4. f[x] = Written(x, f[x \div 128]) /\ g[x] = Written(x, g[x \div 128])
    BY <2>3 DEF Bytes
  <2>5. x >= 128 /\ f[x \div 128] # g[x \div 128]
    BY <2>3, <2>4 DEF Written
  <2>6. x \div 128 \in Nat /\ x \div 128 < x
    BY <2>3, <2>5
  <2>7. x \div 128 \in T
    BY <2>3, <2>5, <2>6
  <2> QED BY <2>2, <2>6, <2>7
<1> QED BY <1>1

\* A number below 128 is written as one byte.
LEMMA OneByte == \A x \in Nat : x < 128 => PutUvarint[x] = <<x>>
<1> DEFINE Upto(n) == CHOOSE f : Bytes(f, n)
           F == [x \in Nat |-> Upto(x)[x]]
<1>1. \A n \in Nat : Bytes(Upto(n), n)
  BY BytesExist
<1>2. F = [x \in Nat |-> F[x]] /\ \A x \in Nat : F[x] = Upto(x)[x]
  OBVIOUS
<1> HIDE DEF F, Upto
<1>3. ASSUME NEW x \in Nat PROVE F[x] = Written(x, F[x \div 128])
  <2> DEFINE d == x \div 128
  <2>1. d \in Nat /\ d <= x
    OBVIOUS
  <2>2. F[x] = Written(x, Upto(x)[d])
    <3>1. Bytes(Upto(x), x) /\ x \in 0..x
      BY <1>1
    <3>2. Upto(x)[x] = Written(x, Upto(x)[x \div 128])
      BY <3>1 DEF Bytes
    <3> QED BY <1>2, <3>2
  <2>3. F[d] = Upto(d)[d]
    BY <1>2, <2>1
  <2>4. Upto(x)[d] = Upto(d)[d]
    BY <1>1, <2>1, BytesAgree
  <2> QED BY <2>2, <2>3, <2>4
<1>4. AllBytes(F)
  BY <1>2, <1>3 DEF AllBytes
<1>5. PutUvarint = CHOOSE f : AllBytes(f)
  BY DEF PutUvarint, AllBytes, Written
<1>6. AllBytes(PutUvarint)
  BY <1>4, <1>5
<1> QED BY <1>6 DEF AllBytes, Written

(***************************************************************************)
(* Memos of a proposal                                                     *)
(***************************************************************************)

\* The numbers of the two actions a node and an admin pay.
LEMMA Numbers == /\ NumberOf("vote") = 20 /\ NumberOf("shout") = 40
                 /\ ActionOf(20) = "vote" /\ ActionOf(40) = "shout"
<1>1. /\ 20 \in DOMAIN ActionTypes /\ 40 \in DOMAIN ActionTypes
      /\ ActionTypes[20] = "vote" /\ ActionTypes[40] = "shout"
  BY DEF ActionTypes
<1>2. \A n \in DOMAIN ActionTypes : /\ ActionTypes[n] = "vote" => n = 20
                                   /\ ActionTypes[n] = "shout" => n = 40
  <2>1. DOMAIN ActionTypes = 1..40
    BY DEF ActionTypes
  <2>2. ASSUME NEW n \in 1..40, n < 14 PROVE ActionTypes[n] \notin {"vote", "shout"}
    <3>1. n \in {1, 2, 3, 4, 5, 6, 7, 8, 9, 10, 11, 12, 13}
      BY <2>2
    <3> DEFINE Two == {"vote", "shout"}
    <3>2. /\ ActionTypes[1] \notin Two /\ ActionTypes[2] \notin Two /\ ActionTypes[3] \notin Two
          /\ ActionTypes[4] \notin Two /\ ActionTypes[5] \notin Two /\ ActionTypes[6] \notin Two
          /\ ActionTypes[7] \notin Two /\ ActionTypes[8] \notin Two /\ ActionTypes[9] \notin Two
          /\ ActionTypes[10] \notin Two /\ ActionTypes[11] \notin Two /\ ActionTypes[12] \notin Two
          /\ ActionTypes[13] \notin Two
      BY DEF ActionTypes
    <3> HIDE DEF Two
    <3>3. ActionTypes[n] \notin Two
      BY <3>1, <3>2
    <3> QED BY <3>3 DEF Two
  <2>3. ASSUME NEW n \in 1..40, n >= 14, n < 27, n # 20
        PROVE  ActionTypes[n] \notin {"vote", "shout"}
    <3>1. n \in {14, 15, 16, 17, 18, 19, 21, 22, 23, 24, 25, 26}
      BY <2>3
    <3> DEFINE Two == {"vote", "shout"}
    <3>2. /\ ActionTypes[14] \notin Two /\ ActionTypes[15] \notin Two /\ ActionTypes[16] \notin Two
          /\ ActionTypes[17] \notin Two /\ ActionTypes[18] \notin Two /\ ActionTypes[19] \notin Two
          /\ ActionTypes[21] \notin Two /\ ActionTypes[22] \notin Two /\ ActionTypes[23] \notin Two
          /\ ActionTypes[24] \notin Two /\ ActionTypes[25] \notin Two /\ ActionTypes[26] \notin Two
      BY DEF ActionTypes
    <3> HIDE DEF Two
    <3>3. ActionTypes[n] \notin Two
      BY <3>1, <3>2
    <3> QED BY <3>3 DEF Two
  <2>4. ASSUME NEW n \in 1..40, n >= 27, n < 40 PROVE ActionTypes[n] \notin {"vote", "shout"}
    <3>1. n \in {27, 28, 29, 30, 31, 32, 33, 34, 35, 36, 37, 38, 39}
      BY <2>4
    <3> DEFINE Two == {"vote", "shout"}
    <3>2. /\ ActionTypes[27] \notin Two /\ ActionTypes[28] \notin Two /\ ActionTypes[29] \notin Two
          /\ ActionTypes[30] \notin Two /\ ActionTypes[31] \notin Two /\ ActionTypes[32] \notin Two
          /\ ActionTypes[33] \notin Two /\ ActionTypes[34] \notin Two /\ ActionTypes[35] \notin Two
          /\ ActionTypes[36] \notin Two /\ ActionTypes[37] \notin Two /\ ActionTypes[38] \notin Two
          /\ ActionTypes[39] \notin Two
      BY DEF ActionTypes
    <3> HIDE DEF Two
    <3>3. ActionTypes[n] \notin Two
      BY <3>1, <3>2
    <3> QED BY <3>3 DEF Two
  <2>5. ActionTypes[20] = "vote" /\ ActionTypes[40] = "shout"
    BY <1>1
  <2>6. \A n \in 1..40 : ActionTypes[n] \in {"vote", "shout"} => n \in {20, 40}
    BY <2>2, <2>3, <2>4
  <2> HIDE DEF ActionTypes
  <2> QED BY <2>1, <2>5, <2>6
<1>3. NumberOf("vote") = 20
  BY <1>1, <1>2 DEF NumberOf
<1>4. NumberOf("shout") = 40
  BY <1>1, <1>2 DEF NumberOf
<1> QED BY <1>1, <1>3, <1>4 DEF ActionOf

\* The bytes of a uuid.
UuidBytes(p) == [k \in 1..16 |-> p]

\* What a memo of an action of number n, written as the byte c, and proposal p
\* is: length and bytes of one, then of the other.
Memo(c, p) == [k \in 1..19 |-> CASE k = 1 -> 1 [] k = 2 -> c [] k = 3 -> 16 [] OTHER -> p]

\* Encode writes two values, one after the other.
LEMMA EncodePair ==
  ASSUME NEW a, NEW b, NEW c, NEW p,
         EncodeValue(a) = <<c>>, EncodeValue(b) = UuidBytes(p)
  PROVE  Encode(<<a, b>>) = Memo(c, p)
<1> DEFINE q == [i \in 1..2 |-> Frame(EncodeValue(<<a, b>>[i]))]
<1>1. q \in [1..2 -> {Frame(<<c>>), Frame(UuidBytes(p))}] /\ Len(q) = 2
  <2>1. \A i \in 1..2 : EncodeValue(<<a, b>>[i]) \in {<<c>>, UuidBytes(p)}
    OBVIOUS
  <2>2. DOMAIN q = 1..2
    OBVIOUS
  <2> QED BY <2>1, <2>2
<1>2. q[1] = Frame(<<c>>) /\ q[2] = Frame(UuidBytes(p))
  OBVIOUS
<1>3. Encode(<<a, b>>) = FlattenSeq(q)
  BY DEF Encode
<1> HIDE DEF q
<1>4. \E f : Joins(f, q, 2) /\ FlattenSeq(q) = f[2]
  <2>1. Len(q) \in Nat \ {0}
    BY <1>1
  <2>2. \E f : Joins(f, q, Len(q)) /\ FlattenSeq(q) = f[Len(q)]
    BY <2>1, Flattened
  <2> QED BY <1>1, <2>2
<1>5. FlattenSeq(q) = q[1] \o q[2]
  <2>1. PICK f : Joins(f, q, 2) /\ FlattenSeq(q) = f[2]
    BY <1>4
  <2>2. f = [i \in 1..2 |-> IF i = 1 THEN q[i] ELSE f[i-1] \o q[i]]
    BY <2>1 DEF Joins
  <2>3. f[1] = q[1]
    BY <2>2, 1 \in 1..2
  <2>4. f[2] = f[1] \o q[2]
    <3>1. \A i \in 1..2 : i # 1 => f[i] = f[i-1] \o q[i]
      BY <2>2
    <3>2. 2 \in 1..2 /\ 2 # 1 /\ 2 - 1 = 1
      OBVIOUS
    <3>3. f[2] = f[2-1] \o q[2]
      BY <3>1, <3>2
    <3> QED BY <3>2, <3>3
  <2> QED BY <2>1, <2>3, <2>4
<1>6. Frame(<<c>>) = <<1, c>>
  <2>1. Len(<<c>>) = 1
    OBVIOUS
  <2>2. <<1>> \o <<c>> = <<1, c>>
    <3> DEFINE t == <<1>> \o <<c>>
    <3>1. <<1>> \in Seq({1, c}) /\ <<c>> \in Seq({1, c})
      OBVIOUS
    <3>2. t \in Seq({1, c}) /\ Len(t) = 2 /\ t[1] = 1 /\ t[2] = c
      BY <3>1
    <3> HIDE DEF t
    <3>3. t = <<1, c>>
      BY <3>2
    <3> QED BY <3>3 DEF t
  <2> QED BY <2>1, <2>2 DEF Frame
<1>7. Frame(UuidBytes(p)) = <<16>> \o UuidBytes(p)
  BY DEF Frame, UuidBytes
<1>8. <<1, c>> \o (<<16>> \o UuidBytes(p)) = Memo(c, p)
  BY DEF UuidBytes, Memo
<1> QED BY <1>2, <1>3, <1>5, <1>6, <1>7, <1>8

\* Where a scan begins.
Start(body) == [ok |-> TRUE, vals |-> <<>>, rest |-> body]

\* A scan for one value is one step of it.
LEMMA ScanOne == ASSUME NEW body, NEW t PROVE Scan(body, <<t>>) = ScanNext(Start(body), t)
<1> DEFINE Upto(u) == u = [i \in 0..1 |-> IF i = 0 THEN Start(body)
                                         ELSE ScanNext(u[i-1], <<t>>[i])]
           f == [i \in 0..1 |-> IF i = 0 THEN Start(body) ELSE ScanNext(Start(body), t)]
<1>1. Len(<<t>>) = 1 /\ <<t>>[1] = t
  OBVIOUS
<1>2. \A u : Upto(u) => u[0] = Start(body) /\ u[1] = ScanNext(Start(body), t)
  <2>1. ASSUME NEW u, Upto(u) PROVE u[0] = Start(body)
    BY <2>1
  <2>2. ASSUME NEW u, Upto(u) PROVE u[1] = ScanNext(u[1-1], <<t>>[1])
    BY <2>2
  <2>3. 1 - 1 = 0
    OBVIOUS
  <2> QED BY <1>1, <2>1, <2>2, <2>3
<1>3. Upto(f)
  <2>1. f[0] = Start(body)
    OBVIOUS
  <2>2. \A i \in 0..1 : i # 0 => i = 1 /\ i - 1 = 0
    OBVIOUS
  <2>3. \A i \in 0..1 : f[i] = (IF i = 0 THEN Start(body) ELSE ScanNext(f[i-1], <<t>>[i]))
    BY <1>1, <2>1, <2>2
  <2>4. f = [i \in 0..1 |-> f[i]]
    OBVIOUS
  <2> HIDE DEF f
  <2> QED BY <2>3, <2>4
<1>4. Scan(body, <<t>>) = (CHOOSE u : Upto(u))[1]
  BY <1>1 DEF Scan, Start
<1> HIDE DEF Upto
<1> QED BY <1>2, <1>3, <1>4

\* A step that finds a whole value reads it and leaves what follows.
LEMMA ReadStep ==
  ASSUME NEW body, NEW t, NEW n \in Nat \ {0}, NEW v,
         body[1] = n, body # <<>>, Len(body) \in Nat, n < Len(body),
         ScanValue(t, SubSeq(body, 2, n + 1)) = [ok |-> TRUE, v |-> v]
  PROVE  ScanNext(Start(body), t)
           = [ok |-> TRUE, vals |-> Append(<<>>, v), rest |-> SubSeq(body, n + 2, Len(body))]
<1>1. Start(body).ok = TRUE /\ Start(body).rest = body /\ Start(body).vals = <<>>
  BY DEF Start
<1> DEFINE r == Start(body)
           data == SubSeq(body, 2, n + 1)
<1>2. ~(~r.ok \/ r.rest = <<>> \/ (r.rest # <<>> /\ Len(r.rest) <= n)) /\ ~(n = 0)
  BY <1>1
<1>3. ScanValue(t, data).ok = TRUE /\ ScanValue(t, data).v = v
  OBVIOUS
<1>4. ScanNext(r, t) = [ok |-> ScanValue(t, SubSeq(r.rest, 2, r.rest[1] + 1)).ok,
                        vals |-> Append(r.vals, ScanValue(t, SubSeq(r.rest, 2, r.rest[1] + 1)).v),
                        rest |-> SubSeq(r.rest, r.rest[1] + 2, Len(r.rest))]
  <2>1. r.rest[1] = n
    BY <1>1
  <2> HIDE DEF r
  <2> QED BY <1>2, <2>1, Zenon DEF ScanNext
<1> QED BY <1>1, <1>3, <1>4

\* What is left of a memo after the action: the length of a uuid and the uuid.
Trace(p) == [k \in 1..17 |-> IF k = 1 THEN 16 ELSE p]

\* The uuid is read back.
LEMMA TraceRead == ASSUME NEW p PROVE ScanOrZero(Trace(p), <<"uuid">>).vals[1] = p
<1> DEFINE b == SubSeq(Trace(p), 2, 17)
<1>1. Trace(p)[1] = 16 /\ Len(Trace(p)) = 17 /\ Trace(p) # <<>>
  BY DEF Trace
<1>2. Len(b) = 16 /\ b[1] = p
  BY DEF Trace
<1>3. ScanValue("uuid", b) = [ok |-> TRUE, v |-> p]
  BY <1>2 DEF ScanValue
<1> HIDE DEF b
<1>4. Append(<<>>, p)[1] = p
  OBVIOUS
<1>5. ScanNext(Start(Trace(p)), "uuid")
        = [ok |-> TRUE, vals |-> Append(<<>>, p), rest |-> SubSeq(Trace(p), 18, 17)]
  <2>1. 16 \in Nat \ {0} /\ 16 < 17 /\ 16 + 1 = 17 /\ 16 + 2 = 18 /\ 17 \in Nat
    OBVIOUS
  <2>2. ScanValue("uuid", SubSeq(Trace(p), 2, 16 + 1)) = [ok |-> TRUE, v |-> p]
    BY <1>3, <2>1 DEF b
  <2>3. ScanNext(Start(Trace(p)), "uuid")
          = [ok |-> TRUE, vals |-> Append(<<>>, p),
             rest |-> SubSeq(Trace(p), 16 + 2, Len(Trace(p)))]
    BY <1>1, <2>1, <2>2, ReadStep
  <2> QED BY <1>1, <2>1, <2>3
<1>6. Scan(Trace(p), <<"uuid">>).ok /\ Scan(Trace(p), <<"uuid">>).vals[1] = p
  BY <1>4, <1>5, ScanOne
<1> QED BY <1>6 DEF ScanOrZero

\* A byte of an action is read back as its number, in either form.
LEMMA ActionRead ==
  ASSUME NEW fmt \in {"plain", "packed"}, NEW act \in {"vote", "shout"}
  PROVE  \E c \in 0..127 :
           /\ EncodeValue(ActionValue(fmt, act)) = <<c>>
           /\ ScanValue(ActionCodec(fmt), <<c>>) = [ok |-> TRUE, v |-> NumberOf(act)]
<1> DEFINE n == NumberOf(act)
<1>1. n \in {20, 40}
  BY Numbers
<1> HIDE DEF n
<1>2. CASE fmt = "packed"
  <2>1. ActionValue(fmt, act) = [t |-> "bit", v |-> n] /\ ActionCodec(fmt) = "bit"
    BY <1>2 DEF ActionValue, ActionCodec, Bit, n
  <2>2. n % 256 = n
    BY <1>1
  <2>3. EncodeValue(ActionValue(fmt, act)) = <<n>>
    BY <2>1, <2>2 DEF EncodeValue
  <2>4. Len(<<n>>) = 1 /\ <<n>>[1] = n
    OBVIOUS
  <2>5. ScanValue("bit", <<n>>) = [ok |-> TRUE, v |-> n]
    BY <2>4 DEF ScanValue
  <2>6. n \in 0..127
    BY <1>1
  <2> QED BY <2>1, <2>3, <2>5, <2>6 DEF n
<1>3. CASE fmt = "plain"
  <2> DEFINE c == 2 * n
  <2>1. ActionValue(fmt, act) = [t |-> "int", v |-> n] /\ ActionCodec(fmt) = "int"
    BY <1>3 DEF ActionValue, ActionCodec, Number, n
  <2>2. PutVarint(n) = <<c>>
    BY <1>1, OneByte DEF PutVarint
  <2>3. EncodeValue(ActionValue(fmt, act)) = <<c>>
    BY <2>1, <2>2 DEF EncodeValue
  <2>4. c \in 0..127 /\ c % 2 = 0 /\ c \div 2 = n
    BY <1>1
  <2>5. Varint(<<c>>) = n
    <3> DEFINE D == <<c>>
               U(u) == u = [k \in 1..Len(D) |-> IF D[k] < 128 THEN D[k]
                                                ELSE D[k] - 128 + 128 * u[k + 1]]
    <3>1. Len(D) = 1 /\ D[1] = c
      OBVIOUS
    <3> HIDE DEF D, c
    <3>2. \A u : U(u) => u[1] = c
      BY <2>4, <3>1
    <3>3. U([k \in 1..1 |-> c])
      BY <2>4, <3>1
    <3>4. (CHOOSE u : U(u))[1] = c
      <4> HIDE DEF U
      <4> QED BY <3>2, <3>3
    <3>5. \E k \in 1..Len(D) : D[k] < 128
      BY <2>4, <3>1
    <3>6. Varint(D) = LET x == IF \E k \in 1..Len(D) : D[k] < 128 THEN (CHOOSE u : U(u))[1] ELSE 0
                      IN  IF x % 2 = 0 THEN x \div 2 ELSE -((x + 1) \div 2)
      BY DEF Varint
    <3> HIDE DEF U
    <3>7. Varint(D) = n
      BY <2>4, <3>4, <3>5, <3>6
    <3> QED BY <3>7 DEF D
  <2>6. ScanValue("int", <<c>>) = [ok |-> TRUE, v |-> n]
    BY <2>5 DEF ScanValue
  <2> QED BY <2>1, <2>3, <2>4, <2>6 DEF n
<1> QED BY <1>2, <1>3

\* A body read in its own format gives back the action and the proposal.
LEMMA BodyRead ==
  ASSUME NEW fmt \in {"plain", "packed"}, NEW act \in {"vote", "shout"}, NEW p, NEW c,
         ScanValue(ActionCodec(fmt), <<c>>) = [ok |-> TRUE, v |-> NumberOf(act)]
  PROVE  ReadBody(fmt, Memo(c, p)) = [fmt |-> fmt, act |-> act, prop |-> p]
<1> DEFINE B == Memo(c, p)
           head == Scan(B, <<ActionCodec(fmt)>>)
<1>1. B[1] = 1 /\ Len(B) = 19 /\ B # <<>>
  BY DEF Memo
<1>2. SubSeq(B, 2, 2) = <<c>>
  <2> DEFINE one == SubSeq(B, 2, 2)
  <2>1. one = [k \in 1..1 |-> one[k]] /\ one[1] = c
    BY DEF Memo
  <2> HIDE DEF one
  <2>2. one = <<c>>
    BY <2>1
  <2> QED BY <2>2 DEF one
<1>3. SubSeq(B, 3, 19) = Trace(p)
  BY DEF Memo, Trace
<1> HIDE DEF B
<1>4. head = [ok |-> TRUE, vals |-> Append(<<>>, NumberOf(act)), rest |-> Trace(p)]
  <2>1. 1 \in Nat \ {0} /\ 1 < 19 /\ 1 + 1 = 2 /\ 1 + 2 = 3 /\ 19 \in Nat
    OBVIOUS
  <2>2. ScanValue(ActionCodec(fmt), SubSeq(B, 2, 1 + 1)) = [ok |-> TRUE, v |-> NumberOf(act)]
    BY <1>2, <2>1
  <2>3. ScanNext(Start(B), ActionCodec(fmt))
          = [ok |-> TRUE, vals |-> Append(<<>>, NumberOf(act)),
             rest |-> SubSeq(B, 1 + 2, Len(B))]
    BY <1>1, <2>1, <2>2, ReadStep
  <2> QED BY <1>1, <1>3, <2>1, <2>3, ScanOne
<1>5. Append(<<>>, NumberOf(act))[1] = NumberOf(act) /\ ActionOf(NumberOf(act)) = act
  BY Numbers
<1> HIDE DEF head
<1>6. head.ok = TRUE /\ ActionOf(head.vals[1]) = act /\ head.rest = Trace(p)
  BY <1>4, <1>5
<1>7. ScanOrZero(head.rest, <<"uuid">>).vals[1] = p
  BY <1>6, TraceRead
<1>8. ReadBody(fmt, B) = [fmt |-> fmt, act |-> ActionOf(head.vals[1]),
                          prop |-> ScanOrZero(head.rest, <<"uuid">>).vals[1]]
  <2>1. ~(~head.ok) /\ head.ok /\ ActionOf(head.vals[1]) \in {"vote", "shout"}
    BY <1>6
  <2> QED BY <2>1 DEF ReadBody, head
<1> QED BY <1>6, <1>7, <1>8 DEF B

\* Two sequences one after the other.
LEMMA InTurn ==
  ASSUME NEW V, NEW s \in Seq(V), NEW t \in Seq(V)
  PROVE  /\ s \o t \in Seq(V) /\ Len(s \o t) = Len(s) + Len(t)
         /\ \A k \in 1..Len(s) : (s \o t)[k] = s[k]
         /\ \A k \in 1..Len(t) : (s \o t)[k + Len(s)] = t[k]
<1>1. s \o t \in Seq(V) /\ Len(s \o t) = Len(s) + Len(t)
  OBVIOUS
<1>2. ASSUME NEW k \in 1..Len(s) PROVE (s \o t)[k] = s[k]
  OBVIOUS
<1>3. ASSUME NEW k \in 1..Len(t) PROVE (s \o t)[k + Len(s)] = t[k]
  <2>1. k + Len(s) \in 1..Len(s) + Len(t) /\ ~(k + Len(s) <= Len(s))
    OBVIOUS
  <2>2. k + Len(s) - Len(s) = k
    OBVIOUS
  <2> QED BY <2>1, <2>2
<1> QED BY <1>1, <1>2, <1>3

\* The wrapper of version 2 is taken off, and no plain memo looks like one.
LEMMA Wrapped ==
  ASSUME NEW c, NEW p, NEW B, B = Memo(c, p)
  PROVE  /\ ~IsAction(B)
         /\ IsAction(Marshal(B)) /\ Unmarshal(Marshal(B)) = B
<1>1. SubSeq(B, 1, 2)[1] = 1 /\ Len(B) = 19
  BY DEF Memo
<1>2. ~IsAction(B)
  <2>1. <<129, 161>>[1] = 129 /\ 129 # 1
    OBVIOUS
  <2>2. SubSeq(B, 1, 2) # <<129, 161>>
    BY <1>1, <2>1, ZenonT(40)
  <2> QED BY <2>2 DEF IsAction
<1> DEFINE M == Marshal(B)
           head == <<129, 161, 98, 196, 19>>
           V == {129, 161, 98, 196, 19} \cup {B[k] : k \in 1..19}
<1>3. B \in Seq(V) /\ head \in Seq(V)
  <2>1. B = [k \in 1..19 |-> B[k]] /\ \A k \in 1..19 : B[k] \in V
    BY DEF Memo
  <2>2. head \in Seq({129, 161, 98, 196, 19})
    OBVIOUS
  <2> HIDE DEF V
  <2>3. B \in Seq(V)
    BY <2>1
  <2>4. 129 \in V /\ 161 \in V /\ 98 \in V /\ 196 \in V /\ 19 \in V
    BY DEF V
  <2>5. head \in Seq(V)
    BY <2>4
  <2> QED BY <2>3, <2>5
<1>4. /\ Len(M) = 24 /\ M[1] = 129 /\ M[2] = 161
      /\ \A k \in 1..19 : M[k + 5] = B[k]
      /\ M = [k \in 1..24 |-> M[k]]
  <2>1. M = head \o B
    BY <1>1 DEF Marshal
  <2>2. Len(head) = 5 /\ head[1] = 129 /\ head[2] = 161
    OBVIOUS
  <2> HIDE DEF M, head, V
  <2>3. /\ M \in Seq(V) /\ Len(M) = 5 + 19
        /\ \A k \in 1..5 : M[k] = head[k]
        /\ \A k \in 1..19 : M[k + 5] = B[k]
    <3>1. /\ M \in Seq(V) /\ Len(M) = Len(head) + Len(B)
          /\ \A k \in 1..Len(head) : M[k] = head[k]
          /\ \A k \in 1..Len(B) : M[k + Len(head)] = B[k]
      BY ONLY <1>3, <2>1, InTurn
    <3>2. Len(B) = 19
      BY <1>1
    <3> QED BY ONLY <2>2, <3>1, <3>2
  <2>4. M[1] = head[1] /\ M[2] = head[2] /\ Len(M) = 24
    BY <2>3
  <2> QED BY <2>2, <2>3, <2>4
<1> HIDE DEF M
<1>5. SubSeq(M, 1, 2) = <<129, 161>>
  <2> DEFINE two == SubSeq(M, 1, 2)
  <2>1. two = [k \in 1..2 |-> M[k]]
    BY <1>4
  <2>2. two[1] = 129 /\ two[2] = 161
    BY <1>4, <2>1
  <2> HIDE DEF two
  <2>3. two = <<129, 161>>
    BY <2>1, <2>2
  <2> QED BY <2>3 DEF two
<1>6. SubSeq(M, 6, 24) = B
  <2>1. SubSeq(M, 6, 24) = [k \in 1..19 |-> M[k + 5]]
    BY <1>4
  <2>2. B = [k \in 1..19 |-> B[k]]
    BY DEF Memo
  <2> QED BY <1>4, <2>1, <2>2
<1>7. IsAction(M) /\ Unmarshal(M) = B
  BY <1>4, <1>5, <1>6 DEF IsAction, Unmarshal
<1> QED BY <1>2, <1>7 DEF M

\* What a node pays, and what the button of a message makes an admin pay, is
\* read back as what it was written for, whichever version wrote it: the action
\* by its number, the proposal by its trace and the format by the wrapper
\* (requestVoteAction, forwardProposal and forwardProposalV1 write; the payee's
\* handlers of both formats read).
THEOREM VoteMemoRead ==
  \A fmt \in {"plain", "packed"} : \A act \in {"vote", "shout"} : \A p :
    ReadMemo(ProposalMemo(fmt, act, p)) = [fmt |-> fmt, act |-> act, prop |-> p]
<1> SUFFICES ASSUME NEW fmt \in {"plain", "packed"}, NEW act \in {"vote", "shout"}, NEW p
             PROVE  ReadMemo(ProposalMemo(fmt, act, p)) = [fmt |-> fmt, act |-> act, prop |-> p]
  OBVIOUS
<1>1. PICK c \in 0..127 :
        /\ EncodeValue(ActionValue(fmt, act)) = <<c>>
        /\ ScanValue(ActionCodec(fmt), <<c>>) = [ok |-> TRUE, v |-> NumberOf(act)]
  BY ActionRead, ZenonT(40)
<1>2. EncodeValue(Uuid(p)) = UuidBytes(p)
  BY DEF EncodeValue, Uuid, UuidBytes
<1>3. ProposalMemo(fmt, act, p) = Wrap(fmt, Memo(c, p))
  BY <1>1, <1>2, EncodePair DEF ProposalMemo
<1>4. ReadBody(fmt, Memo(c, p)) = [fmt |-> fmt, act |-> act, prop |-> p]
  BY <1>1, BodyRead
<1>5. /\ ~IsAction(Memo(c, p))
      /\ IsAction(Marshal(Memo(c, p))) /\ Unmarshal(Marshal(Memo(c, p))) = Memo(c, p)
  BY Wrapped
<1> HIDE DEF Memo
<1> QED BY <1>3, <1>4, <1>5 DEF Wrap, ReadMemo

(***************************************************************************)
(* The messenger                                                           *)
(***************************************************************************)

\* A row is for an admin, and a button names a proposal.
GoodRow(r) ==
  /\ r.to \in Staff
  /\ r.kind = "buttons" => r.fmt \in {"plain", "packed"} /\ r.prop \in Proposals

GoodRows(s) == \E S : s \in Seq(S) /\ \A r \in S : GoodRow(r)

\* Shown to whom it is for, or refused.
Out(row) == \/ MessageID(row) \in Shown(inbox[row.to])
            \/ \E r \in dropped : MessageID(r) = MessageID(row)

\* What the messenger is about to delete is out.
Mail ==
  /\ GoodRows(messages)
  /\ \A a \in Staff : GoodRows(inbox[a])
  /\ picked \subseteq 1..Len(messages)
  /\ phase = "sent" => \A k \in picked : Out(messages[k])

\* A sequence of good rows is one of good rows.
LEMMA GoodRowAt ==
  ASSUME NEW s, GoodRows(s)
  PROVE  /\ Len(s) \in Nat /\ DOMAIN s = 1..Len(s)
         /\ \A k \in 1..Len(s) : GoodRow(s[k])
<1>1. PICK S : s \in Seq(S) /\ \A r \in S : GoodRow(r)
  BY DEF GoodRows
<1> QED BY <1>1

\* Rows that are appended keep those there.
LEMMA RowsAppended ==
  ASSUME NEW s, NEW t, GoodRows(s), GoodRows(t)
  PROVE  /\ GoodRows(s \o t)
         /\ \A k \in 1..Len(s) : k \in 1..Len(s \o t) /\ (s \o t)[k] = s[k]
         /\ \A k \in 1..Len(t) : k + Len(s) \in 1..Len(s \o t) /\ (s \o t)[k + Len(s)] = t[k]
<1>1. PICK S : s \in Seq(S) /\ \A r \in S : GoodRow(r)
  BY DEF GoodRows
<1>2. PICK T : t \in Seq(T) /\ \A r \in T : GoodRow(r)
  BY DEF GoodRows
<1> DEFINE V == S \cup T
<1>3. s \in Seq(V) /\ t \in Seq(V) /\ \A r \in V : GoodRow(r)
  BY <1>1, <1>2
<1> HIDE DEF V
<1>4. /\ s \o t \in Seq(V) /\ Len(s \o t) = Len(s) + Len(t)
      /\ \A k \in 1..Len(s) : (s \o t)[k] = s[k]
      /\ \A k \in 1..Len(t) : (s \o t)[k + Len(s)] = t[k]
  BY <1>3, InTurn
<1>5. Len(s) \in Nat /\ Len(t) \in Nat
  BY <1>3
<1> QED BY <1>3, <1>4, <1>5 DEF GoodRows

\* The network shows every row that was asked for, of those not shown before.
LEMMA DeliverShows ==
  ASSUME Mail, Deliver
  PROVE  /\ \A a \in Staff : GoodRows(inbox'[a]) /\ Shown(inbox[a]) \subseteq Shown(inbox'[a])
         /\ \A r \in Raws : MessageID(r) \in Shown(inbox'[r.to])
<1>1. PICK order :
        /\ \A a \in Recipients : order[a] \in SetToSeqs(Unshown(a))
        /\ inbox' = [a \in Recipients |-> inbox[a] \o order[a]]
  BY DEF Deliver
<1>2. Recipients = Staff
  BY CouncilAssumption
<1>3. IsFiniteSet(Raws) /\ \A r \in Raws : GoodRow(r)
  <2>1. IsFiniteSet(picked) /\ \A k \in picked : GoodRow(messages[k])
    BY GoodRowAt, FinitePositions DEF Mail
  <2> DEFINE sent == {j \in picked : messages[j].to # ClientID}
             f == [k \in sent |-> messages[k]]
  <2>2. IsFiniteSet(sent)
    BY <2>1, FS_Subset
  <2>3. f \in Surjection(sent, Raws)
    <3>1. f \in [sent -> Raws]
      BY DEF Raws
    <3>2. \A r \in Raws : \E k \in sent : f[k] = r
      BY DEF Raws
    <3> HIDE DEF f, sent
    <3> QED BY <3>1, <3>2 DEF Surjection
  <2>4. IsFiniteSet(Raws)
    BY <2>2, <2>3, FS_Surjection
  <2> QED BY <2>1, <2>4 DEF Raws
<1>4. ASSUME NEW a \in Staff
      PROVE  /\ GoodRows(inbox'[a]) /\ Shown(inbox[a]) \subseteq Shown(inbox'[a])
             /\ \A r \in Raws : r.to = a => MessageID(r) \in Shown(inbox'[a])
  <2> DEFINE S == Unshown(a)
             o == order[a]
             b == inbox[a]
  <2>1. o \in SetToSeqs(S) /\ inbox'[a] = b \o o
    BY <1>1, <1>2
  <2>2. S \in SUBSET Raws /\ IsFiniteSet(S)
    BY <1>3, FS_Subset DEF Unshown
  <2> HIDE DEF S, o
  <2>3. /\ o \in Seq(S) /\ Len(o) = Cardinality(S)
        /\ \A i, j \in DOMAIN o : i # j => o[i] # o[j]
        /\ \A x \in S : \E i \in DOMAIN o : o[i] = x
    BY ONLY <2>1, <2>2, Arrangement
  <2>4. GoodRows(o) /\ GoodRows(b)
    BY <1>3, <2>2, <2>3 DEF GoodRows, Mail
  <2> HIDE DEF b
  <2>5. /\ GoodRows(b \o o)
        /\ \A k \in 1..Len(b) : k \in 1..Len(b \o o) /\ (b \o o)[k] = b[k]
        /\ \A k \in 1..Len(o) : k + Len(b) \in 1..Len(b \o o) /\ (b \o o)[k + Len(b)] = o[k]
    BY ONLY <2>4, RowsAppended
  <2>6. /\ DOMAIN b = 1..Len(b) /\ DOMAIN o = 1..Len(o)
        /\ DOMAIN (b \o o) = 1..Len(b \o o)
    BY <2>4, <2>5, GoodRowAt
  <2> DEFINE c == b \o o
  <2> HIDE DEF c
  <2>7. Shown(b) \subseteq Shown(c)
    BY <2>5, <2>6 DEF Shown, c
  <2>8. ASSUME NEW x \in S PROVE MessageID(x) \in Shown(c)
    <3>1. PICK i \in 1..Len(o) : o[i] = x
      BY <2>3, <2>6
    <3>2. i + Len(b) \in DOMAIN c /\ c[i + Len(b)] = x
      BY <2>5, <2>6, <3>1 DEF c
    <3> QED BY <3>2 DEF Shown
  <2>9. \A r \in Raws : r.to = a => r \in S \/ MessageID(r) \in Shown(b)
    BY DEF Unshown, S, b
  <2> QED BY <2>1, <2>5, <2>7, <2>8, <2>9 DEF b, c
<1> QED BY <1>3, <1>4 DEF GoodRow

\* Deleting rows keeps the others.
LEMMA WithoutKeeps ==
  ASSUME Mail, NEW rows \in SUBSET (1..Len(messages))
  PROVE  /\ GoodRows(Without(rows))
         /\ \A k \in 1..Len(messages) : k \notin rows
              => \E i \in DOMAIN Without(rows) : Without(rows)[i] = messages[k]
<1> DEFINE n == Len(messages)
           rest == DOMAIN messages \ rows
           upto(k) == {j \in rest : j <= k}
           nth(i) == CHOOSE k \in rest : Cardinality(upto(k)) = i
<1>1. n \in Nat /\ DOMAIN messages = 1..n /\ \A k \in 1..n : GoodRow(messages[k])
  BY GoodRowAt DEF Mail
<1>2. rest \in SUBSET (1..n)
  BY <1>1
<1>3. Without(rows) = [i \in 1..Cardinality(rest) |-> messages[nth(i)]]
  BY DEF Without
<1> HIDE DEF n, rest
<1>4. /\ Cardinality(rest) \in Nat
      /\ \A i \in 1..Cardinality(rest) : \E k \in rest : Cardinality(upto(k)) = i
      /\ \A k \in rest : Cardinality(upto(k)) \in 1..Cardinality(rest)
      /\ \A k, l \in rest : Cardinality(upto(k)) = Cardinality(upto(l)) => k = l
  BY <1>1, <1>2, Ranked
<1> HIDE DEF upto
<1>5. \A i \in 1..Cardinality(rest) : nth(i) \in rest
  BY <1>4
<1>6. \A k \in rest : nth(Cardinality(upto(k))) = k
  BY <1>4
<1> HIDE DEF nth
<1>7. GoodRows(Without(rows))
  <2> DEFINE S == {messages[k] : k \in rest}
  <2>1. Without(rows) \in Seq(S)
    BY <1>3, <1>4, <1>5
  <2>2. \A r \in S : GoodRow(r)
    BY <1>1, <1>2
  <2> HIDE DEF S
  <2> QED BY <2>1, <2>2 DEF GoodRows
<1>8. ASSUME NEW k \in 1..n, k \notin rows
      PROVE  \E i \in DOMAIN Without(rows) : Without(rows)[i] = messages[k]
  <2>1. k \in rest
    BY <1>1, <1>8 DEF rest
  <2> DEFINE i == Cardinality(upto(k))
  <2>2. i \in 1..Cardinality(rest) /\ nth(i) = k
    BY <1>4, <1>6, <2>1
  <2> HIDE DEF i
  <2> QED BY <1>3, <2>2
<1> QED BY <1>7, <1>8 DEF n

\* A row that is kept stays kept: what waits is deleted only when it is out, and
\* nothing that was shown or refused is forgotten.
LEMMA OutStays ==
  ASSUME \A a \in Staff : Shown(inbox[a]) \subseteq Shown(inbox'[a]), dropped \subseteq dropped',
         NEW row, row.to \in Staff, Out(row)
  PROVE  Out(row)'
BY DEF Out

\* One row stands for another with the same id.
LEMMA SameRow ==
  ASSUME NEW r, NEW q, MessageID(r) = MessageID(q)
  PROVE  r.to = q.to /\ (Out(r) <=> Out(q))
<1>1. r.to = q.to
  BY DEF MessageID
<1> QED BY <1>1 DEF Out

\* The messenger, whatever fails, deletes what is out and keeps the rest.
LEMMA MessengerKeeps ==
  ASSUME Mail, MessengerNext \/ Restart
  PROVE  Mail' /\ \A row : row.to \in Staff /\ Kept(row) => Kept(row)'
<1> DEFINE Goal == Mail' /\ \A row : row.to \in Staff /\ Kept(row) => Kept(row)'
<1>1. \A row : Kept(row) <=> \/ \E k \in DOMAIN messages : MessageID(messages[k]) = MessageID(row)
                             \/ Out(row)
  BY DEF Kept, Out
<1>2. ASSUME UNCHANGED <<messages, inbox, dropped>>, picked' \subseteq 1..Len(messages),
             phase' # "sent"
      PROVE  Goal
  BY <1>2 DEF Mail, Kept
<1>3. Picked \subseteq 1..Len(messages)
  BY DEF Picked, Oldest
<1>4. ASSUME ListMessages \/ Meet \/ MeetFails \/ DeleteFails \/ Restart PROVE Goal
  <2>1. UNCHANGED <<messages, inbox, dropped>> /\ phase' # "sent"
    BY <1>4 DEF ListMessages, Meet, MeetNext, MeetFails, DeleteFails, Restart, Return
  <2>2. picked' \subseteq 1..Len(messages)
    BY <1>3, <1>4 DEF ListMessages, Meet, MeetFails, DeleteFails, Restart, Return, Mail
  <2> QED BY <1>2, <2>1, <2>2
<1>5. \A k \in picked : /\ k \in 1..Len(messages) /\ GoodRow(messages[k])
                        /\ messages[k].to \in Staff /\ messages[k] \in Raws
  <2>1. ClientID \notin Staff
    BY CouncilAssumption
  <2>2. \A k \in picked : k \in 1..Len(messages) /\ GoodRow(messages[k])
    BY GoodRowAt DEF Mail
  <2> QED BY <2>1, <2>2 DEF GoodRow, Raws
<1>6. ASSUME Deliver, UNCHANGED <<messages, dropped>>, picked' \subseteq picked PROVE Goal
  <2>1. /\ \A a \in Staff : GoodRows(inbox'[a]) /\ Shown(inbox[a]) \subseteq Shown(inbox'[a])
        /\ \A r \in Raws : MessageID(r) \in Shown(inbox'[r.to])
    BY <1>6, DeliverShows
  <2>2. \A row : row.to \in Staff /\ Kept(row) => Kept(row)'
    BY <1>6, <2>1 DEF Kept
  <2>3. Mail'
    BY <1>5, <1>6, <2>1 DEF Mail, Out
  <2> QED BY <2>2, <2>3
<1>7. ASSUME Send \/ SendFails PROVE Goal
  <2>1. CASE UNCHANGED inbox
    <3>1. UNCHANGED <<messages, inbox, dropped>>
      BY <1>7, <2>1 DEF Send, SendFails
    <3>2. CASE Send
      BY <1>6, <3>2 DEF Send
    <3>3. CASE SendFails
      BY <1>2, <3>1, <3>3 DEF SendFails, Return
    <3> QED BY <1>7, <3>2, <3>3
  <2>2. CASE Deliver
    BY <1>6, <1>7, <2>2 DEF Send, SendFails, Return
  <2> QED BY <1>7, <2>1, <2>2 DEF Send, SendFails
<1>8. ASSUME SendRefused PROVE Goal
  <2>1. UNCHANGED <<messages, picked, inbox>> /\ dropped' = dropped \cup Raws
    BY <1>8 DEF SendRefused
  <2>2. \A row : Kept(row) => Kept(row)'
    BY <2>1 DEF Kept
  <2>3. \A k \in picked : Out(messages[k])'
    BY <1>5, <2>1 DEF Out
  <2> QED BY <2>1, <2>2, <2>3 DEF Mail
<1>9. ASSUME Delete PROVE Goal
  <2>1. /\ UNCHANGED <<inbox, dropped>> /\ messages' = Without(picked)
        /\ picked' = {} /\ phase' # "sent" /\ \A k \in picked : Out(messages[k])
    BY <1>9 DEF Delete, Return, Mail
  <2>2. /\ GoodRows(Without(picked))
        /\ \A k \in 1..Len(messages) : k \notin picked
             => \E i \in DOMAIN Without(picked) : Without(picked)[i] = messages[k]
    BY WithoutKeeps DEF Mail
  <2>3. Mail'
    BY <2>1, <2>2 DEF Mail
  <2>4. ASSUME NEW row, row.to \in Staff, Kept(row) PROVE Kept(row)'
    <3>1. CASE Out(row)
      BY <2>1, <3>1 DEF Kept, Out
    <3>2. ASSUME NEW k \in DOMAIN messages, MessageID(messages[k]) = MessageID(row)
          PROVE  Kept(row)'
      <4>1. k \in 1..Len(messages)
        BY GoodRowAt DEF Mail
      <4>2. CASE k \in picked
        <5>1. Out(row)
          BY <2>1, <3>2, <4>2, SameRow
        <5> QED BY <2>1, <5>1 DEF Kept, Out
      <4>3. CASE k \notin picked
        <5>1. PICK i \in DOMAIN Without(picked) : Without(picked)[i] = messages[k]
          BY <2>2, <4>1, <4>3
        <5> QED BY <2>1, <3>2, <5>1 DEF Kept
      <4> QED BY <4>2, <4>3
    <3> QED BY <1>1, <2>4, <3>1, <3>2
  <2> QED BY <2>3, <2>4
<1> QED BY <1>4, <1>7, <1>8, <1>9 DEF MessengerNext, Round, Mishap

(***************************************************************************)
(* What the payee tells the admins                                         *)
(***************************************************************************)

\* A sequence has the elements of the first i of q, and no others than those of V.
Gathered(s, q, V, i) ==
  /\ s \in Seq(V)
  /\ \A j \in 1..i : \A k \in 1..Len(q[j]) : \E m \in 1..Len(s) : s[m] = q[j][k]

\* What is joined has the elements of all.
LEMMA JoinedElements ==
  ASSUME NEW V, NEW n \in Nat, NEW q \in [1..n -> Seq(V)], NEW f, Joins(f, q, n)
  PROVE  \A i \in 1..n : Gathered(f[i], q, V, i)
<1> DEFINE Good(i) == Gathered(f[i], q, V, i)
           T == {i \in Nat : i \in 1..n /\ ~Good(i)}
<1> HIDE DEF Good, Gathered
<1>1. ASSUME T # {} PROVE FALSE
  <2>1. T \in SUBSET Nat
    OBVIOUS
  <2>2. PICK i \in T : \A k \in T : i <= k
    BY <1>1, <2>1, Least
  <2>3. i \in 1..n /\ ~Good(i) /\ q[i] \in Seq(V)
    BY <2>2
  <2>4. CASE i = 1
    <3>1. f[1] = q[1]
      BY <2>3, <2>4 DEF Joins
    <3>2. Good(1)
      BY <2>3, <2>4, <3>1 DEF Good, Gathered
    <3> QED BY <2>3, <2>4, <3>2
  <2>5. CASE i # 1
    <3>1. i - 1 \in 1..n /\ i - 1 \notin T
      BY <2>2, <2>3, <2>5
    <3>2. Good(i - 1)
      BY <2>3, <3>1
    <3>3. f[i] = f[i-1] \o q[i]
      BY <2>3, <2>5 DEF Joins
    <3> DEFINE g == f[i-1]
    <3>4. /\ g \in Seq(V)
          /\ \A j \in 1..i-1 : \A k \in 1..Len(q[j]) : \E m \in 1..Len(g) : g[m] = q[j][k]
      BY <3>2 DEF Good, Gathered
    <3> HIDE DEF g
    <3>5. /\ g \o q[i] \in Seq(V) /\ Len(g \o q[i]) = Len(g) + Len(q[i])
          /\ \A k \in 1..Len(g) : (g \o q[i])[k] = g[k]
          /\ \A k \in 1..Len(q[i]) : (g \o q[i])[k + Len(g)] = q[i][k]
      BY <2>3, <3>4, InTurn
    <3>6. Len(g) \in Nat /\ Len(q[i]) \in Nat
      BY <2>3, <3>4
    <3> DEFINE h == g \o q[i]
    <3>7. \A m \in 1..Len(g) : m \in 1..Len(h) /\ h[m] = g[m]
      BY <3>5, <3>6
    <3>8. \A k \in 1..Len(q[i]) : k + Len(g) \in 1..Len(h) /\ h[k + Len(g)] = q[i][k]
      BY <3>5, <3>6
    <3> HIDE DEF h
    <3>9. ASSUME NEW j \in 1..i, NEW k \in 1..Len(q[j])
          PROVE  \E m \in 1..Len(h) : h[m] = q[j][k]
      <4>1. CASE j = i
        BY <3>8, <4>1
      <4>2. CASE j # i
        <5>1. j \in 1..i-1
          BY <2>3, <4>2
        <5>2. PICK m \in 1..Len(g) : g[m] = q[j][k]
          BY <3>4, <5>1
        <5> QED BY <3>7, <5>2
      <4> QED BY <4>1, <4>2
    <3>10. f[i] = h /\ h \in Seq(V)
      BY <3>3, <3>5 DEF g, h
    <3>11. Good(i)
      BY <3>9, <3>10 DEF Good, Gathered
    <3> QED BY <2>3, <3>11
  <2> QED BY <2>4, <2>5
<1>2. \A i \in 1..n : Good(i)
  BY <1>1
<1> QED BY <1>2 DEF Good

\* The rows written for an admin.
LEMMA RowsFor ==
  ASSUME NEW n, n.fmt \in {"plain", "packed"}, n.prop \in Proposals, NEW a \in Staff
  PROVE  /\ GoodRows(MessagesFor(n, a))
         /\ n.kind # "created" => /\ Len(MessagesFor(n, a)) = 1
                                  /\ MessagesFor(n, a)[1] = BuildMessage(n.kind, n, a)
<1>1. \A kind : GoodRow(BuildMessage(kind, n, a))
  BY DEF BuildMessage, GoodRow
<1> DEFINE S == {BuildMessage("post", n, a), BuildMessage("buttons", n, a),
                 BuildMessage(n.kind, n, a)}
<1>2. MessagesFor(n, a) \in Seq(S)
  <2>1. \A x, y \in S : <<x, y>> \in Seq(S) /\ <<x>> \in Seq(S)
    OBVIOUS
  <2>2. /\ BuildMessage("post", n, a) \in S /\ BuildMessage("buttons", n, a) \in S
        /\ BuildMessage(n.kind, n, a) \in S
    OBVIOUS
  <2> HIDE DEF S
  <2> QED BY <2>1, <2>2 DEF MessagesFor
<1>3. \A r \in S : GoodRow(r)
  BY <1>1
<1>4. GoodRows(MessagesFor(n, a))
  <2> HIDE DEF S
  <2> QED BY <1>2, <1>3 DEF GoodRows
<1> QED BY <1>4 DEF MessagesFor

\* Every admin has the rows written for him.
Serves(s, n) == \A a \in Staff : \A k \in 1..Len(MessagesFor(n, a)) :
                  \E m \in 1..Len(s) : s[m] = MessagesFor(n, a)[k]

\* The rows written for all admins are those for each of them.
LEMMA RowsOf ==
  ASSUME NEW n, n.fmt \in {"plain", "packed"}, n.prop \in Proposals
  PROVE  GoodRows(MessagesOf(n)) /\ Serves(MessagesOf(n), n)
<1> DEFINE N == Len(Admins)
           q == [i \in 1..N |-> MessagesFor(n, Admins[i])]
           V == UNION {{MessagesFor(n, a)[k] : k \in 1..Len(MessagesFor(n, a))} : a \in Staff}
<1>1. /\ Staff = {Admins[i] : i \in DOMAIN Admins} /\ N \in Nat /\ DOMAIN Admins = 1..N
  <2>1. Admins \in Seq({Admins[i] : i \in DOMAIN Admins})
    BY MessengerAssumption
  <2>2. Staff = {Admins[i] : i \in DOMAIN Admins}
    BY CouncilAssumption DEF Recipients, ToSet
  <2> QED BY <2>1, <2>2
<1>2. \A a \in Staff : MessagesFor(n, a) \in Seq(V)
  <2> SUFFICES ASSUME NEW a \in Staff PROVE MessagesFor(n, a) \in Seq(V)
    OBVIOUS
  <2> DEFINE t == MessagesFor(n, a)
  <2>1. PICK S : t \in Seq(S)
    BY RowsFor DEF GoodRows
  <2>2. \A k \in 1..Len(t) : t[k] \in V
    OBVIOUS
  <2> HIDE DEF t, V
  <2>3. t \in Seq(V)
    BY <2>1, <2>2
  <2> QED BY <2>3 DEF t
<1>3. \A r \in V : GoodRow(r)
  BY RowsFor, GoodRowAt
<1> HIDE DEF V
<1>4. q \in [1..N -> Seq(V)] /\ Len(q) = N
  BY <1>1, <1>2
<1>5. MessagesOf(n) = FlattenSeq(q)
  BY DEF MessagesOf
<1>6. CASE N = 0
  <2>1. Staff = {} /\ q \in Seq({}) /\ FlattenSeq(q) = q
    BY <1>1, <1>4, <1>6 DEF FlattenSeq
  <2> HIDE DEF q
  <2> QED BY <1>5, <2>1 DEF GoodRows, Serves
<1>7. CASE N # 0
  <2>1. Len(q) \in Nat \ {0}
    BY <1>1, <1>4, <1>7
  <2> HIDE DEF q, N
  <2>2. PICK f : Joins(f, q, Len(q)) /\ FlattenSeq(q) = f[Len(q)]
    BY <2>1, Flattened
  <2>3. Joins(f, q, N) /\ MessagesOf(n) = f[N] /\ N \in 1..N /\ N \in Nat
    BY <1>1, <1>4, <1>5, <1>7, <2>2
  <2>4. \A i \in 1..N : Gathered(f[i], q, V, i)
    <3>1. N \in Nat /\ q \in [1..N -> Seq(V)] /\ Joins(f, q, N)
      BY <1>4, <2>3
    <3> QED BY ONLY <3>1, JoinedElements
  <2>5. MessagesOf(n) \in Seq(V)
    BY <2>3, <2>4 DEF Gathered
  <2>6. ASSUME NEW a \in Staff, NEW k \in 1..Len(MessagesFor(n, a))
        PROVE  \E m \in 1..Len(MessagesOf(n)) : MessagesOf(n)[m] = MessagesFor(n, a)[k]
    <3>1. PICK j \in 1..N : Admins[j] = a
      BY <1>1
    <3>2. q[j] = MessagesFor(n, a)
      BY <3>1 DEF q
    <3> QED BY <2>3, <2>4, <3>2 DEF Gathered
  <2> QED BY <1>3, <2>5, <2>6 DEF GoodRows, Serves
<1> QED BY <1>6, <1>7

\* Whether a row is kept depends on its id.
LEMMA KeptSame ==
  ASSUME NEW r, NEW q, MessageID(r) = MessageID(q)
  PROVE  Kept(r) <=> Kept(q)
<1>1. r.to = q.to
  BY DEF MessageID
<1> QED BY <1>1 DEF Kept

\* What the payee tells the admins is kept, and so is what was kept before.
LEMMA Posted ==
  ASSUME Mail, NEW n, n.fmt \in {"plain", "packed"}, n.prop \in Proposals, UNCHANGED worker,
         \/ messages' = messages \o MessagesOf(n) /\ inbox' = inbox
         \/ /\ inbox' = [a \in Recipients |-> inbox[a] \o MessagesFor(n, a)]
            /\ messages' = messages
  PROVE  /\ Mail'
         /\ \A row : row.to \in Staff /\ Kept(row) => Kept(row)'
         /\ n.kind # "created" => \A a \in Staff : Kept(BuildMessage(n.kind, n, a))'
<1> DEFINE Goal == /\ Mail'
                   /\ \A row : row.to \in Staff /\ Kept(row) => Kept(row)'
                   /\ n.kind # "created" => \A a \in Staff : Kept(BuildMessage(n.kind, n, a))'
           new == MessagesOf(n)
<1>0. Recipients = Staff /\ UNCHANGED <<phase, picked, dropped>>
  BY CouncilAssumption DEF worker
<1>1. GoodRows(messages) /\ Len(messages) \in Nat /\ DOMAIN messages = 1..Len(messages)
  BY GoodRowAt DEF Mail
<1>2. \A a \in Staff : BuildMessage(n.kind, n, a).to = a
  BY DEF BuildMessage
<1>3. ASSUME messages' = messages \o new, inbox' = inbox PROVE Goal
  <2>1. GoodRows(new) /\ Serves(new, n)
    BY RowsOf
  <2> HIDE DEF new
  <2>2. /\ GoodRows(messages')
        /\ \A k \in 1..Len(messages) : k \in 1..Len(messages') /\ messages'[k] = messages[k]
        /\ \A k \in 1..Len(new) : k + Len(messages) \in 1..Len(messages')
                                  /\ messages'[k + Len(messages)] = new[k]
    <3>1. LET t == messages \o new
          IN  /\ GoodRows(t)
              /\ \A k \in 1..Len(messages) : k \in 1..Len(t) /\ t[k] = messages[k]
              /\ \A k \in 1..Len(new) : k + Len(messages) \in 1..Len(t)
                                        /\ t[k + Len(messages)] = new[k]
      BY ONLY <1>1, <2>1, RowsAppended
    <3> QED BY ONLY <1>3, <3>1
  <2>3. DOMAIN messages' = 1..Len(messages')
    BY <2>2, GoodRowAt
  <2>4. Mail'
    BY <1>0, <1>3, <2>2 DEF Mail, Out
  <2>5. \A row : row.to \in Staff /\ Kept(row) => Kept(row)'
    BY <1>0, <1>1, <1>3, <2>2, <2>3 DEF Kept
  <2>6. ASSUME n.kind # "created", NEW a \in Staff PROVE Kept(BuildMessage(n.kind, n, a))'
    <3>1. PICK m \in 1..Len(new) : new[m] = BuildMessage(n.kind, n, a)
      BY <2>1, <2>6, RowsFor DEF Serves
    <3>2. m + Len(messages) \in DOMAIN messages'
          /\ messages'[m + Len(messages)] = BuildMessage(n.kind, n, a)
      BY <2>2, <2>3, <3>1
    <3> QED BY <3>2 DEF Kept
  <2> QED BY <2>4, <2>5, <2>6
<1>4. ASSUME inbox' = [a \in Recipients |-> inbox[a] \o MessagesFor(n, a)],
             messages' = messages
      PROVE  Goal
  <2>1. ASSUME NEW a \in Staff
        PROVE  /\ GoodRows(inbox'[a]) /\ Shown(inbox[a]) \subseteq Shown(inbox'[a])
               /\ \A k \in 1..Len(MessagesFor(n, a)) :
                    MessageID(MessagesFor(n, a)[k]) \in Shown(inbox'[a])
    <3> DEFINE b == inbox[a]
               t == MessagesFor(n, a)
    <3>1. inbox'[a] = b \o t
      BY <1>0, <1>4
    <3>2. GoodRows(b) /\ GoodRows(t)
      BY RowsFor DEF Mail
    <3> HIDE DEF b, t
    <3>3. /\ GoodRows(b \o t)
          /\ \A k \in 1..Len(b) : k \in 1..Len(b \o t) /\ (b \o t)[k] = b[k]
          /\ \A k \in 1..Len(t) : k + Len(b) \in 1..Len(b \o t) /\ (b \o t)[k + Len(b)] = t[k]
      BY <3>2, RowsAppended
    <3> DEFINE c == b \o t
    <3>4. DOMAIN b = 1..Len(b) /\ DOMAIN t = 1..Len(t) /\ DOMAIN c = 1..Len(c)
      BY <3>2, <3>3, GoodRowAt
    <3>5. /\ \A k \in DOMAIN b : k \in DOMAIN c /\ c[k] = b[k]
          /\ \A k \in 1..Len(t) : k + Len(b) \in DOMAIN c /\ c[k + Len(b)] = t[k]
      BY <3>3, <3>4
    <3> HIDE DEF c
    <3>6. Shown(b) \subseteq Shown(c)
      BY <3>5 DEF Shown
    <3>7. ASSUME NEW k \in 1..Len(t) PROVE MessageID(t[k]) \in Shown(c)
      BY <3>5 DEF Shown
    <3> QED BY <3>1, <3>3, <3>6, <3>7 DEF b, c, t
  <2>2. Mail'
    BY <1>0, <1>1, <1>4, <2>1, GoodRowAt DEF Mail, Out, GoodRow
  <2>3. \A row : row.to \in Staff /\ Kept(row) => Kept(row)'
    BY <1>0, <1>4, <2>1 DEF Kept
  <2>4. ASSUME n.kind # "created", NEW a \in Staff PROVE Kept(BuildMessage(n.kind, n, a))'
    <3>1. Len(MessagesFor(n, a)) = 1 /\ MessagesFor(n, a)[1] = BuildMessage(n.kind, n, a)
      BY <2>4, RowsFor
    <3>2. MessageID(BuildMessage(n.kind, n, a)) \in Shown(inbox'[a])
      BY <2>1, <3>1
    <3> QED BY <1>2, <3>2 DEF Kept
  <2> QED BY <2>2, <2>3, <2>4
<1> QED BY <1>3, <1>4

(***************************************************************************)
(* The order of the statements of a vote                                   *)
(***************************************************************************)

\* A statement that tells the admins of a vote, or of the passing, of p.
Tells(w, kind, p, u) ==
  w.t = "notify" /\ w.data.kind = kind /\ w.data.prop = p /\ (kind = "approved" => w.data.by = u)

\* Statements that leave the votes of every proposal alone.
Quiet(q) == \E S : q \in Seq(S) /\ \A w \in S : w.t # "proposal"

\* Votes that are not in the tables yet, and the passing, are told of before they
\* are written.
Led(q, s) ==
  /\ \E S : q \in Seq(S)
  /\ \A k \in 1..Len(q) : q[k].t = "proposal" =>
       /\ \A u \in q[k].data.votes :
            \/ u \in s.proposal[q[k].key].votes
            \/ \E j \in 1..k-1 : Tells(q[j], "approved", q[k].key, u)
       /\ q[k].data.passed => \E j \in 1..k-1 : Tells(q[j], "passed", q[k].key, "")

\* No votes, nothing to tell.
LEMMA QuietLed == ASSUME NEW q, NEW s, Quiet(q) PROVE Led(q, s)
<1>1. PICK S : q \in Seq(S) /\ \A w \in S : w.t # "proposal"
  BY DEF Quiet
<1>2. \A k \in 1..Len(q) : q[k].t # "proposal"
  BY <1>1
<1> QED BY <1>1, <1>2 DEF Led

\* Short quiet plans, and quiet plans one after the other.
LEMMA QuietPlans ==
  /\ Quiet(<<>>)
  /\ \A w : w.t # "proposal" => Quiet(<<w>>)
  /\ \A p, q : Quiet(p) /\ Quiet(q) => Quiet(p \o q)
<1>1. Quiet(<<>>)
  <2> DEFINE S == {}
  <2>1. <<>> \in Seq(S) /\ \A w \in S : w.t # "proposal"
    OBVIOUS
  <2> HIDE DEF S
  <2> QED BY <2>1 DEF Quiet
<1>2. ASSUME NEW w, w.t # "proposal" PROVE Quiet(<<w>>)
  <2> DEFINE S == {w}
  <2>1. <<w>> \in Seq(S) /\ \A x \in S : x.t # "proposal"
    BY <1>2
  <2> HIDE DEF S
  <2> QED BY <2>1 DEF Quiet
<1>3. ASSUME NEW p, NEW q, Quiet(p), Quiet(q) PROVE Quiet(p \o q)
  <2>1. PICK S : p \in Seq(S) /\ \A w \in S : w.t # "proposal"
    BY <1>3 DEF Quiet
  <2>2. PICK T : q \in Seq(T) /\ \A w \in T : w.t # "proposal"
    BY <1>3 DEF Quiet
  <2> DEFINE V == S \cup T
  <2>3. p \in Seq(V) /\ q \in Seq(V) /\ \A w \in V : w.t # "proposal"
    BY <2>1, <2>2
  <2> HIDE DEF V
  <2>4. p \o q \in Seq(V)
    BY <2>3
  <2> QED BY <2>3, <2>4 DEF Quiet
<1> QED BY <1>1, <1>2, <1>3

\* What a passed proposal executes leaves the votes alone.
LEMMA QuietPassed ==
  ASSUME NEW s, NEW v, NEW o, NEW p, NEW c
  PROVE  Quiet(HandlePassedProposal(s, v, o, p, c))
<1>1. \A a, m, id : UpdateMarket(s, a, m, id).t # "proposal"
  BY DEF UpdateMarket, Update, Nop
<1>2. \A w, x : w.t # "proposal" /\ x.t # "proposal" => Quiet(<<w, x>>)
  <2> SUFFICES ASSUME NEW w, NEW x, w.t # "proposal", x.t # "proposal" PROVE Quiet(<<w, x>>)
    OBVIOUS
  <2> DEFINE S == {w, x}
  <2>1. <<w, x>> \in Seq(S) /\ \A y \in S : y.t # "proposal"
    OBVIOUS
  <2> HIDE DEF S
  <2> QED BY <2>1 DEF Quiet
<1>3. Quiet(HandleMarketEvent(s, o, c))
  <2>1. \A a, m, id : CreateMarket(a, m, id).t # "proposal"
    BY DEF CreateMarket
  <2>2. Quiet(<<Halt>>)
    BY QuietPlans DEF Halt
  <2> QED BY <1>1, <2>1, <2>2, QuietPlans DEF HandleMarketEvent
<1>4. Quiet(HandleWithdraw(s, o, p, c))
  <2>1. \A x : InsertTransfer(x).t # "proposal"
    BY DEF InsertTransfer
  <2> QED BY <1>1, <1>2, <2>1, QuietPlans DEF HandleWithdraw
<1>5. Quiet(HandleMarketStatus(s, o, c))
  BY <1>1, QuietPlans DEF HandleMarketStatus
<1>6. Quiet(HandleOracleSigner(s, c))
  <2>1. \A x : SaveSigners(x).t # "proposal"
    BY DEF SaveSigners
  <2> QED BY <2>1, QuietPlans DEF HandleOracleSigner
<1>7. Quiet(SetProperty(s, v, c))
  <2>1. Quiet(MigrateSystem(s, v))
    <3>1. PICK S : MigrateSystem(s, v) \in Seq(S) /\ \A w \in S : \E us : w = MigrateToV1(us)
      BY Pages
    <3>2. \A us : MigrateToV1(us).t # "proposal"
      BY DEF MigrateToV1
    <3> QED BY <3>1, <3>2 DEF Quiet
  <2>2. Quiet(<<SaveProperty(c.key, c.value)>>)
    <3>1. SaveProperty(c.key, c.value).t # "proposal"
      BY DEF SaveProperty
    <3> QED BY <3>1, QuietPlans
  <2>3. Quiet(<<Halt>>)
    BY QuietPlans DEF Halt
  <2>4. Quiet((IF c.key = "sysversion" THEN MigrateSystem(s, v) ELSE <<>>)
                \o <<SaveProperty(c.key, c.value)>>)
    BY <2>1, <2>2, QuietPlans
  <2> QED BY <2>3, <2>4, QuietPlans DEF SetProperty
<1> QED BY <1>3, <1>4, <1>5, <1>6, <1>7, QuietPlans DEF HandlePassedProposal

\* The statements G, of which U is the n-th, A the first and P, if the proposal
\* passes, the second; the others are of S.
Ordered(G, n, A, P, U, passed, S) ==
  /\ \E W : G \in Seq(W)
  /\ G[1] = A /\ G[n] = U /\ n \in {2, 3} /\ (passed => n = 3 /\ G[2] = P)
  /\ \A k \in 1..Len(G) : G[k] \in {A, P} \/ k = n \/ G[k] \in S

\* The statements of a vote in their order: A tells of the vote, P of the passing,
\* if it passes, and U writes it.
LEMMA InOrder ==
  ASSUME NEW A, NEW P, NEW U, NEW passed \in BOOLEAN, NEW S, NEW execute \in Seq(S),
         NEW M, M = IF passed THEN <<A, P, U>> ELSE <<A, U>>, NEW G, G = M \o execute
  PROVE  Ordered(G, Len(M), A, P, U, passed, S)
<1> DEFINE W == S \cup {A, P, U}
<1>1. /\ M \in Seq(W) /\ execute \in Seq(W) /\ Len(M) \in {2, 3}
      /\ M[1] = A /\ M[Len(M)] = U /\ (passed => Len(M) = 3 /\ M[2] = P)
      /\ (Len(M) = 3 => M[2] = P)
  <2>1. A \in W /\ P \in W /\ U \in W /\ S \subseteq W
    OBVIOUS
  <2> HIDE DEF W
  <2>2. execute \in Seq(W)
    BY <2>1
  <2>3. CASE passed
    <3>1. M = <<A, P, U>>
      BY <2>3
    <3> QED BY <2>1, <2>2, <2>3, <3>1
  <2>4. CASE ~passed
    <3>1. M = <<A, U>>
      BY <2>4
    <3> QED BY <2>1, <2>2, <2>4, <3>1
  <2> QED BY <2>3, <2>4
<1> HIDE DEF W
<1>2. /\ M \o execute \in Seq(W) /\ Len(M \o execute) = Len(M) + Len(execute)
      /\ \A k \in 1..Len(M) : (M \o execute)[k] = M[k]
      /\ \A k \in 1..Len(execute) : (M \o execute)[k + Len(M)] = execute[k]
  BY <1>1, InTurn
<1>3. /\ G \in Seq(W) /\ Len(G) = Len(M) + Len(execute)
      /\ \A k \in 1..Len(M) : G[k] = M[k]
      /\ \A k \in 1..Len(execute) : G[k + Len(M)] = execute[k]
  BY <1>2
<1>4. Len(M) \in {2, 3} /\ M[1] = A /\ M[Len(M)] = U /\ (Len(M) = 3 => M[2] = P)
  BY <1>1
<1>5. G[1] = A /\ G[Len(M)] = U /\ (passed => Len(M) = 3 /\ G[2] = P)
  <2>1. 1 \in 1..Len(M) /\ 2 \in 1..Len(M) /\ Len(M) \in 1..Len(M)
    BY <1>4
  <2> QED BY <1>1, <1>3, <1>4, <2>1
<1>6. ASSUME NEW k \in 1..Len(G) PROVE G[k] \in {A, P} \/ k = Len(M) \/ G[k] \in S
  <2>1. Len(M) \in Nat /\ Len(execute) \in Nat /\ k \in 1..Len(M) + Len(execute)
    BY <1>3, <1>4
  <2>2. CASE k <= Len(M)
    <3>1. k \in 1..Len(M) /\ (k = 1 \/ (k = 2 /\ Len(M) = 3) \/ k = Len(M))
      BY <1>4, <2>1, <2>2
    <3>2. G[k] = M[k]
      BY <1>3, <3>1
    <3> QED BY <1>4, <3>1, <3>2
  <2>3. CASE ~(k <= Len(M))
    <3>1. k - Len(M) \in 1..Len(execute) /\ (k - Len(M)) + Len(M) = k
      BY <2>1, <2>3
    <3>2. G[k] = execute[k - Len(M)] /\ execute[k - Len(M)] \in S
      BY <1>3, <3>1
    <3> QED BY <3>2
  <2> QED BY <2>2, <2>3
<1> QED BY <1>3, <1>4, <1>5, <1>6 DEF Ordered

\* One more statement at the end.
LEMMA PutLast ==
  ASSUME NEW V, NEW s \in Seq(V), NEW c \in V
  PROVE  /\ s \o <<c>> \in Seq(V) /\ Len(s \o <<c>>) = Len(s) + 1
         /\ \A k \in 1..Len(s) : (s \o <<c>>)[k] = s[k]
         /\ (s \o <<c>>)[Len(s) + 1] = c
<1>1. s \o <<c>> \in Seq(V) /\ Len(s \o <<c>>) = Len(s) + 1
  OBVIOUS
<1>2. ASSUME NEW k \in 1..Len(s) PROVE (s \o <<c>>)[k] = s[k]
  OBVIOUS
<1>3. (s \o <<c>>)[Len(s) + 1] = c
  <2>1. <<c>> \in Seq(V) /\ Len(<<c>>) = 1 /\ <<c>>[1] = c /\ Len(s) \in Nat
    OBVIOUS
  <2>2. 1 \in 1..Len(<<c>>) /\ 1 + Len(s) = Len(s) + 1
    BY <2>1
  <2>3. (s \o <<c>>)[1 + Len(s)] = <<c>>[1]
    BY <2>1, <2>2, InTurn
  <2> QED BY <2>1, <2>2, <2>3
<1> QED BY <1>1, <1>2, <1>3

\* Statements put together one by one.
LEMMA OneByOne ==
  ASSUME NEW A, NEW P, NEW U
  PROVE  /\ (<<A>> \o <<P>>) \o <<U>> = <<A, P, U>>
         /\ (<<A>> \o <<>>) \o <<U>> = <<A, U>>
<1> DEFINE V == {A, P, U}
<1>1. A \in V /\ P \in V /\ U \in V
  OBVIOUS
<1> HIDE DEF V
<1>2. <<A>> \in Seq(V) /\ Len(<<A>>) = 1 /\ <<A>>[1] = A
  BY <1>1
<1> DEFINE a == <<A>>
           b == a \o <<P>>
<1> HIDE DEF a
<1>3. b \in Seq(V) /\ Len(b) = 2 /\ b[1] = A /\ b[2] = P
  <2>1. a \in Seq(V) /\ Len(a) = 1 /\ a[1] = A
    BY <1>2 DEF a
  <2>2. /\ a \o <<P>> \in Seq(V) /\ Len(a \o <<P>>) = Len(a) + 1
        /\ \A k \in 1..Len(a) : (a \o <<P>>)[k] = a[k]
        /\ (a \o <<P>>)[Len(a) + 1] = P
    BY <1>1, <2>1, PutLast
  <2> QED BY <2>1, <2>2
<1> HIDE DEF b
<1>4. b \o <<U>> = <<A, P, U>>
  <2> DEFINE t == b \o <<U>>
  <2>1. /\ b \o <<U>> \in Seq(V) /\ Len(b \o <<U>>) = Len(b) + 1
        /\ \A k \in 1..Len(b) : (b \o <<U>>)[k] = b[k]
        /\ (b \o <<U>>)[Len(b) + 1] = U
    BY <1>1, <1>3, PutLast
  <2>2. t \in Seq(V) /\ Len(t) = 3 /\ t[1] = A /\ t[2] = P /\ t[3] = U
    BY <1>3, <2>1
  <2> HIDE DEF t
  <2>3. t = <<A, P, U>>
    BY <2>2
  <2> QED BY <2>3 DEF t
<1>5. (<<A>> \o <<>>) \o <<U>> = <<A, U>>
  <2>1. a \in Seq(V) /\ Len(a) = 1 /\ a[1] = A
    BY <1>2 DEF a
  <2>2. a \o <<>> = a
    BY <2>1
  <2> DEFINE t == a \o <<U>>
  <2>3. /\ a \o <<U>> \in Seq(V) /\ Len(a \o <<U>>) = Len(a) + 1
        /\ \A k \in 1..Len(a) : (a \o <<U>>)[k] = a[k]
        /\ (a \o <<U>>)[Len(a) + 1] = U
    BY <1>1, <2>1, PutLast
  <2>4. t \in Seq(V) /\ Len(t) = 2 /\ t[1] = A /\ t[2] = U
    BY <2>1, <2>3
  <2> HIDE DEF t
  <2>5. t = <<A, U>>
    BY <2>4
  <2> QED BY <2>2, <2>5 DEF t, a
<1> QED BY <1>4, <1>5 DEF a, b

\* The vote and the passing are told before the vote is written: CountVote.
LEMMA CountLed ==
  ASSUME NEW s, TablesShape(s), NEW v, NEW o, NEW p \in Proposals
  PROVE  Led(CountVote(s, v, o, p), s)
<1> DEFINE row == s.proposal[p]
           voted == Voted(row, o)
           A == ProposalApproved(p, Voter(o), v)
           P == ProposalPassed(p, v)
           U == UpdateProposal(s, p, voted, o.id)
           execute == IF voted.passed THEN HandlePassedProposal(s, v, o, p, voted.content)
                                      ELSE <<>>
           M == IF voted.passed THEN <<A, P, U>> ELSE <<A, U>>
           G == M \o execute
<1>1. voted.passed \in BOOLEAN /\ \A u \in voted.votes : u \in row.votes \/ u = Voter(o)
  BY DEF Voted, TablesShape
<1>2. PICK S : execute \in Seq(S) /\ \A w \in S : w.t # "proposal"
  BY QuietPassed, QuietPlans DEF Quiet
<1>3. /\ A.t = "notify" /\ Tells(A, "approved", p, Voter(o))
      /\ P.t = "notify" /\ Tells(P, "passed", p, "")
      /\ U.t = "proposal" /\ U.key = p /\ U.data = voted
  BY DEF ProposalApproved, ProposalPassed, Notify, Tells, UpdateProposal
<1>4. CountVote(s, v, o, p) = G
  <2>1. CountVote(s, v, o, p)
          = ((<<A>> \o (IF voted.passed THEN <<P>> ELSE <<>>)) \o <<U>>) \o execute
    BY DEF CountVote
  <2> HIDE DEF A, P, U, voted, execute
  <2> QED BY <2>1, OneByOne
<1> HIDE DEF A, P, U, voted, row, execute
<1>5. /\ \E W : G \in Seq(W)
      /\ G[1] = A /\ G[Len(M)] = U /\ Len(M) \in {2, 3}
      /\ voted.passed => Len(M) = 3 /\ G[2] = P
      /\ \A k \in 1..Len(G) : G[k] \in {A, P} \/ k = Len(M) \/ G[k] \in S
  <2> DEFINE passed == voted.passed
  <2>1. M = (IF passed THEN <<A, P, U>> ELSE <<A, U>>) /\ G = M \o execute
    OBVIOUS
  <2>2. passed \in BOOLEAN /\ execute \in Seq(S)
    BY <1>1, <1>2
  <2> HIDE DEF M, G, passed
  <2>3. Ordered(G, Len(M), A, P, U, passed, S)
    BY ONLY <2>1, <2>2, InOrder
  <2> QED BY ONLY <2>3 DEF Ordered, passed
<1> HIDE DEF G, M
<1>6. ASSUME NEW k \in 1..Len(G), G[k].t = "proposal"
      PROVE  /\ \A u \in G[k].data.votes :
                  \/ u \in s.proposal[G[k].key].votes
                  \/ \E j \in 1..k-1 : Tells(G[j], "approved", G[k].key, u)
             /\ G[k].data.passed => \E j \in 1..k-1 : Tells(G[j], "passed", G[k].key, "")
  <2>1. k = Len(M) /\ G[k] = U
    BY <1>2, <1>3, <1>5, <1>6
  <2>2. 1 \in 1..k-1 /\ (voted.passed => 2 \in 1..k-1)
    BY <1>5, <2>1
  <2> QED BY <1>1, <1>3, <1>5, <2>1, <2>2 DEF row
<1> QED BY <1>4, <1>5, <1>6 DEF Led

\* Whatever an output asks for, votes are told before they are written.
LEMMA OutputLed ==
  ASSUME NEW s, NEW old, NEW o, Reads(s, old, o), NEW v, Unvoted(s, o), TypedOutput(o)
  PROVE  Led(HandleOutput(s, v, o), s)
<1>1. ASSUME o.act # "vote" PROVE Quiet(HandleOutput(s, v, o))
  <2>1. SoundPlan(HandleOutput(s, v, o), old, o)
    BY OutputPlan
  <2>2. PICK S : HandleOutput(s, v, o) \in Seq(S) /\ \A w \in S : Sound(w, old, o)
    BY <2>1 DEF SoundPlan
  <2>3. \A w \in S : w.t # "proposal"
    BY <1>1, <2>2 DEF Sound
  <2> QED BY <2>2, <2>3 DEF Quiet
<1>2. ASSUME o.act = "vote" PROVE Led(HandleOutput(s, v, o), s)
  <2> DEFINE p == o.prop
  <2>1. TablesShape(s) /\ p \in Proposals
    BY <1>2 DEF Reads, TypedOutput
  <2>2. Led(<<>>, s) /\ Led(<<Halt>>, s)
    BY QuietPlans, QuietLed DEF Halt
  <2>3. Led(CountVote(s, v, o, p), s)
    BY <2>1, CountLed
  <2>4. \A c : Led(HandlePassedProposal(s, v, o, p, c), s)
    BY QuietPassed, QuietLed
  <2>5. Led(HandleVoteProposalV0(s, v, o), s)
    BY <2>2, <2>3, <2>4 DEF HandleVoteProposalV0
  <2>6. Led(HandleVoteProposal(s, v, o), s)
    <3>1. Led(<<ForwardProposal(v, o, p, "vote")>>, s)
      <4>1. ForwardProposal(v, o, p, "vote").t # "proposal"
        BY DEF ForwardProposal, Forward
      <4> QED BY <4>1, QuietPlans, QuietLed
    <3> QED BY <2>2, <2>3, <2>4, <3>1 DEF HandleVoteProposal
  <2>7. Led(HandleUnknown(s, o), s)
    <3>1. Quiet(<<EnsureUser(s, o)>>)
      <4>1. Nop.t # "proposal" /\ CreateUser(o.sender).t # "proposal"
        BY DEF Nop, CreateUser
      <4> QED BY <4>1, QuietPlans DEF EnsureUser
    <3>2. Quiet(<<RefundV0(o)>>)
      <4>1. RefundV0(o).t # "proposal"
        BY DEF RefundV0, Transfer, InsertTransfer, Nop
      <4> QED BY <4>1, QuietPlans
    <3>3. HandleUnknown(s, o) = <<EnsureUser(s, o)>> \o <<RefundV0(o)>>
      BY DEF HandleUnknown
    <3> QED BY <3>1, <3>2, <3>3, QuietPlans, QuietLed
  <2>8. ~IsPrice(s, v, o)
    BY <1>2 DEF IsPrice
  <2>9. Led(HandleProposalActionV0(s, v, o), s) /\ Led(Dispatch(s, v, o), s)
    BY <1>2, <2>5, <2>6 DEF HandleProposalActionV0, Dispatch
  <2> QED BY <2>2, <2>7, <2>8, <2>9 DEF HandleOutput
<1> QED BY <1>1, <1>2, QuietLed

(***************************************************************************)
(* What is decided is told                                                 *)
(***************************************************************************)

\* Every admin has the row, or it is on its way.
Heard(kind, p, u) == \A a \in Staff : Kept(BuildMessage(kind, Note(kind, p, u), a))

DecidedIn(s) ==
  \A p \in Proposals : /\ \A u \in s.proposal[p].votes : Heard("approved", p, u)
                       /\ s.proposal[p].passed => Heard("passed", p, "")

\* A decision still to be written was told of, or is yet to be in the attempt.
Awaits(kind, p, u, k) == \/ Heard(kind, p, u)
                         \/ \E j \in pc+1..k-1 : Tells(plan[j], kind, p, u)

Pending ==
  busy => \A k \in pc+1..Len(plan) : plan[k].t = "proposal" /\ plan[k].key \in Proposals =>
            /\ \A u \in plan[k].data.votes : Awaits("approved", plan[k].key, u, k)
            /\ plan[k].data.passed => Awaits("passed", plan[k].key, "", k)

\* The output that makes a proposal names one.
Traces == \A k \in 1..Len(outputs) : outputs[k].act = "make" => k \in Proposals

PaidGood ==
  \A x \in paid : \E fmt \in {"plain", "packed"}, act \in {"vote", "shout"}, p \in Proposals :
    x.memo = ProposalMemo(fmt, act, p)

CouncilInv ==
  /\ IInv /\ Mail
  /\ DecidedIn(db) /\ DecidedIn(settled) /\ Pending
  /\ pc \in Nat /\ Traces /\ PaidGood

Keeps == \A row : row.to \in Staff /\ Kept(row) => Kept(row)'

\* What was heard stays heard.
LEMMA StaysHeard ==
  ASSUME Keeps, NEW kind, NEW p, NEW u, Heard(kind, p, u)
  PROVE  Heard(kind, p, u)'
<1>1. \A a : BuildMessage(kind, Note(kind, p, u), a).to = a
  BY DEF BuildMessage
<1> QED BY <1>1 DEF Heard, Keeps

\* A step that writes no vote forgets none.
LEMMA StillDecided ==
  ASSUME Keeps, DecidedIn(db), DecidedIn(settled), db' = db, settled' \in {db, settled}
  PROVE  DecidedIn(db)' /\ DecidedIn(settled)'
BY StaysHeard DEF DecidedIn

LEMMA StillPending ==
  ASSUME Keeps, Pending, busy' => busy /\ plan' = plan /\ pc' = pc
  PROVE  Pending'
<1> SUFFICES ASSUME busy' PROVE Pending'
  BY DEF Pending
<1>1. busy /\ plan' = plan /\ pc' = pc
  OBVIOUS
<1>2. \A kind, p, u, k : Awaits(kind, p, u, k) => Awaits(kind, p, u, k)'
  BY <1>1, StaysHeard DEF Awaits
<1> QED BY <1>1, <1>2 DEF Pending

\* What a statement does to the proposals.
LEMMA ProposalsAfter ==
  ASSUME NEW s, TablesShape(s), NEW w, NEW q \in Proposals
  PROVE  \/ Apply(s, w).proposal[q] = s.proposal[q]
         \/ /\ w.t \in {"proposal", "newproposal"} /\ w.key = q
            /\ Apply(s, w).proposal[q] = w.data
<1>1. {"proposal", "ver"} \subseteq DOMAIN s /\ DOMAIN s.proposal = Proposals
  BY DEF TablesShape, Tables
<1>2. CASE w.t \in {"proposal", "newproposal"}
  <2>1. \/ Apply(s, w) = s
        \/ \E id : Apply(s, w) = [s EXCEPT !.proposal[w.key] = w.data,
                                           !.ver[<<"proposal", w.key>>] = id]
    BY <1>2 DEF Apply
  <2> QED BY <1>1, <1>2, <2>1
<1>3. CASE w.t \notin {"proposal", "newproposal"}
  <2>1. Apply(s, w).proposal = s.proposal
    BY <1>1, <1>3 DEF Apply
  <2> QED BY <2>1
<1> QED BY <1>2, <1>3

\* A committed statement tells of a decision, or writes one that was told of.
LEMMA CommitDecides ==
  ASSUME CouncilInv, NEW k \in 1..Len(plan), busy, IsNext(k), Commit(k), Keeps,
         NEW n, plan[k].t = "notify" => n = plan[k].data,
         plan[k].t = "notify" /\ n.kind # "created"
           => \A a \in Staff : Kept(BuildMessage(n.kind, n, a))'
  PROVE  DecidedIn(db)' /\ DecidedIn(settled)' /\ Pending'
<1>1. PICK S : plan \in Seq(S) /\ \A w \in S : Sound(w, settled, Current)
  BY DEF CouncilInv, IInv, PlanInv, SoundPlan
<1>2. /\ pc \in Nat /\ Len(plan) \in Nat /\ k \in pc+1..Len(plan)
      /\ \A j \in pc+1..k-1 : plan[j].t = "nop"
  BY <1>1 DEF CouncilInv, IsNext, Nop
<1>3. /\ UNCHANGED <<busy, plan, settled>> /\ pc' = k /\ db' = Apply(db, plan[k])
  BY DEF Commit
<1>4. ASSUME NEW kind \in {"approved", "passed"}, NEW p, NEW u, kind = "passed" => u = "",
             Tells(plan[k], kind, p, u)
      PROVE  Heard(kind, p, u)'
  <2>1. plan[k].t = "notify" /\ n.kind = kind /\ n.prop = p /\ (kind = "approved" => n.by = u)
    BY <1>4 DEF Tells
  <2>2. ASSUME NEW a \in Staff PROVE Kept(BuildMessage(kind, Note(kind, p, u), a))'
    <3> DEFINE r == BuildMessage(kind, n, a)
               q == BuildMessage(kind, Note(kind, p, u), a)
    <3>1. Kept(r)'
      BY <2>1
    <3>2. r.to = q.to /\ MessageID(r) = MessageID(q)
      BY <2>1 DEF BuildMessage, MessageID, Note
    <3> HIDE DEF r, q
    <3>3. Kept(q)'
      BY <3>1, <3>2 DEF Kept
    <3> QED BY <3>3 DEF q
  <2> QED BY <2>2 DEF Heard
<1>5. ASSUME NEW kind \in {"approved", "passed"}, NEW p, NEW u, kind = "passed" => u = "",
             NEW m \in k+1..Len(plan), Awaits(kind, p, u, m)
      PROVE  Awaits(kind, p, u, m)'
  <2>1. CASE Heard(kind, p, u)
    BY <2>1, StaysHeard DEF Awaits
  <2>2. CASE ~Heard(kind, p, u)
    <3>1. PICK j \in pc+1..m-1 : Tells(plan[j], kind, p, u)
      BY <1>5, <2>2 DEF Awaits
    <3>2. ~(j \in pc+1..k-1)
      BY <1>2, <3>1 DEF Tells
    <3>3. j = k \/ j \in k+1..m-1
      BY <1>2, <3>1, <3>2
    <3>4. CASE j = k
      BY <1>4, <1>5, <3>1, <3>4 DEF Awaits
    <3>5. CASE j \in k+1..m-1
      BY <1>3, <3>1, <3>5 DEF Awaits
    <3> QED BY <3>3, <3>4, <3>5
  <2> QED BY <2>1, <2>2
<1>6. Pending'
  <2> SUFFICES ASSUME NEW m \in k+1..Len(plan), NEW p \in Proposals,
                      plan[m].t = "proposal", plan[m].key = p
               PROVE  /\ \A u \in plan[m].data.votes : Awaits("approved", p, u, m)'
                      /\ plan[m].data.passed => Awaits("passed", p, "", m)'
    BY <1>3 DEF Pending
  <2>1. m \in pc+1..Len(plan)
    BY <1>2
  <2>2. /\ \A u \in plan[m].data.votes : Awaits("approved", p, u, m)
        /\ plan[m].data.passed => Awaits("passed", p, "", m)
    BY <2>1 DEF CouncilInv, Pending
  <2>3. \A u \in plan[m].data.votes : Awaits("approved", p, u, m)'
    BY <1>5, <2>2
  <2>4. plan[m].data.passed => Awaits("passed", p, "", m)'
    BY <1>5, <2>2
  <2> QED BY <2>3, <2>4
<1>7. ASSUME plan[k].t = "proposal", plan[k].key \in Proposals
      PROVE  /\ \A u \in plan[k].data.votes : Heard("approved", plan[k].key, u)
             /\ plan[k].data.passed => Heard("passed", plan[k].key, "")
  <2>1. \A kind, p, u : Awaits(kind, p, u, k) => Heard(kind, p, u)
    BY <1>2 DEF Awaits, Tells
  <2> QED BY <1>2, <1>7, <2>1 DEF CouncilInv, Pending
<1>8. plan[k].t = "newproposal" => plan[k].data.votes = {} /\ ~plan[k].data.passed
  <2>1. Sound(plan[k], settled, Current)
    BY <1>1
  <2>2. plan[k].t = "newproposal" => VotesCols(plan[k].data) /\ plan[k].data.votes = {}
    BY <2>1 DEF Sound
  <2>3. ~(Cardinality({}) >= Threshold)
    BY FS_EmptySet, GovernanceAssumption
  <2> QED BY <2>2, <2>3 DEF VotesCols, Counted
<1>9. TablesShape(db)
  BY DEF CouncilInv, IInv, TablesInv, During, Past, Control
<1>10. DecidedIn(db)'
  <2> SUFFICES ASSUME NEW p \in Proposals
               PROVE  /\ \A u \in db'.proposal[p].votes : Heard("approved", p, u)'
                      /\ db'.proposal[p].passed => Heard("passed", p, "")'
    BY DEF DecidedIn
  <2>1. /\ \A u \in db'.proposal[p].votes : Heard("approved", p, u)
        /\ db'.proposal[p].passed => Heard("passed", p, "")
    <3>1. CASE db'.proposal[p] = db.proposal[p]
      BY <3>1 DEF CouncilInv, DecidedIn
    <3>2. CASE /\ plan[k].t \in {"proposal", "newproposal"} /\ plan[k].key = p
               /\ db'.proposal[p] = plan[k].data
      BY <1>7, <1>8, <3>2
    <3>3. \/ Apply(db, plan[k]).proposal[p] = db.proposal[p]
          \/ /\ plan[k].t \in {"proposal", "newproposal"} /\ plan[k].key = p
             /\ Apply(db, plan[k]).proposal[p] = plan[k].data
      BY <1>9, ProposalsAfter
    <3> QED BY <1>3, <3>1, <3>2, <3>3
  <2> QED BY <2>1, StaysHeard
<1>11. DecidedIn(settled)'
  BY <1>3, StaysHeard DEF CouncilInv, DecidedIn
<1> QED BY <1>6, <1>10, <1>11

\* Outside a statement nothing is written or paid.
LEMMA NothingIssued ==
  ASSUME CouncilInv, Announce, HandleTransfer, UNCHANGED worker, Issued = Nop
  PROVE  Mail' /\ Keeps /\ PaidGood'
<1>1. UNCHANGED <<messages, inbox, paid>>
  BY DEF Announce, HandleTransfer, Nop
<1>2. UNCHANGED <<phase, picked, dropped>>
  BY DEF worker
<1>3. Mail'
  BY <1>1, <1>2 DEF CouncilInv, Mail, Out
<1>4. Keeps
  BY <1>1, <1>2 DEF Keeps, Kept
<1> QED BY <1>1, <1>3, <1>4 DEF CouncilInv, PaidGood

\* The payee, whatever its statements meet.
LEMMA PayeeDecides == ASSUME CouncilInv, PayeeWorks PROVE CouncilInv'
<1>1. Worker /\ Announce /\ HandleTransfer /\ UNCHANGED worker
  BY DEF PayeeWorks
<1>2. IInv'
  BY <1>1, WorkerInv DEF CouncilInv
<1>3. Traces'
  <2>1. outputs' = outputs
    BY <1>1 DEF Worker, LoadBatch, Handle, Execute, Commit, Abandon, SaveCheckpoint
  <2> QED BY <2>1 DEF CouncilInv, Traces
<1>4. pc \in Nat
  BY DEF CouncilInv
<1>5. ASSUME LoadBatch \/ Abandon \/ SaveCheckpoint PROVE CouncilInv'
  <2>1. /\ busy' => busy /\ plan' = plan /\ pc' = pc
        /\ ~(busy' /\ pc' > pc) /\ pc' \in Nat
        /\ db' = db /\ settled' \in {db, settled}
    BY <1>4, <1>5 DEF LoadBatch, Abandon, SaveCheckpoint
  <2>2. Mail' /\ Keeps /\ PaidGood'
    BY <1>1, <2>1, NothingIssued DEF Issued
  <2>3. DecidedIn(db)' /\ DecidedIn(settled)' /\ Pending'
    BY <2>1, <2>2, StillDecided, StillPending DEF CouncilInv
  <2> QED BY <1>2, <1>3, <2>1, <2>2, <2>3 DEF CouncilInv
<1>6. ASSUME Handle PROVE CouncilInv'
  <2>1. /\ pc' = 0 /\ plan' = HandleOutput(db, sysversion, Current)
        /\ UNCHANGED <<db, settled>> /\ checkpoint < batch
    BY <1>6 DEF Handle
  <2>2. Mail' /\ Keeps /\ PaidGood'
    <3>1. Issued = Nop
      BY <1>4, <2>1 DEF Issued
    <3> QED BY <1>1, <3>1, NothingIssued
  <2>3. DecidedIn(db)' /\ DecidedIn(settled)'
    BY <2>1, <2>2, StillDecided DEF CouncilInv
  <2>4. Led(plan', db)
    <3>1. checkpoint < Len(outputs) /\ IInv
      BY <2>1 DEF CouncilInv, IInv, Control
    <3>2. Reads(db, settled, Current) /\ Unvoted(db, Current) /\ TypedOutput(Current)
      BY <3>1, HandleReads
    <3> QED BY <2>1, <3>2, OutputLed
  <2>5. Pending'
    <3> DEFINE q == plan'
    <3>1. \A k \in 1..Len(q) : q[k].t = "proposal" =>
            /\ \A u \in q[k].data.votes :
                 \/ u \in db.proposal[q[k].key].votes
                 \/ \E j \in 1..k-1 : Tells(q[j], "approved", q[k].key, u)
            /\ q[k].data.passed => \E j \in 1..k-1 : Tells(q[j], "passed", q[k].key, "")
      BY <2>4 DEF Led
    <3> SUFFICES ASSUME NEW k \in pc'+1..Len(plan'), NEW p \in Proposals,
                        plan'[k].t = "proposal", plan'[k].key = p
                 PROVE  /\ \A u \in plan'[k].data.votes : Awaits("approved", p, u, k)'
                        /\ plan'[k].data.passed => Awaits("passed", p, "", k)'
      BY DEF Pending
    <3>0. k \in 1..Len(q) /\ q[k].t = "proposal" /\ q[k].key = p
      BY <2>1
    <3>2. \A kind, u : (\E j \in 1..k-1 : Tells(q[j], kind, p, u)) => Awaits(kind, p, u, k)'
      BY <2>1 DEF Awaits
    <3>3. \A u \in db.proposal[p].votes : Awaits("approved", p, u, k)'
      BY <2>2, StaysHeard DEF CouncilInv, DecidedIn, Awaits
    <3>4. /\ \A u \in q[k].data.votes : Awaits("approved", p, u, k)'
          /\ q[k].data.passed => Awaits("passed", p, "", k)'
      <4> HIDE DEF q
      <4> QED BY <3>0, <3>1, <3>2, <3>3
    <3> QED BY <3>4
  <2> QED BY <1>2, <1>3, <2>1, <2>2, <2>3, <2>5 DEF CouncilInv
<1>7. ASSUME busy, NEW k \in 1..Len(plan), IsNext(k), Commit(k) PROVE CouncilInv'
  <2> DEFINE w == plan[k]
  <2>1. /\ UNCHANGED <<busy, plan>> /\ pc' = k /\ k > pc /\ k \in Nat
        /\ Issued = w
    BY <1>4, <1>7 DEF Commit, IsNext, Issued
  <2>2. Sound(w, settled, Current)
    BY <1>7 DEF CouncilInv, IInv, PlanInv, SoundPlan
  <2>3. Current.act = "make" => Current.id \in Proposals
    <3>1. checkpoint + 1 \in 1..Len(outputs) /\ Current.id = checkpoint + 1
      BY <1>7 DEF CouncilInv, IInv, Control, Current
    <3> QED BY <3>1 DEF CouncilInv, Traces, Current
  <2>4. w.t \in {"notify", "forward"}
          => w.data.fmt \in {"plain", "packed"} /\ w.data.prop \in Proposals
    BY <2>2, <2>3 DEF Sound, Names
  <2>5. PICK n : n = w.data
    OBVIOUS
  <2>6. /\ Mail' /\ Keeps
        /\ w.t = "notify" /\ n.kind # "created"
             => \A a \in Staff : Kept(BuildMessage(n.kind, n, a))'
    <3>1. CASE w.t = "notify"
      <4>1. Issued.t = "notify" /\ Issued.data = n
        BY <2>1, <2>5, <3>1
      <4>2. \/ messages' = messages \o MessagesOf(n) /\ inbox' = inbox
            \/ /\ inbox' = [a \in Recipients |-> inbox[a] \o MessagesFor(n, a)]
               /\ messages' = messages
        BY <1>1, <4>1 DEF Announce, Create
      <4>3. /\ Mail' /\ (\A row : row.to \in Staff /\ Kept(row) => Kept(row)')
            /\ n.kind # "created" => \A a \in Staff : Kept(BuildMessage(n.kind, n, a))'
        <5>1. Mail /\ n.fmt \in {"plain", "packed"} /\ n.prop \in Proposals
          BY <2>4, <2>5, <3>1 DEF CouncilInv
        <5> QED BY <1>1, <4>2, <5>1, Posted
      <4> QED BY <4>3 DEF Keeps
    <3>2. CASE w.t # "notify"
      <4>1. UNCHANGED <<messages, inbox, phase, picked, dropped>>
        BY <1>1, <2>1, <3>2 DEF Announce, worker
      <4> QED BY <3>2, <4>1 DEF CouncilInv, Mail, Out, Keeps, Kept
    <3> QED BY <3>1, <3>2
  <2>7. DecidedIn(db)' /\ DecidedIn(settled)' /\ Pending'
    BY <1>7, <2>5, <2>6, CommitDecides
  <2>8. PaidGood'
    <3>1. CASE w.t = "forward" /\ ~InPrefix
      <4>1. n.act \in {"vote", "shout"} /\ n.fmt \in {"plain", "packed"} /\ n.prop \in Proposals
        BY <2>2, <2>4, <2>5, <3>1 DEF Sound
      <4>2. paid' = paid \cup {[trace |-> n.trace, act |-> n.act, prop |-> n.prop,
                                memo |-> ProposalMemo(n.fmt, n.act, n.prop)]}
        BY <1>1, <2>1, <2>5, <3>1 DEF HandleTransfer
      <4> QED BY <4>1, <4>2 DEF CouncilInv, PaidGood
    <3>2. CASE ~(w.t = "forward" /\ ~InPrefix)
      <4>1. paid' = paid
        BY <1>1, <2>1, <3>2 DEF HandleTransfer
      <4> QED BY <4>1 DEF CouncilInv, PaidGood
    <3> QED BY <3>1, <3>2
  <2> QED BY <1>2, <1>3, <2>1, <2>6, <2>7, <2>8 DEF CouncilInv
<1>8. ASSUME Execute PROVE CouncilInv'
  <2>1. busy /\ \E k \in 1..Len(plan) : IsNext(k) /\ (Commit(k) \/ Abandon)
    BY <1>8 DEF Execute
  <2> QED BY <1>5, <1>7, <2>1
<1> QED BY <1>1, <1>5, <1>6, <1>8 DEF Worker

\* A payment that arrives.
LEMMA ReceiptDecides ==
  ASSUME CouncilInv, NEW i, TypedOutput(i), Receive(i), UNCHANGED <<messengerVars, paid>>
  PROVE  CouncilInv'
<1>1. IInv' /\ db' = db
  BY ReceiveInv DEF CouncilInv
<1>2. /\ UNCHANGED <<busy, plan, pc, settled, messages, inbox, phase, picked, dropped, paid>>
      /\ ~busy
  BY DEF Receive, messengerVars, worker
<1>3. Mail' /\ Keeps /\ PaidGood'
  BY <1>2 DEF CouncilInv, Mail, Out, Keeps, Kept, PaidGood
<1>4. DecidedIn(db)' /\ DecidedIn(settled)' /\ Pending'
  BY <1>1, <1>2, <1>3, StillDecided, StillPending DEF CouncilInv
<1>5. Traces'
  <2> DEFINE x == [i EXCEPT !.id = Len(outputs) + 1,
                            !.time = i.time + outputs[Len(outputs)].time]
  <2>1. PICK S : outputs \in Seq(S)
    BY DEF CouncilInv, IInv, Control
  <2>2. /\ Len(Prefix) <= Len(outputs) /\ Len(outputs) < MaxOutputs
        /\ Len(outputs) \in Nat /\ Len(Prefix) \in Nat
        /\ outputs' = Append(outputs, x)
    <3>1. Len(Prefix) \in Nat /\ Len(outputs) \in Nat
      BY <2>1, LogAssumption
    <3>2. checkpoint \in Nat /\ checkpoint <= Len(outputs)
      BY <3>1 DEF CouncilInv, IInv, Control
    <3> QED BY <3>1, <3>2 DEF Receive
  <2>3. Len(outputs) + 1 \in Proposals
    BY <2>2, CouncilAssumption, BoundsAssumption
  <2> HIDE DEF x
  <2>4. /\ Len(outputs') = Len(outputs) + 1
        /\ \A k \in 1..Len(outputs) : outputs'[k] = outputs[k]
    BY <2>1, <2>2
  <2>5. ASSUME NEW k \in 1..Len(outputs'), outputs'[k].act = "make" PROVE k \in Proposals
    <3>1. CASE k = Len(outputs) + 1
      BY <2>3, <3>1
    <3>2. CASE k # Len(outputs) + 1
      <4>1. k \in 1..Len(outputs)
        BY <2>2, <2>4, <3>2
      <4> QED BY <2>4, <2>5, <4>1 DEF CouncilInv, Traces
    <3> QED BY <3>1, <3>2
  <2> QED BY <2>5 DEF Traces
<1> QED BY <1>1, <1>2, <1>3, <1>4, <1>5 DEF CouncilInv

\* A payment with a memo of the node's is an output with an action and a proposal.
LEMMA PaymentTyped ==
  ASSUME NEW u \in Users, NEW memos,
         \A m \in memos : \E fmt \in {"plain", "packed"}, act \in {"vote", "shout"}, p \in Proposals :
           m = ProposalMemo(fmt, act, p),
         NEW i \in Payments(u, memos)
  PROVE  TypedOutput(i) /\ \A x : TypedOutput(With(i, [trace |-> x]))
<1>1. PICK m \in memos :
        i = With([id |-> 0, sender |-> u, cur |-> Currency(VoteAsset),
                  amount |-> VoteAmount, time |-> 0], ReadMemo(m))
  BY DEF Payments
<1>2. PICK fmt \in {"plain", "packed"}, act \in {"vote", "shout"}, p \in Proposals :
        m = ProposalMemo(fmt, act, p)
  OBVIOUS
<1>3. ReadMemo(m) = [fmt |-> fmt, act |-> act, prop |-> p]
  BY <1>2, VoteMemoRead
<1>0. Currency(VoteAsset).asset \in Assets
  BY CouncilAssumption DEF Currency
<1>4. /\ {"id", "act", "sender", "cur", "prop"} \subseteq DOMAIN i
      /\ i.act = act /\ i.prop = p /\ i.sender = u /\ i.cur = Currency(VoteAsset)
  BY <1>1, <1>3 DEF With
<1>5. TypedOutput(i)
  BY <1>0, <1>2, <1>4 DEF TypedOutput, Asking
<1>6. ASSUME NEW x PROVE TypedOutput(With(i, [trace |-> x]))
  <2> DEFINE j == With(i, [trace |-> x])
  <2>1. /\ {"id", "act", "sender", "cur", "prop"} \subseteq DOMAIN j
        /\ j.act = act /\ j.prop = p /\ j.sender = u /\ j.cur = Currency(VoteAsset)
    BY <1>4 DEF With
  <2> HIDE DEF j
  <2>2. TypedOutput(j)
    BY <1>0, <1>2, <2>1 DEF TypedOutput, Asking
  <2> QED BY <2>2 DEF j
<1> QED BY <1>5, <1>6

\* At the start nothing is written and nothing was decided.
LEMMA CouncilStarts == CouncilInit => CouncilInv
<1> SUFFICES ASSUME CouncilInit PROVE CouncilInv
  OBVIOUS
<1>1. IInv
  BY InitInv DEF CouncilInit
<1>2. Mail
  <2>1. GoodRows(<<>>)
    BY QuietPlans, <<>> \in Seq({}), SMTT(30) DEF GoodRows
  <2>2. messages = <<>> /\ phase = "idle" /\ picked = {} /\ \A a \in Staff : inbox[a] = <<>>
    BY CouncilAssumption DEF CouncilInit, MessengerInit
  <2> QED BY <2>1, <2>2 DEF Mail
<1>3. db = Genesis /\ settled = Genesis /\ ~busy /\ pc = 0 /\ paid = {} /\ outputs = Prefix
  BY DEF CouncilInit, Init
<1>4. \A p \in Proposals : Genesis.proposal[p].votes = {} /\ ~Genesis.proposal[p].passed
  BY GenesisAssumption DEF NoProposal
<1> QED BY <1>1, <1>2, <1>3, <1>4, CouncilAssumption
     DEF CouncilInv, DecidedIn, Pending, Traces, PaidGood

LEMMA CouncilSteps == CouncilInv /\ [CouncilNext]_councilVars => CouncilInv'
<1> SUFFICES ASSUME CouncilInv, [CouncilNext]_councilVars PROVE CouncilInv'
  OBVIOUS
<1>1. ASSUME MessengerNext \/ Restart, UNCHANGED <<outputs, db, settled, paid>>,
             busy' => busy /\ plan' = plan /\ pc' = pc, pc' \in Nat, IInv'
      PROVE  CouncilInv'
  <2>1. Mail' /\ Keeps
    BY <1>1, MessengerKeeps DEF CouncilInv, Keeps
  <2>2. DecidedIn(db)' /\ DecidedIn(settled)' /\ Pending'
    BY <1>1, <2>1, StillDecided, StillPending DEF CouncilInv
  <2>3. Traces' /\ PaidGood'
    BY <1>1 DEF CouncilInv, Traces, PaidGood
  <2> QED BY <1>1, <2>1, <2>2, <2>3 DEF CouncilInv
<1>2. CASE MessengerNext /\ UNCHANGED <<vars, paid>>
  <2>1. IInv'
    BY <1>2, WorkerInv DEF CouncilInv
  <2> QED BY <1>1, <1>2, <2>1 DEF vars, CouncilInv
<1>3. CASE Crash
  <2>1. IInv'
    BY <1>3, WorkerInv DEF CouncilInv, Crash
  <2> QED BY <1>1, <1>3, <2>1 DEF Crash, Abandon
<1>4. ASSUME NEW i \in Inputs, PayIn(i) PROVE CouncilInv'
  BY <1>4, ReceiptDecides, LogAssumption DEF PayIn
<1>5. ASSUME NEW a \in Pressers, PressVote(a) PROVE CouncilInv'
  <2> DEFINE memos == {ProposalMemo(row.fmt, "vote", row.prop) : row \in Buttons(a)}
  <2>1. PICK i \in Payments(a, memos) : Receive(i)
    BY <1>5 DEF PressVote
  <2>2. GoodRows(inbox[a])
    BY CouncilAssumption DEF CouncilInv, Mail
  <2>3. \A row \in Buttons(a) : row.fmt \in {"plain", "packed"} /\ row.prop \in Proposals
    BY <2>2, GoodRowAt DEF Buttons, ToSet, GoodRow
  <2>4. \A m \in memos : \E fmt \in {"plain", "packed"}, act \in {"vote", "shout"},
                            p \in Proposals : m = ProposalMemo(fmt, act, p)
    BY <2>3
  <2> HIDE DEF memos
  <2>5. a \in Users
    BY CouncilAssumption, GovernanceAssumption
  <2>6. TypedOutput(i)
    BY <2>1, <2>4, <2>5, PaymentTyped
  <2> QED BY <1>5, <2>1, <2>6, ReceiptDecides DEF PressVote
<1>6. CASE Arrive
  <2>0. PICK x \in paid :
          \E i \in Payments(ClientID, {x.memo}) : Receive(With(i, [trace |-> x.trace]))
    BY <1>6 DEF Arrive
  <2>1. PICK i \in Payments(ClientID, {x.memo}) : Receive(With(i, [trace |-> x.trace]))
    BY <2>0
  <2>2. \A m \in {x.memo} : \E fmt \in {"plain", "packed"}, act \in {"vote", "shout"},
                               p \in Proposals : m = ProposalMemo(fmt, act, p)
    BY DEF CouncilInv, PaidGood
  <2>3. ClientID \in Users
    BY CouncilAssumption, GovernanceAssumption
  <2>4. TypedOutput(With(i, [trace |-> x.trace]))
    BY <2>2, <2>3, PaymentTyped
  <2> QED BY <1>6, <2>1, <2>4, ReceiptDecides DEF Arrive
<1>7. CASE UNCHANGED councilVars
  <2>1. UNCHANGED <<outputs, db, settled, busy, plan, pc, messages, inbox, phase, picked,
                    dropped, paid>> /\ UNCHANGED vars
    BY <1>7 DEF councilVars, vars, messengerVars, worker
  <2>2. IInv'
    BY <2>1, WorkerInv DEF CouncilInv
  <2>3. Mail' /\ Keeps /\ PaidGood' /\ Traces'
    BY <2>1 DEF CouncilInv, Mail, Out, Keeps, Kept, PaidGood, Traces
  <2> QED BY <2>1, <2>2, <2>3, StillDecided, StillPending DEF CouncilInv
<1> QED BY <1>2, <1>3, <1>4, <1>5, <1>6, <1>7, PayeeDecides DEF CouncilNext

\* No crash between counting a vote and announcing it leaves an admin without the
\* announcement, whatever the messenger meets on the way: the payee writes the
\* messages before the vote (CountVote), and the worker deletes a message only when
\* it was shown or refused.
THEOREM EveryDecisionAnnouncedTheorem == CouncilSpec => []EveryDecisionAnnounced
<1>1. CouncilInv => EveryDecisionAnnounced
  BY DEF CouncilInv, DecidedIn, Heard, EveryDecisionAnnounced
<1> QED BY CouncilStarts, CouncilSteps, <1>1, PTL DEF CouncilSpec
=============================================================================
