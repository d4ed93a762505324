-------------------------- MODULE GovernanceProofs --------------------------
(***************************************************************************)
(* What the members and the oracle decide, for every set of members, every *)
(* threshold, every log and any number of crashes: a vote that counts was  *)
(* sent by a member (VotesBacked), a price was signed for (PriceIsSigned), *)
(* a version is deployed with the addresses migrated (AddressesMigrated),  *)
(* no output is handled under an older version than one before it          *)
(* (RulesNeverGoBack), and no node passes a proposal its build does not    *)
(* know (KnownVersionsOnly).                                               *)
(*                                                                         *)
(* All rest on IInv of module PayeeProofs: whatever attempts at an output  *)
(* were cut short, the tables agree with those settled before it but for   *)
(* what the output is entitled to change (Agrees).                         *)
(***************************************************************************)
EXTENDS PayeeProofs

\* Only saving the checkpoint settles tables, and what it settles is the tables
\* in the middle of the output handled.
LEMMA Settling ==
  ASSUME IInv, [Next]_vars
  PROVE  \/ /\ SaveCheckpoint /\ checkpoint' = checkpoint + 1 /\ settled' = db
            /\ checkpoint \in Nat /\ checkpoint < Len(outputs)
            /\ outputs' = outputs
            /\ During(db, settled, Current)
         \/ UNCHANGED <<checkpoint, settled>>
<1>1. CASE SaveCheckpoint
  <2>1. checkpoint < Len(outputs) /\ checkpoint \in Nat
    BY <1>1 DEF SaveCheckpoint, IInv, Control
  <2> QED BY <1>1, <2>1 DEF SaveCheckpoint, IInv, TablesInv
<1>2. CASE ~SaveCheckpoint
  BY <1>2 DEF Next, vars, Receive, LoadBatch, Handle, Execute, Commit, Abandon, Fault
<1> QED BY <1>1, <1>2

\* The log only grows at its end: outputs that are settled stay what they were.
LEMMA LogGrows ==
  ASSUME IInv, [Next]_vars
  PROVE  \A i \in 1..checkpoint : outputs'[i] = outputs[i]
<1>1. checkpoint \in Nat /\ checkpoint <= Len(outputs) /\ Len(outputs) \in Nat
  BY DEF IInv, Control
<1>2. ASSUME NEW i \in Inputs, Receive(i)
      PROVE  \A k \in 1..Len(outputs) : outputs'[k] = outputs[k]
  <2> DEFINE x == [i EXCEPT !.id = Len(outputs) + 1,
                            !.time = i.time + outputs[Len(outputs)].time]
  <2>1. outputs' = Append(outputs, x)
    BY <1>2 DEF Receive
  <2>2. PICK S : outputs \in Seq(S)
    BY DEF IInv, Control
  <2> HIDE DEF x
  <2>3. outputs \in Seq(S \cup {x}) /\ x \in S \cup {x}
    BY <2>2
  <2> QED BY <2>1, <2>3
<1>3. CASE \E i \in Inputs : Receive(i)
  BY <1>1, <1>2, <1>3
<1>4. CASE ~\E i \in Inputs : Receive(i)
  <2>1. outputs' = outputs
    BY <1>4 DEF Next, vars, LoadBatch, Handle, Execute, Commit, Abandon, Fault, SaveCheckpoint
  <2> QED BY <2>1
<1> QED BY <1>3, <1>4

(***************************************************************************)
(* Prices                                                                  *)
(***************************************************************************)

\* The price of a market changes by a report of enough registered signers, or
\* by a vote, and by nothing else, crashes or not (handlePriceEvent and
\* verifyPriceData in worker/payee/price.go).
THEOREM PriceIsSignedTheorem == Spec => PriceIsSigned
<1> DEFINE Change(a) ==
      \/ settled'.market[a].price = settled.market[a].price
      \/ Current.act = "vote"
      \/ /\ Current.act = "price" /\ Current.asset = a
         /\ Current.signed \subseteq settled.signers
         /\ Cardinality(Current.signed) >= settled.market[a].p["threshold"]
<1>1. IInv /\ [Next]_vars => IInv'
  BY StepInv
<1>2. IInv /\ [Next]_vars => [checkpoint' > checkpoint => \A a \in Listed : Change(a)]_vars
  <2> SUFFICES ASSUME IInv, [Next]_vars, checkpoint' > checkpoint, NEW a \in Listed
               PROVE  Change(a)
    OBVIOUS
  <2>1. checkpoint \in Nat
    BY DEF IInv, Control
  <2>2. settled' = db /\ During(db, settled, Current)
    BY <2>1, Settling
  <2>3. PriceKept(db.market[a], settled, a, Current)
    BY <2>2 DEF During, Agrees, Listed
  <2> QED BY <2>2, <2>3 DEF PriceKept, SignedFor
<1> QED BY InitInv, <1>1, <1>2, PTL DEF Spec, PriceIsSigned

(***************************************************************************)
(* Votes                                                                   *)
(***************************************************************************)

\* A proposal passes with the votes of Threshold different members, each of whom
\* sent a vote for it in an output already handled (handleVoteProposal,
\* handleVoteProposalV1 and handleVoteProposalEventV0).
THEOREM VotesBackedTheorem == Spec => []VotesBacked
<1> DEFINE Inv == IInv /\ VotesBacked
<1>1. Init => Inv
  <2> SUFFICES ASSUME Init PROVE VotesBacked
    BY InitInv
  <2>1. \A p \in Proposals : Counted(settled.proposal[p])
    BY GenesisPast DEF Init, Past
  <2>2. NoProposal.votes = {}
    BY DEF NoProposal
  <2>3. \A p \in Proposals : settled.proposal[p].votes = {}
    BY <2>2, GenesisAssumption DEF Init
  <2> QED BY <2>1, <2>3 DEF VotesBacked, Counted
<1>2. Inv /\ [Next]_vars => Inv'
  <2> SUFFICES ASSUME Inv, [Next]_vars PROVE VotesBacked'
    BY StepInv
  <2>0. \A i \in Settled : outputs'[i] = outputs[i]
    BY LogGrows DEF Settled
  <2>1. CASE UNCHANGED <<checkpoint, settled>>
    <3>1. Settled' = Settled
      BY <2>1 DEF Settled
    <3> QED BY <2>0, <2>1, <3>1 DEF VotesBacked
  <2>2. CASE /\ settled' = db /\ checkpoint' = checkpoint + 1 /\ outputs' = outputs
             /\ checkpoint \in Nat /\ During(db, settled, Current)
    <3>1. Settled' = Settled \cup {checkpoint + 1} /\ outputs[checkpoint + 1] = Current
      BY <2>2 DEF Settled, Current
    <3>2. ASSUME NEW p \in Proposals
          PROVE  /\ db.proposal[p].passed = (Cardinality(db.proposal[p].votes) >= Threshold)
                 /\ \A u \in db.proposal[p].votes :
                      /\ u \in Members
                      /\ \E i \in Settled' :
                           /\ outputs[i].act = "vote" /\ outputs[i].prop = p
                           /\ Voter(outputs[i]) = u
                           /\ outputs[i].fmt = "member" \/ u \notin Staff
      <4>1. Counted(db.proposal[p]) /\ Ballots(db.proposal[p], settled, p, Current)
        BY <2>2 DEF During, Past, Agrees
      <4>2. ASSUME NEW u \in db.proposal[p].votes
            PROVE  /\ u \in Members
                   /\ \E i \in Settled' :
                        /\ outputs[i].act = "vote" /\ outputs[i].prop = p
                        /\ Voter(outputs[i]) = u
                        /\ outputs[i].fmt = "member" \/ u \notin Staff
        <5>1. CASE u \in settled.proposal[p].votes
          BY <3>1, <5>1 DEF VotesBacked
        <5>2. CASE Entitled(Current) /\ Current.prop = p /\ Voter(Current) = u
          BY <3>1, <5>2 DEF Entitled
        <5> QED BY <4>1, <5>1, <5>2 DEF Ballots
      <4> QED BY <4>1, <4>2 DEF Counted
    <3> QED BY <2>2, <3>2 DEF VotesBacked
  <2> QED BY <2>1, <2>2, Settling
<1> HIDE DEF Inv
<1>3. Inv => VotesBacked
  BY DEF Inv
<1> QED BY <1>1, <1>2, <1>3, PTL DEF Spec

(***************************************************************************)
(* Versions: what a plan deploys                                           *)
(***************************************************************************)

\* No statement of the plan deploys a version.
Quiet(p) == \E S : p \in Seq(S) /\ \A w \in S : w.t # "sysversion"

\* Every version the plan deploys is newer than v and known to the build, and
\* when v is 0 every address of version 0 is migrated before, on whatever page.
Deploys(p, legacy, v) ==
  \A k \in 1..Len(p) : p[k].t = "sysversion" =>
    /\ p[k].data \in Int /\ v < p[k].data /\ p[k].data <= SysVersion
    /\ v < 1 => \A u \in legacy :
                  \E j \in 1..k-1 : p[j].t = "migrate" /\ u \in p[j].data

\* A plan that deploys nothing does so in whatever state.
LEMMA QuietDeploys == ASSUME NEW p, Quiet(p), NEW l, NEW v PROVE Deploys(p, l, v)
<1>1. PICK S : p \in Seq(S) /\ \A w \in S : w.t # "sysversion"
  BY DEF Quiet
<1>2. \A k \in 1..Len(p) : p[k] \in S
  BY <1>1
<1> QED BY <1>1, <1>2 DEF Deploys

\* Short plans without a version.
LEMMA QuietShort ==
  ASSUME NEW a, a.t # "sysversion", NEW b, b.t # "sysversion"
  PROVE  Quiet(<<>>) /\ Quiet(<<a>>) /\ Quiet(<<a, b>>)
<1> DEFINE S == {a, b}
<1>1. /\ <<>> \in Seq(S) /\ <<a>> \in Seq(S) /\ <<a, b>> \in Seq(S)
      /\ \A w \in S : w.t # "sysversion"
  OBVIOUS
<1> HIDE DEF S
<1> QED BY <1>1 DEF Quiet

\* The messages and the count of a vote before what the proposal executes.
LEMMA QuietJoin ==
  ASSUME NEW p, NEW q, Quiet(p), Quiet(q) PROVE Quiet(p \o q)
<1>1. PICK S : p \in Seq(S) /\ \A w \in S : w.t # "sysversion"
  BY DEF Quiet
<1>2. PICK T : q \in Seq(T) /\ \A w \in T : w.t # "sysversion"
  BY DEF Quiet
<1>3. p \in Seq(S \cup T) /\ q \in Seq(S \cup T)
  BY <1>1, <1>2
<1>4. p \o q \in Seq(S \cup T)
  BY <1>3
<1>5. \A w \in S \cup T : w.t # "sysversion"
  BY <1>1, <1>2
<1> QED BY <1>4, <1>5 DEF Quiet

\* What is executed after a vote deploys what it deploys alone.
LEMMA DeploysLater ==
  ASSUME NEW p, Quiet(p), NEW T, NEW q \in Seq(T), NEW l, NEW v, Deploys(q, l, v)
  PROVE  Deploys(p \o q, l, v)
<1>1. PICK S : p \in Seq(S) /\ \A w \in S : w.t # "sysversion"
  BY DEF Quiet
<1>2. /\ Len(p) \in Nat /\ Len(q) \in Nat /\ Len(p \o q) = Len(p) + Len(q)
      /\ \A k \in 1..Len(p) : (p \o q)[k] = p[k] /\ p[k].t # "sysversion"
      /\ \A k \in 1..Len(q) : (p \o q)[Len(p) + k] = q[k]
  <2>1. p \in Seq(S \cup T) /\ q \in Seq(S \cup T)
    BY <1>1
  <2>2. \A k \in 1..Len(p) : p[k] \in S
    BY <1>1
  <2> QED BY <1>1, <2>1, <2>2
<1>3. ASSUME NEW k \in 1..Len(p \o q), (p \o q)[k].t = "sysversion"
      PROVE  /\ (p \o q)[k].data \in Int /\ v < (p \o q)[k].data
             /\ (p \o q)[k].data <= SysVersion
             /\ v < 1 => \A u \in l :
                           \E j \in 1..k-1 : /\ (p \o q)[j].t = "migrate"
                                              /\ u \in (p \o q)[j].data
  <2>1. k - Len(p) \in 1..Len(q) /\ (p \o q)[k] = q[k - Len(p)]
    BY <1>2, <1>3
  <2>2. ASSUME v < 1, NEW u \in l
        PROVE  \E j \in 1..k-1 : (p \o q)[j].t = "migrate" /\ u \in (p \o q)[j].data
    <3>1. PICK j \in 1..(k - Len(p) - 1) : q[j].t = "migrate" /\ u \in q[j].data
      BY <1>3, <2>1, <2>2 DEF Deploys
    <3>2. Len(p) + j \in 1..k-1 /\ (p \o q)[Len(p) + j] = q[j]
      BY <1>2, <2>1
    <3> QED BY <3>1, <3>2
  <2> QED BY <1>3, <2>1, <2>2 DEF Deploys
<1> QED BY <1>3 DEF Deploys

\* Statements numbered by a function, and one after them.
LEMMA PagesThenOne ==
  ASSUME NEW n \in Nat, NEW f(_), NEW w
  PROVE  LET q == [i \in 1..n |-> f(i)] \o <<w>>
         IN  Len(q) = n + 1 /\ q[n + 1] = w /\ \A i \in 1..n : q[i] = f(i)
<1> DEFINE p == [i \in 1..n |-> f(i)]
           S == {p[i] : i \in 1..n} \cup {w}
<1>1. p \in Seq(S) /\ <<w>> \in Seq(S) /\ Len(p) = n
  <2>1. p \in [1..n -> S]
    OBVIOUS
  <2> HIDE DEF p, S
  <2>2. w \in S
    BY DEF S
  <2> QED BY <2>1, <2>2
<1>2. \A i \in 1..n : p[i] = f(i)
  OBVIOUS
<1> HIDE DEF p, S
<1> QED BY <1>1, <1>2 DEF p

\* Every page of the users of an older build in a statement, and one statement last.
ByPages(q, legacy, last) ==
  LET n == Len(UserPages)
  IN  /\ n \in Nat /\ Len(q) = n + 1 /\ q[n + 1] = last
      /\ \A i \in 1..n : q[i] = MigrateToV1(UserPages[i] \cap legacy)

\* setProperty of a version, from version 0.
LEMMA VersionPlan ==
  ASSUME NEW s, NEW v, v < 1, NEW c, c.key = "sysversion",
         ValidateProposal(v, c) \notin {"refused", "halt"}
  PROVE  ByPages(SetProperty(s, v, c), s.legacy, SaveProperty(c.key, c.value))
<1> DEFINE n == Len(UserPages)
           save == SaveProperty(c.key, c.value)
           page(i) == MigrateToV1(UserPages[i] \cap s.legacy)
           q == [i \in 1..n |-> page(i)] \o <<save>>
<1>1. SetProperty(s, v, c) = q
  BY DEF SetProperty, MigrateSystem
<1>2. n \in Nat
  BY GovernanceAssumption
<1>3. Len(q) = n + 1 /\ q[n + 1] = save /\ \A i \in 1..n : q[i] = page(i)
  BY <1>2, PagesThenOne
<1> HIDE DEF q, save
<1> QED BY <1>1, <1>2, <1>3 DEF save, ByPages

\* The users of an older build.
Paged == UNION {UserPages[i] : i \in 1..Len(UserPages)}

\* setProperty: a version is deployed after validateNewSysVersion and, from
\* version 0, after migrateSystem has been through all pages.
LEMMA PropertyDeploys ==
  ASSUME NEW s, s.legacy \subseteq Paged, NEW v \in Int, NEW c, c.act = "set-property",
         TypedContent(c)
  PROVE  Deploys(SetProperty(s, v, c), s.legacy, v)
<1> DEFINE save == SaveProperty(c.key, c.value)
<1>1. CASE ValidateProposal(v, c) \in {"refused", "halt"}
  <2>0. Halt.t # "sysversion"
    BY DEF Halt
  <2>1. Quiet(<<>>) /\ Quiet(<<Halt>>)
    BY <2>0, QuietShort
  <2> QED BY <1>1, <2>1, QuietDeploys DEF SetProperty
<1>2. CASE ValidateProposal(v, c) \notin {"refused", "halt"} /\ c.key # "sysversion"
  <2>1. save.t # "sysversion"
    BY <1>2 DEF SaveProperty
  <2>2. Quiet(<<>>) /\ Quiet(<<save>>)
    BY <2>1, QuietShort
  <2>3. Quiet(<<>> \o <<save>>)
    BY <2>2, QuietJoin
  <2>4. SetProperty(s, v, c) = <<>> \o <<save>>
    BY <1>2 DEF SetProperty
  <2> QED BY <2>3, <2>4, QuietDeploys
<1>3. CASE ValidateProposal(v, c) \notin {"refused", "halt"} /\ c.key = "sysversion"
  <2>1. ~Malformed(c)
    BY <1>3 DEF ValidateProposal
  <2>2. c.ok
    BY <1>3, <2>1 DEF Malformed
  <2>3. ValidateNewSysVersion(v, c.value) \notin {"refused", "halt"}
    BY <1>3, <2>1 DEF ValidateProposal
  <2>4. c.value \in Int /\ v < c.value /\ c.value <= SysVersion
    BY <1>3, <2>2, <2>3, GovernanceAssumption DEF TypedContent, ValidateNewSysVersion
  <2>5. save = [t |-> "sysversion", data |-> c.value]
    BY <1>3 DEF SaveProperty
  <2>6. SetProperty(s, v, c) = MigrateSystem(s, v) \o <<save>>
    BY <1>3 DEF SetProperty
  <2>7. CASE v < 1
    <3> DEFINE n == Len(UserPages)
               page(i) == MigrateToV1(UserPages[i] \cap s.legacy)
               q == SetProperty(s, v, c)
    <3>1. ByPages(q, s.legacy, save)
      BY <1>3, <2>7, VersionPlan
    <3>2. \A i \in 1..n : page(i).t = "migrate" /\ page(i).data = UserPages[i] \cap s.legacy
      BY DEF MigrateToV1
    <3>3. n \in Nat /\ Len(q) = n + 1 /\ q[n + 1] = save
      BY <3>1 DEF ByPages
    <3>4. \A i \in 1..n : q[i] = page(i)
      BY <3>1 DEF ByPages
    <3>5. \A u \in s.legacy : \E i \in 1..n : u \in UserPages[i] \cap s.legacy
      BY DEF Paged
    <3> HIDE DEF n, page, q, save
    <3>6. ASSUME NEW k \in 1..Len(q), q[k].t = "sysversion" PROVE k = n + 1
      BY <2>5, <3>2, <3>3, <3>4, <3>6
    <3>7. \A u \in s.legacy : \E i \in 1..n : q[i].t = "migrate" /\ u \in q[i].data
      BY <3>2, <3>4, <3>5
    <3> QED BY <2>4, <2>5, <3>3, <3>6, <3>7 DEF Deploys, q
  <2>8. CASE ~(v < 1)
    <3> DEFINE q == <<save>>
    <3>1. SetProperty(s, v, c) = q
      BY <2>6, <2>8 DEF MigrateSystem
    <3>2. Len(q) = 1 /\ q[1] = save
      OBVIOUS
    <3> HIDE DEF q, save
    <3> QED BY <2>4, <2>5, <2>8, <3>1, <3>2 DEF Deploys
  <2> QED BY <2>7, <2>8
<1> QED BY <1>1, <1>2, <1>3

\* handlePassedProposal deploys a version by a set-property proposal only.
LEMMA PassedQuiet ==
  ASSUME NEW s, NEW v, NEW o, NEW p, NEW c, c.act # "set-property"
  PROVE  Quiet(HandlePassedProposal(s, v, o, p, c))
<1>1. \A t, key, data : t \in Versioned => Update(s, t, key, data, o.id).t # "sysversion"
  BY DEF Update, Versioned, Nop
<1>2. \A a, m : UpdateMarket(s, a, m, o.id).t # "sysversion"
  BY <1>1 DEF UpdateMarket, Versioned
<1>3. \A a, m : CreateMarket(a, m, o.id).t # "sysversion"
  BY DEF CreateMarket
<1>4. \A x : InsertTransfer(x).t # "sysversion" /\ SaveSigners(x).t # "sysversion"
  BY DEF InsertTransfer, SaveSigners
<1>5. Quiet(HandleMarketEvent(s, o, c))
  <2>0. Halt.t # "sysversion"
    BY DEF Halt
  <2>1. Quiet(<<Halt>>)
    BY <2>0, QuietShort
  <2> QED BY <1>2, <1>3, <2>1, QuietShort DEF HandleMarketEvent
<1>6. Quiet(HandleMarketStatus(s, o, c))
  BY <1>2, QuietShort, ZenonT(40) DEF HandleMarketStatus
<1>7. Quiet(HandleWithdraw(s, o, p, c))
  BY <1>2, <1>4, QuietShort DEF HandleWithdraw
<1>8. Quiet(HandleOracleSigner(s, c))
  BY <1>4, QuietShort DEF HandleOracleSigner
<1>9. Quiet(<<>>)
  BY <1>4, QuietShort
<1> QED BY <1>5, <1>6, <1>7, <1>8, <1>9 DEF HandlePassedProposal

\* What a passed proposal deploys.
LEMMA PassedDeploys ==
  ASSUME NEW s, s.legacy \subseteq Paged, NEW v \in Int, NEW o, NEW p, NEW c,
         TypedContent(c)
  PROVE  Deploys(HandlePassedProposal(s, v, o, p, c), s.legacy, v)
<1>1. CASE c.act = "set-property"
  <2>1. HandlePassedProposal(s, v, o, p, c) = SetProperty(s, v, c)
    BY <1>1 DEF HandlePassedProposal
  <2> QED BY <1>1, <2>1, PropertyDeploys
<1>2. CASE c.act # "set-property"
  BY <1>2, PassedQuiet, QuietDeploys
<1> QED BY <1>1, <1>2

\* A vote deploys what the proposal it passes, or resumes, deploys.
LEMMA VoteDeploys ==
  ASSUME NEW s, NEW old, NEW v \in Int, NEW o, o.act = "vote", Reads(s, old, o),
         TypedOutput(o), s.legacy \subseteq Paged
  PROVE  /\ Deploys(HandleVoteProposal(s, v, o), s.legacy, v)
         /\ Deploys(HandleVoteProposalV0(s, v, o), s.legacy, v)
<1> DEFINE p == o.prop
           row == s.proposal[p]
           voted == Voted(row, o)
           count == CountVote(s, v, o, p)
           execute == HandlePassedProposal(s, v, o, p, row.content)
<1>1. TypedContent(row.content) /\ voted.content = row.content
  BY DEF TypedOutput, Reads, TablesShape, Voted
<1>2. Deploys(execute, s.legacy, v)
  BY <1>1, PassedDeploys
<1>3. Deploys(count, s.legacy, v)
  <2> DEFINE told == <<ProposalApproved(p, Voter(o), v)>>
             decided == IF voted.passed THEN <<ProposalPassed(p, v)>> ELSE <<>>
             save == <<UpdateProposal(s, p, voted, o.id)>>
             after == IF voted.passed THEN HandlePassedProposal(s, v, o, p, voted.content)
                                      ELSE <<>>
  <2>1. /\ ProposalApproved(p, Voter(o), v).t # "sysversion"
        /\ ProposalPassed(p, v).t # "sysversion"
        /\ UpdateProposal(s, p, voted, o.id).t # "sysversion"
    BY DEF ProposalApproved, ProposalPassed, Notify, UpdateProposal
  <2>2. Quiet(told) /\ Quiet(decided) /\ Quiet(save) /\ Quiet(<<>>)
    BY <2>1, QuietShort
  <2>3. Deploys(after, s.legacy, v)
    BY <1>1, <1>2, <2>2, QuietDeploys
  <2>4. PICK T : after \in Seq(T)
    <3>1. SoundPlan(after, old, o)
      BY PassedPlan, Plan0
    <3> QED BY <3>1 DEF SoundPlan
  <2> HIDE DEF told, decided, save, after
  <2>5. Quiet(told \o decided)
    BY <2>2, QuietJoin
  <2>6. Quiet((told \o decided) \o save)
    BY <2>2, <2>5, QuietJoin
  <2>7. Deploys(((told \o decided) \o save) \o after, s.legacy, v)
    BY <2>3, <2>4, <2>6, DeploysLater
  <2> QED BY <2>7 DEF CountVote, told, decided, save, after
<1>4. Quiet(<<>>) /\ Quiet(<<Halt>>) /\ Quiet(<<ForwardProposal(v, o, p, "vote")>>)
  <2>1. Halt.t # "sysversion" /\ ForwardProposal(v, o, p, "vote").t # "sysversion"
    BY DEF Halt, ForwardProposal, Forward
  <2> QED BY <2>1, QuietShort
<1> HIDE DEF count, execute
<1> QED BY <1>2, <1>3, <1>4, QuietDeploys
        DEF HandleVoteProposal, HandleVoteProposalV0, count, execute

\* Every attempt at an output deploys newer, known versions only.
LEMMA OutputDeploys ==
  ASSUME NEW s, NEW old, NEW v \in Int, NEW o, Reads(s, old, o), Unvoted(s, o),
         TypedOutput(o), s.legacy \subseteq Paged
  PROVE  Deploys(HandleOutput(s, v, o), s.legacy, v)
<1>1. CASE o.act # "vote"
  <2>1. PICK S : /\ HandleOutput(s, v, o) \in Seq(S)
                 /\ \A w \in S : Sound(w, old, o)
    BY OutputPlan DEF SoundPlan
  <2>2. \A w \in S : w.t # "sysversion"
    BY <1>1, <2>1 DEF Sound
  <2>3. Quiet(HandleOutput(s, v, o))
    BY <2>1, <2>2 DEF Quiet
  <2> QED BY <2>3, QuietDeploys
<1>2. CASE o.act = "vote"
  <2>1. ~IsPrice(s, v, o)
    BY <1>2 DEF IsPrice
  <2>2. Deploys(Dispatch(s, v, o), s.legacy, v)
    BY <1>2, VoteDeploys DEF Dispatch
  <2>3. Deploys(HandleProposalActionV0(s, v, o), s.legacy, v)
    BY <1>2, VoteDeploys DEF HandleProposalActionV0
  <2>4. Deploys(HandleUnknown(s, o), s.legacy, v) /\ Deploys(<<>>, s.legacy, v)
    <3>1. /\ Nop.t # "sysversion" /\ CreateUser(o.sender).t # "sysversion"
          /\ RefundV0(o).t # "sysversion"
      BY DEF Nop, CreateUser, RefundV0, Transfer, InsertTransfer
    <3>2. EnsureUser(s, o).t # "sysversion"
      BY <3>1 DEF EnsureUser
    <3>3. Quiet(HandleUnknown(s, o)) /\ Quiet(<<>>)
      BY <3>1, <3>2, QuietShort DEF HandleUnknown
    <3> QED BY <3>3, QuietDeploys
  <2> QED BY <2>1, <2>2, <2>3, <2>4 DEF HandleOutput
<1> QED BY <1>1, <1>2

(***************************************************************************)
(* Versions: the worker                                                    *)
(***************************************************************************)

\* A version is one the build knows, and past version 0 no address is left.
VersionOK(version, legacy) ==
  version \in 0..SysVersion /\ (version >= 1 => legacy = {})

\* A version still to be deployed is newer than the one of the attempt, and the
\* migration that must come before it has been done or is still to come too.
PendingInv ==
  busy => \A k \in 1..Len(plan) : k > pc /\ plan[k].t = "sysversion" =>
    /\ plan[k].data \in Int /\ sysversion < plan[k].data /\ plan[k].data <= SysVersion
    /\ \A u \in db.legacy :
         \E j \in pc+1..k-1 : plan[j].t = "migrate" /\ u \in plan[j].data

VInv ==
  /\ pc \in Nat /\ db.legacy \subseteq Paged
  /\ VersionOK(db.sysversion, db.legacy)
  /\ VersionOK(sysversion, db.legacy)
  /\ VersionOK(settled.sysversion, settled.legacy)
  /\ PendingInv

\* Only a "sysversion" statement changes the version, only a "migrate" statement
\* the addresses.
LEMMA ApplyVersion ==
  ASSUME NEW s, TablesShape(s), NEW w
  PROVE  /\ Apply(s, w).sysversion = IF w.t = "sysversion" THEN w.data ELSE s.sysversion
         /\ Apply(s, w).legacy = IF w.t = "migrate" THEN s.legacy \ w.data ELSE s.legacy
<1>0. {"sysversion", "legacy", "tx", "transfer", "user", "property", "signers",
       "market", "supply", "borrow", "proposal", "ver"} \subseteq DOMAIN s
  BY DEF TablesShape, Tables
<1>1. CASE w.t \in {"tx", "transfer", "user", "property", "signers"}
  BY <1>0, <1>1 DEF Apply
<1>2. CASE w.t \in {"sysversion", "migrate"}
  BY <1>0, <1>2 DEF Apply
<1>3. CASE w.t \in {"newsupply", "newborrow", "newmarket", "newproposal"}
  BY <1>0, <1>3 DEF Apply
<1>4. CASE w.t \in {"market", "supply", "borrow", "proposal"}
  BY <1>0, <1>4 DEF Apply
<1>5. CASE w.t \notin {"tx", "transfer", "user", "property", "signers", "sysversion",
                      "migrate", "newsupply", "newborrow", "newmarket", "newproposal",
                      "market", "supply", "borrow", "proposal"}
  BY <1>5 DEF Apply
<1> QED BY <1>1, <1>2, <1>3, <1>4, <1>5

\* A statement that commits: a version only after the addresses are migrated.
LEMMA CommitVersion ==
  ASSUME IInv, VInv, busy, NEW k \in 1..Len(plan), IsNext(k), Commit(k)
  PROVE  VInv'
<1>0. /\ TablesShape(db) /\ db' = Apply(db, plan[k]) /\ pc' = k
      /\ UNCHANGED <<plan, busy, sysversion, settled>>
  BY DEF IInv, Control, TablesInv, During, Past, Commit
<1>1. /\ db'.sysversion = IF plan[k].t = "sysversion" THEN plan[k].data ELSE db.sysversion
      /\ db'.legacy = IF plan[k].t = "migrate" THEN db.legacy \ plan[k].data ELSE db.legacy
  BY <1>0, ApplyVersion
<1>2. pc \in Nat /\ k > pc /\ k \in Nat
  BY DEF VInv, IsNext
<1>3. \A j \in pc+1..k-1 : plan[j].t # "migrate"
  BY DEF IsNext, Nop
<1>4. plan[k].t = "sysversion" => /\ db.legacy = {} /\ plan[k].data \in Int
                                  /\ sysversion < plan[k].data /\ plan[k].data <= SysVersion
  BY <1>2, <1>3 DEF VInv, PendingInv
<1>5. sysversion \in 0..SysVersion
  BY DEF VInv, VersionOK
<1>6. VersionOK(db'.sysversion, db'.legacy)
  <2>1. CASE plan[k].t = "sysversion"
    BY <1>1, <1>4, <1>5, <2>1, GovernanceAssumption DEF VersionOK
  <2>2. CASE plan[k].t # "sysversion"
    BY <1>1, <2>2 DEF VInv, VersionOK
  <2> QED BY <2>1, <2>2
<1>7. VersionOK(sysversion, db'.legacy)
  BY <1>1 DEF VInv, VersionOK
<1>8. ASSUME NEW n \in 1..Len(plan), n > k, plan[n].t = "sysversion"
      PROVE  /\ plan[n].data \in Int /\ sysversion < plan[n].data
             /\ plan[n].data <= SysVersion
             /\ \A u \in db'.legacy :
                  \E j \in k+1..n-1 : plan[j].t = "migrate" /\ u \in plan[j].data
  <2>1. /\ plan[n].data \in Int /\ sysversion < plan[n].data /\ plan[n].data <= SysVersion
        /\ \A u \in db.legacy :
             \E j \in pc+1..n-1 : plan[j].t = "migrate" /\ u \in plan[j].data
    BY <1>2, <1>8 DEF VInv, PendingInv
  <2>2. ASSUME NEW u \in db'.legacy
        PROVE  \E j \in k+1..n-1 : plan[j].t = "migrate" /\ u \in plan[j].data
    <3>1. u \in db.legacy
      BY <1>1, <2>2
    <3>2. PICK j \in pc+1..n-1 : plan[j].t = "migrate" /\ u \in plan[j].data
      BY <2>1, <3>1
    <3>3. j # k
      BY <1>1, <2>2, <3>2
    <3>4. j \in k+1..n-1
      BY <1>2, <1>3, <3>2, <3>3
    <3> QED BY <3>1, <3>2, <3>4
  <2> QED BY <2>1, <2>2
<1>9. PendingInv'
  BY <1>0, <1>8 DEF PendingInv
<1>10. db'.legacy \subseteq Paged
  BY <1>1 DEF VInv
<1> QED BY <1>0, <1>2, <1>6, <1>7, <1>9, <1>10 DEF VInv

\* The versions and addresses a fresh deployment starts with.
LEMMA InitVersion == Init => VInv
<1> SUFFICES ASSUME Init PROVE VInv
  OBVIOUS
<1>1. VersionOK(Genesis.sysversion, Genesis.legacy)
  BY GenesisAssumption, GovernanceAssumption DEF VersionOK
<1>2. VersionOK(0, Genesis.legacy)
  BY GovernanceAssumption DEF VersionOK
<1>3. Genesis.legacy \subseteq Paged
  BY GenesisAssumption DEF Paged
<1> QED BY <1>1, <1>2, <1>3 DEF Init, VInv, PendingInv

\* One step keeps versions and addresses in order.
LEMMA StepVersion ==
  ASSUME IInv, VInv, [Next]_vars
  PROVE  VInv'
<1>1. ASSUME NEW i \in Inputs, Receive(i) PROVE VInv'
  BY <1>1 DEF Receive, VInv, PendingInv
<1>2. ASSUME LoadBatch PROVE VInv'
  BY <1>2 DEF LoadBatch, VInv, PendingInv
<1>3. ASSUME Handle PROVE VInv'
  <2>1. checkpoint < Len(outputs) /\ Current.id = checkpoint + 1 /\ checkpoint \in Nat
    BY <1>3 DEF IInv, Control, Handle, Current
  <2>2. Reads(db, settled, Current) /\ Unvoted(db, Current) /\ TypedOutput(Current)
    BY <2>1, HandleReads
  <2>3. Deploys(plan', db.legacy, sysversion)
    BY <1>3, <2>2, OutputDeploys DEF Handle, VInv, VersionOK
  <2>4. /\ pc' = 0 /\ UNCHANGED <<db, sysversion, settled>>
    BY <1>3 DEF Handle
  <2>5. PendingInv'
    <3> SUFFICES ASSUME NEW k \in 1..Len(plan'), plan'[k].t = "sysversion"
                 PROVE  /\ plan'[k].data \in Int /\ sysversion < plan'[k].data
                        /\ plan'[k].data <= SysVersion
                        /\ \A u \in db.legacy :
                             \E j \in 0+1..k-1 : /\ plan'[j].t = "migrate"
                                                 /\ u \in plan'[j].data
      BY <2>4 DEF PendingInv
    <3>1. sysversion \in Int /\ (db.legacy # {} => sysversion < 1)
      BY DEF VInv, VersionOK
    <3>2. 0+1..k-1 = 1..k-1
      OBVIOUS
    <3> QED BY <2>3, <3>1, <3>2 DEF Deploys
  <2> QED BY <2>4, <2>5 DEF VInv
<1>4. ASSUME Abandon PROVE VInv'
  BY <1>4 DEF Abandon, VInv, PendingInv
<1>5. ASSUME SaveCheckpoint PROVE VInv'
  BY <1>5 DEF SaveCheckpoint, VInv, PendingInv
<1>6. ASSUME Execute PROVE VInv'
  <2>1. PICK k \in 1..Len(plan) : IsNext(k) /\ (Commit(k) \/ Abandon)
    BY <1>6 DEF Execute
  <2>2. CASE Commit(k)
    BY <1>6, <2>1, <2>2, CommitVersion DEF Execute
  <2> QED BY <1>4, <2>1, <2>2
<1>7. ASSUME UNCHANGED vars PROVE VInv'
  BY <1>7 DEF vars, VInv, PendingInv
<1> QED BY <1>1, <1>2, <1>3, <1>4, <1>5, <1>6, <1>7 DEF Next, Fault

\* No user keeps an address of version 0 once the system has moved on, wherever
\* the vote that moved it was interrupted (migrateSystem in setProperty).
THEOREM AddressesMigratedTheorem == Spec => []AddressesMigrated
<1> DEFINE Inv == IInv /\ VInv
<1>1. Init => Inv
  BY InitInv, InitVersion
<1>2. Inv /\ [Next]_vars => Inv'
  BY StepInv, StepVersion
<1>3. Inv => AddressesMigrated
  BY DEF VInv, VersionOK, AddressesMigrated
<1> HIDE DEF Inv
<1> QED BY <1>1, <1>2, <1>3, PTL DEF Spec

\* No payment is handled under an older version than one before it: run loads the
\* version that is deployed (loadSysVersion), and validateNewSysVersion compares a new
\* one with the version loaded, which is never newer than the one deployed.  Two votes
\* in one batch may still deploy the older version last (run downgrade).
THEOREM RulesNeverGoBackTheorem == Spec => RulesNeverGoBack
<1> DEFINE Inv == IInv /\ VInv /\ sysversion <= db.sysversion
<1>1. Init => Inv
  BY InitInv, InitVersion, GenesisAssumption DEF Init
<1>2. Inv /\ [Next]_vars => Inv' /\ sysversion' >= sysversion
  <2> SUFFICES ASSUME Inv, [Next]_vars
               PROVE  sysversion' <= db'.sysversion /\ sysversion' >= sysversion
    BY StepInv, StepVersion
  <2>0. db.sysversion \in Int /\ sysversion \in Int
    BY DEF VInv, VersionOK
  <2>1. CASE UNCHANGED <<db, sysversion>>
    BY <2>0, <2>1
  <2>2. CASE LoadBatch
    BY <2>0, <2>2 DEF LoadBatch
  <2>3. CASE Execute
    <3>1. PICK k \in 1..Len(plan) : IsNext(k) /\ (Commit(k) \/ Abandon)
      BY <2>3 DEF Execute
    <3>2. CASE Commit(k)
      <4>1. /\ db' = Apply(db, plan[k]) /\ busy /\ k > pc /\ UNCHANGED sysversion
        BY <2>3, <3>1, <3>2 DEF Commit, Execute, IsNext
      <4>2. TablesShape(db)
        BY <4>1 DEF IInv, Control, TablesInv, During, Past
      <4>3. db'.sysversion = IF plan[k].t = "sysversion" THEN plan[k].data ELSE db.sysversion
        BY <4>1, <4>2, ApplyVersion
      <4>4. plan[k].t = "sysversion" => plan[k].data \in Int /\ sysversion < plan[k].data
        BY <4>1 DEF VInv, PendingInv
      <4> QED BY <2>0, <4>1, <4>3, <4>4
    <3> QED BY <2>1, <3>1, <3>2 DEF Abandon
  <2> QED BY <2>1, <2>2, <2>3
          DEF Next, Receive, Handle, SaveCheckpoint, Fault, Abandon, vars
<1>3. Inv /\ [Next]_vars => [sysversion' >= sysversion]_vars
  BY <1>2
<1> HIDE DEF Inv
<1> QED BY <1>1, <1>2, <1>3, PTL DEF Spec, RulesNeverGoBack

(***************************************************************************)
(* What a build does not know                                              *)
(***************************************************************************)

\* handleMakeProposal stops at a proposal its build does not know.
LEMMA UnknownHalts ==
  ASSUME NEW s, NEW v \in 2..SysVersion, NEW o, ~Known(o), TypedOutput(o)
  PROVE  HandleOutput(s, v, o) = <<Halt>>
<1> DEFINE c == o.content
<1>1. o.act = "make" /\ o.fmt = "packed" /\ o.sender # NoSender /\ c.act # "unreadable"
  BY DEF Known
<1>2. ~IsPrice(s, v, o) /\ Route(v, o) = "action"
  BY <1>1, GovernanceAssumption DEF IsPrice, Route, RouteV2, RouteV3
<1>3. HandleOutput(s, v, o) = HandleMakeProposal(s, v, o)
  BY <1>1, <1>2 DEF HandleOutput, Dispatch
<1>4. CASE c.act \notin ProposalKinds
  BY <1>1, <1>3, <1>4, GovernanceAssumption DEF HandleMakeProposal
<1>5. CASE c.act \in ProposalKinds
  <2>1. c.act = "set-property" /\ c.key = "sysversion" /\ c.ok /\ ~(c.value <= SysVersion)
    BY <1>5 DEF Known
  <2>2. c.value \in Int /\ c.value > SysVersion /\ c.value > v
    BY <1>1, <2>1, GovernanceAssumption DEF TypedOutput, TypedContent
  <2>3. ~Malformed(c)
    BY <2>1 DEF Malformed
  <2>4. ValidateNewSysVersion(v, c.value) = "halt"
    BY <2>2, GovernanceAssumption DEF ValidateNewSysVersion
  <2>5. ValidateProposal(v, c) = "halt"
    BY <2>1, <2>3, <2>4 DEF ValidateProposal
  <2> QED BY <1>3, <1>5, <2>5 DEF HandleMakeProposal
<1> QED BY <1>4, <1>5

\* Packed memos are read all along, and an output the build does not know is
\* being waited at.
WaitsInv ==
  /\ db.sysversion >= 2
  /\ checkpoint < batch => sysversion >= 2
  /\ busy => Known(Current) \/ (plan = <<Halt>> /\ pc = 0)

\* In a deployment that reads packed memos from the start no node gets past a
\* proposal for a version, or with an action, that its build does not know: it
\* retries it until it is upgraded (validateProposal, handleMakeProposal).
THEOREM KnownVersionsOnlyTheorem ==
  ASSUME Genesis.sysversion >= 2
  PROVE  Spec => []KnownVersionsOnly
<1> DEFINE Inv == IInv /\ VInv /\ WaitsInv /\ KnownVersionsOnly
<1>1. Init => Inv
  <2> SUFFICES ASSUME Init PROVE WaitsInv /\ KnownVersionsOnly
    BY InitInv, InitVersion
  <2> QED BY DEF Init, WaitsInv, KnownVersionsOnly, Settled
<1>2. Inv /\ [Next]_vars => Inv'
  <2> SUFFICES ASSUME Inv, [Next]_vars PROVE WaitsInv' /\ KnownVersionsOnly'
    BY StepInv, StepVersion
  <2>0. /\ checkpoint \in Nat /\ batch \in Nat /\ checkpoint <= batch
        /\ db.sysversion \in Int /\ sysversion \in 0..SysVersion
        /\ busy => checkpoint < batch
    BY DEF IInv, Control, VInv, VersionOK
  <2>1. ASSUME UNCHANGED <<checkpoint, settled>> PROVE KnownVersionsOnly'
    <3>1. Settled' = Settled /\ \A i \in Settled : outputs'[i] = outputs[i]
      BY <2>1, LogGrows DEF Settled
    <3> QED BY <3>1 DEF KnownVersionsOnly
  <2>2. CASE SaveCheckpoint
    <3>1. /\ busy /\ ~busy' /\ checkpoint' = checkpoint + 1
          /\ \A k \in pc+1..Len(plan) : plan[k] = Nop
          /\ UNCHANGED <<outputs, db, sysversion, batch>>
      BY <2>2 DEF SaveCheckpoint
    <3>2. Known(Current)
      <4>1. Halt # Nop
        BY DEF Halt, Nop
      <4>2. ~(plan = <<Halt>> /\ pc = 0)
        BY <3>1, <4>1, SMTT(30)
      <4> QED BY <3>1, <4>2 DEF WaitsInv
    <3>3. Settled' = Settled \cup {checkpoint + 1} /\ outputs[checkpoint + 1] = Current
      BY <2>0, <3>1 DEF Settled, Current
    <3> QED BY <2>0, <3>1, <3>2, <3>3 DEF WaitsInv, KnownVersionsOnly
  <2>3. CASE LoadBatch
    BY <2>1, <2>3 DEF LoadBatch, WaitsInv
  <2>4. CASE Handle
    <3>1. /\ UNCHANGED <<outputs, db, sysversion, checkpoint, batch, settled>>
          /\ Current' = Current /\ checkpoint < batch
          /\ plan' = HandleOutput(db, sysversion, Current) /\ pc' = 0
      BY <2>4 DEF Handle, Current
    <3>2. checkpoint < Len(outputs) /\ TypedOutput(Current)
      BY <3>1, HandleReads DEF IInv, Control
    <3>3. sysversion \in 2..SysVersion
      BY <2>0, <3>1 DEF WaitsInv
    <3>4. Known(Current) \/ plan' = <<Halt>>
      BY <3>1, <3>2, <3>3, UnknownHalts
    <3> QED BY <2>1, <3>1, <3>4 DEF WaitsInv
  <2>5. CASE Abandon
    BY <2>0, <2>1, <2>5 DEF Abandon, WaitsInv
  <2>6. CASE Execute
    <3>1. PICK k \in 1..Len(plan) : IsNext(k) /\ (Commit(k) \/ Abandon)
      BY <2>6 DEF Execute
    <3>2. CASE Commit(k)
      <4>1. /\ db' = Apply(db, plan[k]) /\ busy /\ k > pc
            /\ UNCHANGED <<outputs, sysversion, checkpoint, batch, busy, plan, settled>>
            /\ Current' = Current
        BY <2>6, <3>1, <3>2 DEF Commit, Execute, IsNext, Current
      <4>2. checkpoint < batch /\ TablesShape(db)
        BY <4>1 DEF IInv, Control, TablesInv, During, Past
      <4>3. db'.sysversion = IF plan[k].t = "sysversion" THEN plan[k].data ELSE db.sysversion
        BY <4>1, <4>2, ApplyVersion
      <4>4. plan[k].t = "sysversion" => plan[k].data \in Int /\ sysversion < plan[k].data
        BY <4>1 DEF VInv, PendingInv
      <4>5. Known(Current)
        <5>1. plan[k] # Halt
          BY <3>2 DEF Commit
        <5>2. ASSUME plan = <<Halt>> PROVE FALSE
          <6>1. Len(plan) = 1 /\ plan[1] = Halt
            BY <5>2
          <6> QED BY <5>1, <6>1
        <5> QED BY <4>1, <5>2 DEF WaitsInv
      <4> QED BY <2>0, <2>1, <4>1, <4>2, <4>3, <4>4, <4>5 DEF WaitsInv
    <3> QED BY <2>5, <3>1, <3>2
  <2>7. CASE UNCHANGED vars
    BY <2>1, <2>7 DEF vars, WaitsInv, Current
  <2>8. ASSUME NEW i \in Inputs, Receive(i) PROVE WaitsInv' /\ KnownVersionsOnly'
    BY <2>1, <2>8 DEF Receive, WaitsInv
  <2> QED BY <2>2, <2>3, <2>4, <2>5, <2>6, <2>7, <2>8 DEF Next, Fault
<1>3. Inv => KnownVersionsOnly
  OBVIOUS
<1> HIDE DEF Inv
<1> QED BY <1>1, <1>2, <1>3, PTL DEF Spec
=============================================================================
