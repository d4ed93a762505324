-------------------------------- MODULE Payee --------------------------------
(***************************************************************************)
(* The payee worker (worker/payee/payee.go): a loop that loads the system  *)
(* version, lists the outputs behind the checkpoint, and for each of them  *)
(* runs its handler and saves the checkpoint.  There is no transaction     *)
(* around a handler: every statement commits on its own and the process    *)
(* may stop, or the database fail, between any two.  The next round starts *)
(* again at the checkpoint and runs the handler on whatever the statements *)
(* that did commit left behind.                                            *)
(***************************************************************************)
EXTENDS Governance

CONSTANTS
  Genesis,     \* the tables before the first output
  Prefix,      \* outputs already on chain when the model starts
  Inputs,      \* payments users, members and oracles may make next
  BatchLimit,  \* walletStore.List limit (500 in the code)
  MaxOutputs,  \* bound: outputs in a behaviour
  MaxFaults    \* bound: crashes and failed statements in a behaviour

ASSUME BoundsAssumption ==
  BatchLimit \in Nat \ {0} /\ MaxOutputs \in Nat /\ MaxFaults \in Nat

\* The log is a sequence in the order of the outputs' ids, and an input is an
\* output whose id is yet to be given.  A vote or a shout names a proposal, made or
\* not, and a memo that scans names an asset, listed or not, and a user.
Asking == {"borrow", "unpledge", "quick-redeem", "quick-borrow", "liquidate"}

TypedOutput(o) ==
  /\ {"id", "act", "sender", "cur"} \subseteq DOMAIN o
  /\ o.sender \in Users \cup {NoSender} /\ o.cur.asset \in Assets
  /\ o.act = "price" => "asset" \in DOMAIN o /\ o.asset \in Assets
  /\ o.act \in Asking => {"ok", "asset"} \subseteq DOMAIN o /\ (o.ok => o.asset \in Assets)
  /\ o.act = "liquidate" => "user" \in DOMAIN o /\ (o.ok => o.user \in Users)
  /\ o.act = "make" => "content" \in DOMAIN o /\ TypedContent(o.content)
  /\ o.act \in {"vote", "shout"} => "prop" \in DOMAIN o /\ o.prop \in Proposals

ASSUME LogAssumption ==
  /\ Prefix \in Seq({Prefix[k] : k \in DOMAIN Prefix})
  /\ \A k \in 1..Len(Prefix) : Prefix[k].id = k /\ TypedOutput(Prefix[k])
  /\ \A i \in Inputs : TypedOutput(i)

\* The deployment starts with tables no output has written, in a version its
\* build knows; only one that starts with version 0 has the addresses of 0, and
\* their users are in the pages.  (Users whom a
\* payment creates have both addresses.)
ASSUME GenesisAssumption ==
  /\ TablesShape(Genesis)
  /\ Genesis.tx = {} /\ Genesis.transfer = {}
  /\ \A r \in Rows : Genesis.ver[r] = 0
  /\ \A p \in Proposals : Genesis.proposal[p] = NoProposal
  /\ Genesis.sysversion \in 0..SysVersion
  /\ Genesis.sysversion = 0 \/ Genesis.legacy = {}
  /\ Genesis.legacy \subseteq UNION {UserPages[i] : i \in 1..Len(UserPages)}

VARIABLES
  outputs,     \* the outputs table, position = id
  db,          \* the tables of module Store
  sysversion,  \* w.sysversion: read once per batch
  checkpoint,  \* property "outputs_checkpoint"
  batch,       \* id of the last output listed; = checkpoint when between runs
  busy,        \* an attempt at output checkpoint+1 is in progress
  plan,        \* its statements
  pc,          \* how many of them have been issued
  faults,      \* crashes so far
  settled      \* history: the tables when the checkpoint was last saved

vars == <<outputs, db, sysversion, checkpoint, batch, busy, plan, pc, faults,
          settled>>

Current == outputs[checkpoint + 1]

Init ==
  /\ outputs = Prefix
  /\ db = Genesis
  /\ settled = Genesis
  /\ sysversion = 0
  /\ checkpoint = 0
  /\ batch = 0
  /\ busy = FALSE
  /\ plan = <<>>
  /\ pc = 0
  /\ faults = 0

(***************************************************************************)
(* The environment: a new output at the end of the log (walletStore        *)
(* saves them in order; see module OutputSync).  No handler reads the log, *)
(* so arrivals during an attempt add nothing and are left out.             *)
(***************************************************************************)
Receive(i) ==
  /\ Len(outputs) < MaxOutputs
  /\ checkpoint >= Len(Prefix)
  /\ ~busy
  /\ outputs' = Append(outputs,
       [i EXCEPT !.id = Len(outputs) + 1,
                 !.time = i.time + outputs[Len(outputs)].time])
  /\ UNCHANGED <<db, sysversion, checkpoint, batch, busy, plan, pc, faults, settled>>

(***************************************************************************)
(* run: one batch.                                                         *)
(***************************************************************************)
LoadFullBatch ==
  /\ ~busy
  /\ batch = checkpoint
  /\ checkpoint < Len(outputs)
  /\ sysversion' = db.sysversion
  /\ batch' = checkpoint + BatchLimit
  /\ UNCHANGED <<outputs, db, checkpoint, busy, plan, pc, faults, settled>>

LoadBatch ==
  /\ ~busy
  /\ batch = checkpoint
  /\ checkpoint < Len(outputs)
  /\ sysversion' = db.sysversion
  /\ batch' = Lesser(Len(outputs), checkpoint + BatchLimit)
  /\ UNCHANGED <<outputs, db, checkpoint, busy, plan, pc, faults, settled>>

Handle ==
  /\ ~busy
  /\ checkpoint < batch
  /\ busy' = TRUE
  /\ plan' = HandleOutput(db, sysversion, Current)
  /\ pc' = 0
  /\ UNCHANGED <<outputs, db, sysversion, checkpoint, batch, faults, settled>>

\* The k-th statement is the next one the handler really issues.
IsNext(k) == /\ k > pc
             /\ plan[k] # Nop
             /\ \A j \in pc+1..k-1 : plan[j] = Nop

\* run returns the error and the next round lists again from the checkpoint.
Abandon ==
  /\ busy' = FALSE
  /\ plan' = <<>>
  /\ pc' = 0
  /\ batch' = checkpoint
  /\ UNCHANGED <<outputs, db, sysversion, checkpoint, settled>>

\* One statement: it commits, or it meets a lock or an error and the attempt
\* is over.
Commit(k) ==
  /\ plan[k] # Halt /\ LockHeld(db, plan[k])
  /\ db' = Apply(db, plan[k])
  /\ pc' = k
  /\ UNCHANGED <<outputs, sysversion, checkpoint, batch, busy, plan, faults, settled>>

Execute ==
  /\ busy
  /\ \E k \in 1..Len(plan) :
       /\ IsNext(k)
       /\ \/ Commit(k)
          \/ /\ plan[k] = Halt \/ ~LockHeld(db, plan[k])
             /\ Abandon /\ UNCHANGED faults

SaveCheckpoint ==
  /\ busy
  /\ \A k \in pc+1..Len(plan) : plan[k] = Nop
  /\ checkpoint' = checkpoint + 1
  /\ settled' = db
  /\ busy' = FALSE
  /\ plan' = <<>>
  /\ pc' = 0
  /\ UNCHANGED <<outputs, db, sysversion, batch, faults>>

\* The process dies, or a statement fails, at any point of a batch.
Fault ==
  /\ faults < MaxFaults
  /\ checkpoint >= Len(Prefix)
  /\ busy
  /\ faults' = faults + 1
  /\ Abandon

Next ==
  \/ \E i \in Inputs : Receive(i)
  \/ LoadBatch
  \/ Handle
  \/ Execute
  \/ SaveCheckpoint
  \/ Fault

Spec == Init /\ [][Next]_vars

\* Run retries for ever: with work to do the worker does not stay idle (the
\* fairness of module Council).
Worker == LoadBatch \/ Handle \/ Execute \/ SaveCheckpoint
HasWork == busy \/ checkpoint < Len(outputs)
=============================================================================
