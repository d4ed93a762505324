---------------------------- MODULE AtomicLedger ----------------------------
(***************************************************************************)
(* What the payee promises: every output changes the tables exactly once,  *)
(* in log order and as a whole, under a system version that is at most as  *)
(* new as the one in the tables.  There are no attempts, no partial        *)
(* effects, no locks and no faults here; the last write to a row wins.     *)
(***************************************************************************)
EXTENDS Integers, Sequences

CONSTANTS
  Genesis, Prefix, Inputs, MaxOutputs, SysVersion,
  HandleOutput(_, _, _),   \* what an output does (module Governance)
  ApplyAll(_, _),          \* and how it changes the tables (module Store)
  Halt

VARIABLES log, tables, done

AtomicInit == log = Prefix /\ tables = Genesis /\ done = 0

Pay(i) ==
  /\ Len(log) < MaxOutputs
  /\ log' = Append(log, [i EXCEPT !.id = Len(log) + 1,
                                  !.time = @ + log[Len(log)].time])
  /\ UNCHANGED <<tables, done>>

Settle(v) ==
  LET plan == HandleOutput(tables, v, log[done + 1])
  IN  /\ done < Len(log)
      /\ v <= tables.sysversion
      /\ \A k \in DOMAIN plan : plan[k] # Halt
      /\ tables' = ApplyAll(tables, plan)
      /\ done' = done + 1
      /\ UNCHANGED log

AtomicNext == (\E i \in Inputs : Pay(i)) \/ (\E v \in 0..SysVersion : Settle(v))

AtomicSpec == AtomicInit /\ [][AtomicNext]_<<log, tables, done>>
=============================================================================
