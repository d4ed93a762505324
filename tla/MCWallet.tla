------------------------------ MODULE MCWallet ------------------------------
(***************************************************************************)
(* Instances of module Wallet: two nodes of two, and deposits that make    *)
(* the assigner merge, queue and skip.                                     *)
(***************************************************************************)
EXTENDS WalletSafety

CONSTANTS n1, n2

Pay(asset, amount) == [asset |-> asset, amount |-> amount]
In(asset, amount, pays) == [asset |-> asset, amount |-> amount, pays |-> pays]

\* Three outputs for one transfer: two are merged first.
MCMerge == <<In("A", 1, <<>>), In("A", 1, <<>>), In("A", 1, <<Pay("A", 3)>>)>>

\* A transfer waits for its asset.  One of nothing behind it (a release of
\* zero ctokens) must not take the output it waits for, and is left without.
MCQueue == <<In("A", 1, <<Pay("B", 1), Pay("B", 0)>>), In("B", 1, <<>>)>>
=============================================================================
