-------------------------------- MODULE Wire --------------------------------
(***************************************************************************)
(* The memos of proposals on the wire: mtg.Encode and mtg.Scan, the action *)
(* numbers, the wrapper of version 2, the contents of core/proposal, and   *)
(* who writes them: the command line, the vote button and the node itself. *)
(*                                                                         *)
(* A memo is a sequence of bytes.  The bytes of an opaque value (a uuid, a *)
(* string, a decimal's digits) are that value, as often as it has bytes:   *)
(* only lengths, numbers and framing are told apart.                       *)
(***************************************************************************)
EXTENDS Integers, Sequences, SequencesExt

(***************************************************************************)
(* Values: BitInt, int, uuid.UUID, string or RawMessage, decimal.Decimal   *)
(***************************************************************************)
Bit(n)     == [t |-> "bit", v |-> n]
Number(n)  == [t |-> "int", v |-> n]
Uuid(x)    == [t |-> "uuid", v |-> x]
Text(x)    == [t |-> "str", v |-> x]
Decimal(d) == [t |-> "decimal", v |-> d]

Nil == "nil"
Zero(t) == CASE t = "uuid" -> Nil [] t = "str" -> <<>> [] OTHER -> 0

\* encoding/binary: seven bits a byte, a signed number's sign in the last bit.
PutUvarint[x \in Nat] ==
  IF x < 128 THEN <<x>> ELSE <<(x % 128) + 128>> \o PutUvarint[x \div 128]
PutVarint(x) == PutUvarint[IF x >= 0 THEN 2 * x ELSE -2 * x - 1]

\* A number cut short reads as zero: scan ignores what Varint says about it.
Varint(data) ==
  LET u[k \in 1..Len(data)] ==
        IF data[k] < 128 THEN data[k] ELSE data[k] - 128 + 128 * u[k + 1]
      x == IF \E k \in 1..Len(data) : data[k] < 128 THEN u[1] ELSE 0
  IN  IF x % 2 = 0 THEN x \div 2 ELSE -((x + 1) \div 2)

\* Four bytes of exponent, a byte for the sign, the digits.
DecimalBytes(d) == <<0, 0, 0, 0, IF d < 0 THEN 3 ELSE 2, IF d < 0 THEN -d ELSE d>>
DecimalOf(b)    == IF b[5] = 3 THEN -b[6] ELSE b[6]

EncodeValue(x) ==
  CASE x.t = "bit"     -> <<x.v % 256>>
    [] x.t = "int"     -> PutVarint(x.v)
    [] x.t = "uuid"    -> [k \in 1..16 |-> x.v]
    [] x.t = "str"     -> x.v
    [] x.t = "decimal" -> DecimalBytes(x.v)

\* The error, if any, and what was read.
ScanValue(t, data) ==
  CASE t = "bit"     -> [ok |-> Len(data) = 1, v |-> data[1]]
    [] t = "int"     -> [ok |-> TRUE, v |-> Varint(data)]
    [] t = "uuid"    -> [ok |-> Len(data) = 16, v |-> data[1]]
    [] t = "str"     -> [ok |-> TRUE, v |-> data]
    [] t = "decimal" -> [ok |-> Len(data) = 6, v |-> DecimalOf(data)]

(***************************************************************************)
(* Every value is a byte of length and that many bytes.  A length of zero  *)
(* leaves the destination as it was, a body that ends early is an error.   *)
(* (Encode refuses a value of more than 255 bytes; none here has as many.) *)
(***************************************************************************)
Frame(b) == <<Len(b)>> \o b
Encode(values) == FlattenSeq([i \in 1..Len(values) |-> Frame(EncodeValue(values[i]))])

ScanNext(r, t) ==
  LET n    == r.rest[1]
      data == SubSeq(r.rest, 2, n + 1)
      val  == ScanValue(t, data)
  IN  IF ~r.ok \/ r.rest = <<>> \/ (r.rest # <<>> /\ Len(r.rest) <= n)
      THEN [r EXCEPT !.ok = FALSE]
      ELSE IF n = 0 THEN [r EXCEPT !.vals = Append(@, Zero(t)), !.rest = Tail(@)]
      ELSE [ok |-> val.ok, vals |-> Append(r.vals, val.v),
            rest |-> SubSeq(r.rest, n + 2, Len(r.rest))]

Scan(body, types) ==
  LET upto[i \in 0..Len(types)] ==
        IF i = 0 THEN [ok |-> TRUE, vals |-> <<>>, rest |-> body]
        ELSE ScanNext(upto[i - 1], types[i])
  IN  upto[Len(types)]

\* msgpack of TransactionAction without a follow id: a map of one key, "b",
\* whose value is the body.
Marshal(body) == <<129, 161, 98, 196, Len(body)>> \o body
IsAction(memo) == Len(memo) >= 5 /\ SubSeq(memo, 1, 2) = <<129, 161>>
Unmarshal(memo) == SubSeq(memo, 6, Len(memo))

(***************************************************************************)
(* core.ActionType: the position is the number.                            *)
(***************************************************************************)
ActionTypes ==
  << "supply", "borrow", "redeem", "repay", "mint", "pledge", "unpledge", "liquidate",
     "redeem-transfer", "unpledge-transfer", "borrow-transfer", "liquidate-transfer",
     "refund-transfer", "repay-refund-transfer", "liquidate-refund-transfer",
     "market", "update-market", "withdraw", "provide-price", "vote", "inject-ctoken",
     "update-advance", "transfer", "close-market", "open-market", "", "", "", "",
     "update", "quick-pledge", "quick-borrow", "quick-borrow-transfer", "quick-redeem",
     "quick-redeem-transfer", "add-oracle-signer", "rm-oracle-signer", "set-property",
     "make", "shout" >>

NumberOf(act) == CHOOSE n \in DOMAIN ActionTypes : ActionTypes[n] = act
ActionOf(n)   == IF n \in DOMAIN ActionTypes THEN ActionTypes[n] ELSE "unknown"

\* Of these core.IsProposalAction still knows, though no proposal may have them.
RetiredActions ==
  {"update-market", "provide-price", "vote", "make", "shout", "inject-ctoken", "update-advance"}

\* Version 1 writes an action as an int; later ones as an ActionType, a byte.
ActionValue(fmt, act) ==
  IF fmt = "plain" THEN Number(NumberOf(act)) ELSE Bit(NumberOf(act))
ActionCodec(fmt) == IF fmt = "plain" THEN "int" ELSE "bit"

Wrap(fmt, body) == IF fmt = "plain" THEN body ELSE Marshal(body)

NumberedMemo(fmt, act, p) == Wrap(fmt, Encode(<<Number(NumberOf(act)), Uuid(p)>>))
\* requestVoteAction, forwardProposal and forwardProposalV1.
ProposalMemo(fmt, act, p) == Wrap(fmt, Encode(<<ActionValue(fmt, act), Uuid(p)>>))

(***************************************************************************)
(* core/proposal: the contents.                                            *)
(***************************************************************************)
Open  == 1
Close == 2

\* The parameters of a market in the order on the wire.
MarketColumns == <<"init", "rf", "li", "cf", "base", "cap", "close", "mult", "jump", "kink">>

MarshalMarket(c) ==
  <<Text(<<c.symbol>>), Uuid(c.asset), Uuid(c.ctoken)>>
    \o [i \in 1..Len(MarketColumns) |-> Decimal(c.p[MarketColumns[i]])]
    \o <<Number(c.p["threshold"]), Decimal(c.price), Decimal(c.p["maxPledge"])>>
MarshalWithdraw(c) == <<Uuid(c.to), Uuid(c.asset), Decimal(c.amount)>>
MarshalStatus(c)   == <<Uuid(c.asset), Number(IF c.act = "open-market" THEN Open ELSE Close)>>
MarshalSigner(c) ==
  IF c.act = "rm-oracle-signer" THEN <<Uuid(c.signer)>>
  ELSE <<Uuid(c.signer), Text(IF c.ok THEN <<"key">> ELSE <<>>)>>
MarshalProperty(c) == <<Text(IF c.key = "" THEN <<>> ELSE <<c.key>>),
                        Text(IF c.ok THEN <<c.value>> ELSE <<>>)>>

MarshalBinary(c) ==
  CASE c.act = "market"       -> MarshalMarket(c)
    [] c.act = "withdraw"     -> MarshalWithdraw(c)
    [] c.act = "set-property" -> MarshalProperty(c)
    [] c.act \in {"open-market", "close-market"} -> MarshalStatus(c)
    [] c.act \in {"add-oracle-signer", "rm-oracle-signer"} -> MarshalSigner(c)

\* A content that cannot be read is an empty one: the error is only logged.
ScanOrZero(body, types) ==
  LET r == Scan(body, types)
  IN  IF r.ok THEN r ELSE [r EXCEPT !.vals = [i \in 1..Len(types) |-> Zero(types[i])],
                                    !.rest = <<>>]

\* The last column is younger than the others and may be missing.
UnmarshalMarket(body) ==
  LET r == ScanOrZero(body, <<"str", "uuid", "uuid">> \o [i \in 1..10 |-> "decimal"]
                              \o <<"int", "decimal">>)
      x == ScanOrZero(r.rest, <<"decimal">>)
      column(n) == r.vals[3 + CHOOSE i \in 1..10 : MarketColumns[i] = n]
  IN  [act |-> "market", symbol |-> IF r.vals[1] = <<>> THEN "" ELSE r.vals[1][1],
       asset |-> r.vals[2], ctoken |-> r.vals[3], price |-> r.vals[15],
       p |-> [n \in {MarketColumns[i] : i \in 1..10} \cup {"threshold", "maxPledge"} |->
                CASE n = "threshold" -> r.vals[14]
                  [] n = "maxPledge" -> x.vals[1]
                  [] OTHER           -> column(n)]]

UnmarshalWithdraw(body) ==
  LET r == ScanOrZero(body, <<"uuid", "uuid", "decimal">>).vals
  IN  [act |-> "withdraw", to |-> r[1], asset |-> r[2], amount |-> r[3]]

UnmarshalStatus(act, body) ==
  LET r == ScanOrZero(body, <<"uuid", "int">>).vals
  IN  [act |-> act, asset |-> IF r[2] \in {Open, Close} THEN r[1] ELSE Nil]

UnmarshalSigner(act, body) ==
  LET added   == ScanOrZero(body, <<"uuid", "str">>).vals
      removed == ScanOrZero(body, <<"uuid">>).vals
  IN  IF act = "rm-oracle-signer" THEN [act |-> act, signer |-> removed[1]]
      ELSE [act |-> act, signer |-> added[1], ok |-> added[2] # <<>>]

UnmarshalProperty(body) ==
  LET r == ScanOrZero(body, <<"str", "str">>).vals
  IN  [act |-> "set-property", key |-> IF r[1] = <<>> THEN "" ELSE r[1][1],
       ok |-> r[2] # <<>>, value |-> IF r[2] = <<>> THEN 0 ELSE r[2][1]]

UnmarshalBinary(act, body) ==
  CASE act = "market"       -> UnmarshalMarket(body)
    [] act = "withdraw"     -> UnmarshalWithdraw(body)
    [] act = "set-property" -> UnmarshalProperty(body)
    [] act \in {"open-market", "close-market"} -> UnmarshalStatus(act, body)
    [] act \in {"add-oracle-signer", "rm-oracle-signer"} -> UnmarshalSigner(act, body)
    [] act \in RetiredActions -> [act |-> "retired"]
    [] OTHER -> [act |-> "foreign"]

\* buildProposalMemo
BuildProposalMemo(c) ==
  Marshal(Encode(<<ActionValue("packed", "make"), ActionValue("packed", c.act)>>
                   \o MarshalBinary(c)))

(***************************************************************************)
(* What the payee reads, in the version the memo is written for.           *)
(***************************************************************************)
ReadBody(fmt, body) ==
  LET head  == Scan(body, <<ActionCodec(fmt)>>)
      act   == ActionOf(head.vals[1])
      made  == Scan(head.rest, <<ActionCodec(fmt)>>)
      trace == ScanOrZero(head.rest, <<"uuid">>).vals[1]
  IN  CASE ~head.ok -> [fmt |-> "none", act |-> "unknown"]
        [] head.ok /\ act \in {"vote", "shout"} -> [fmt |-> fmt, act |-> act, prop |-> trace]
        [] head.ok /\ act = "make" ->
             [fmt |-> fmt, act |-> act, ok |-> made.ok,
              content |-> IF made.ok THEN UnmarshalBinary(ActionOf(made.vals[1]), made.rest)
                          ELSE [act |-> "unreadable"]]
        [] OTHER -> [fmt |-> fmt, act |-> act]

ReadMemo(memo) ==
  IF IsAction(memo) THEN ReadBody("packed", Unmarshal(memo)) ELSE ReadBody("plain", memo)
=============================================================================
