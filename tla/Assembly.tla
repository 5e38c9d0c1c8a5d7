------------------------------ MODULE Assembly ------------------------------
(***************************************************************************)
(* The transactions that dt_misc_utils.create_unsigned_tx and              *)
(* __main__.card_transfer make of their arguments, the inputs that         *)
(* RpcNode.select_inputs finds for them, and what the constructors of      *)
(* at/dt_entities read from such a transaction.  Values are in the         *)
(* smallest unit of the coin.  An output knows its position only by its    *)
(* place in the sequence: what it was meant for is not written on it.      *)
(***************************************************************************)
EXTENDS Integers, Sequences, FiniteSets, Sums

CONSTANTS
  TxFee,     \* min_tx_fee, or the fee the caller gives
  P2thFee,   \* value of the output to a P2TH address, and least change
  DataFee    \* value of the OP_RETURN output: min_tx_fee on legacy chains, else 0

ASSUME FeesAssumption == TxFee \in Nat \ {0} /\ P2thFee \in Nat \ {0} /\ DataFee \in Nat

None == -1

Tracked == {"proposal", "donation", "locking", "signalling", "voting"}
Paying == {"donation", "locking", "signalling"}

Output(value, script, to) == [value |-> value, script |-> script, to |-> to]

(* A P2TH address is given by the kind of transaction it is for.           *)
Outputs ==
  [value : Nat, script : {"p2pkh", "p2sh", "nulldata"}, to : Tracked \cup {"card"} \cup STRING]

(* The arguments of create_unsigned_tx and of card_transfer.               *)
TrackedRequests ==
  [kind : Tracked, from : STRING, to : STRING, amount : Nat, reserved : Nat \cup {None},
   spends : STRING, decodes : BOOLEAN]
CardRequests == [kind : {"card"}, from : STRING, receivers : Seq(STRING)]

(* P2TH in output 0, OP_RETURN in output 1. *)
Heading(kind) == <<Output(P2thFee, "p2pkh", kind), Output(DataFee, "nulldata", kind)>>

-----------------------------------------------------------------------------
(* create_unsigned_tx                                                      *)

ValueOutput(r) ==
  IF r.kind \in Paying
    THEN <<Output(r.amount, IF r.kind = "locking" THEN "p2sh" ELSE "p2pkh", r.to)>>
    ELSE <<>>

(* Mutant: a transaction without reservation gets an output for it, too. *)
Bug_ReserveOutput(r) ==
  <<Output(IF r.reserved = None THEN 0 ELSE r.reserved, "p2pkh", r.from)>>

ReserveOutput(r) ==
  IF r.reserved = None THEN <<>> ELSE <<Output(r.reserved, "p2pkh", r.from)>>

(* Mutant: the value of the OP_RETURN output is forgotten. *)
Bug_Complete(r) ==
  (IF r.kind \in Paying THEN r.amount ELSE 0)
    + (IF r.reserved = None THEN 0 ELSE r.reserved) + P2thFee + TxFee

(* complete_amount: "proposal and vote types do not have amount". *)
Complete(r) ==
  (IF r.kind \in Paying THEN r.amount ELSE 0)
    + (IF r.reserved = None THEN 0 ELSE r.reserved) + P2thFee + DataFee + TxFee

(* Change too small for an output is left to the fee.                      *)
WithChange(outs, change, to) ==
  IF change >= P2thFee THEN Append(outs, Output(change, "p2pkh", to)) ELSE outs

(* The transaction, if the input has at least the complete amount; with    *)
(* less, an exception is raised.                                           *)
Enough(r, input) == input >= Complete(r)
TrackedOutputs(r, input) ==
  WithChange(Heading(r.kind) \o ValueOutput(r) \o ReserveOutput(r),
             input - Complete(r), r.from)

-----------------------------------------------------------------------------
(* card_transfer: the minimum value goes to the OP_RETURN output and to    *)
(* each receiver; all the rest is change, which is always an output.  A    *)
(* negative value cannot be written into a transaction.                    *)

CardRest(r, input) == input - TxFee - P2thFee - (1 + Len(r.receivers)) * DataFee
CardOutputs(r, input) ==
  Heading("card") \o [i \in DOMAIN r.receivers |-> Output(DataFee, "p2pkh", r.receivers[i])]
    \o <<Output(CardRest(r, input), "p2pkh", r.from)>>

-----------------------------------------------------------------------------
(* select_inputs: the coins of an address, those with the fewest           *)
(* confirmations (the greatest height) first, until they are enough; how   *)
(* coins of one height are ordered is up to the node.                      *)

Value(coins) == Sum(coins, [c \in coins |-> c.value])

Selections(coins, amount) ==
  {S \in SUBSET coins :
     /\ Value(S) >= amount
     /\ \A c \in S, d \in coins \ S : c.height >= d.height
     /\ \E c \in S : Value(S \ {c}) < amount /\ \A d \in S : c.height <= d.height}

-----------------------------------------------------------------------------
(* What a tracked transaction says to its reader.  The donation, lock or   *)
(* signal is in output 2; output 3 is taken for the reservation of a       *)
(* locking or donation transaction, if there is one.                       *)

HasFormat(outs) == Len(outs) >= 3
ReadAmount(kind, outs) == IF kind \in Paying THEN outs[3].value ELSE 0

ReadReserve(kind, outs) ==
  IF kind \in {"locking", "donation"} /\ Len(outs) > 3 THEN outs[4].value ELSE None

=============================================================================
