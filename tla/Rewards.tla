------------------------------- MODULE Rewards ------------------------------
(***************************************************************************)
(* What a claim of a DT deck is worth: set_dist_factor and                 *)
(* set_proposer_reward of ProposalState and set_reward of DonationState    *)
(* (dt_states.py).                                                         *)
(*                                                                         *)
(* The code multiplies quotients.  Each Decimal quotient and product is    *)
(* rounded to getcontext().prec significant digits, half to even, and the  *)
(* proposer's share is a float.  A fraction n / d is a pair <<n, d>> here; *)
(* the precisions are constants, since TLC's integers have 32 bits.        *)
(***************************************************************************)
EXTENDS Integers, FiniteSets, Sums

CONSTANTS
  Digits,          \* significant digits of a Decimal: 15 in the code
  Bits,            \* significant bits of a float: 53 in the code
  ReqAmount,       \* proposal -> req_amount
  EpochReward      \* deck.epoch_reward in token units

(* The nearest integer, the even one of two that are equally near. *)
HalfEven(n, d) ==
  LET q == n \div d
      twice == 2 * (n % d)
  IN  IF twice > d \/ (twice = d /\ q % 2 = 1) THEN q + 1 ELSE q

(* x with as many significant digits to the base.                          *)
Rounded(x, base, digits) ==
  LET n == x[1]
      d == x[2]
      fits(k) == n < base ^ (digits + k) * d
      \* with s places after the point nothing is lost, or all digits are used
      ready(s) == (n * base ^ s) % d = 0 \/ n * base ^ s >= base ^ (digits - 1) * d
  IN  IF fits(0)
        THEN LET places == CHOOSE s \in 0 .. digits + d :
                             ready(s) /\ \A t \in 0 .. s - 1 : ~ready(t)
             IN  <<HalfEven(n * base ^ places, d), base ^ places>>
        ELSE LET zeros == CHOOSE k \in 1 .. n : fits(k) /\ ~fits(k - 1)
             IN  <<HalfEven(n, d * base ^ zeros) * base ^ zeros, 1>>

Decimal(x) == Rounded(x, 10, Digits)
Float(x) == Rounded(x, 2, Bits)
Times(x, y) == Decimal(<<x[1] * y[1], x[2] * y[2]>>)
Whole(x) == x[1] \div x[2]

(* set_dist_factor: the proposals in S end in one epoch and share its reward. *)
DistFactor(p, S) ==
  IF Cardinality(S) > 1 THEN Decimal(<<ReqAmount[p], Sum(S, ReqAmount)>>) ELSE <<1, 1>>

TotalReward(p, S) == Times(<<EpochReward, 1>>, DistFactor(p, S))

(* set_reward: a donation that fills a slot of p. *)
DonorReward(slot, p, S) ==
  Whole(Times(Decimal(<<slot, ReqAmount[p]>>), TotalReward(p, S)))

(* set_proposer_reward: what the donations leave of the request. *)
ProposerReward(unfilled, p, S) ==
  Whole(Times(Float(<<unfilled, ReqAmount[p]>>), TotalReward(p, S)))

=============================================================================
