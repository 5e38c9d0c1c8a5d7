--------------------------- MODULE ProposalRounds ---------------------------
(***************************************************************************)
(* The life of a proposal of a DT deck in blocks: get_proposal_states      *)
(* (dt_parser_utils.py), the rounds and periods of a ProposalState         *)
(* (set_rounds and modify of dt_states.py), and the table that block       *)
(* numbers are looked up in (dt_periods.py).                               *)
(*                                                                         *)
(* The chain grows by proposal transactions, modifications and votes.  An  *)
(* application parses it again at any time, from nothing: Parse is one     *)
(* run of the parser over the proposals, with every epoch up to the        *)
(* height processed (force_continue).  How votes are weighed is in         *)
(* DTParser; here a proposal is in favour or not.                          *)
(***************************************************************************)
EXTENDS Integers, Sequences, FiniteSets

CONSTANTS
  EpochLength,   \* deck.epoch_length, in blocks
  Addr,          \* donation addresses
  Terms,         \* what transactions ask for: a number of epochs and an amount
  Heights,       \* bound: the heights at which something happens
  MaxPtxes       \* bound: number of proposal transactions

(* A round unit of one block at least needs epochs of 28.                  *)
ASSUME EpochAssumption == EpochLength \in Nat /\ EpochLength >= 28
ASSUME TermsAssumption == Terms \subseteq [epochs : Nat, amount : Nat]
ASSUME BoundsAssumption == Heights \subseteq Nat /\ 0 \in Heights /\ MaxPtxes \in Nat

VARIABLES
  height,     \* the last block
  ptxes,      \* ProposalTransactions in the order of the chain
  favoured,   \* the proposals that the votes so far are in favour of
  states      \* the ProposalStates that the last parse has returned

vars == <<height, ptxes, favoured, states>>

-----------------------------------------------------------------------------
(* The schedule of a proposal: ProposalState.set_rounds.  A period or      *)
(* round is a pair of its first and its last block.                        *)

(* Mutant: the round unit is rounded up. *)
Bug_RoundUnit == (EpochLength + 27) \div 28

RoundUnit == EpochLength \div 28

SecurityLength == IF RoundUnit > 2 THEN RoundUnit ELSE 2
VotingLength == 8 * RoundUnit
ReleaseLength == 8 * RoundUnit

Epoch(block) == block \div EpochLength
EpochStart(epoch) == epoch * EpochLength
Span(start, length) == <<start, start + length - 1>>

(* The two halves of a round: signalling, then locking or donation.        *)
Halves(start, duration) ==
  <<<<start, start + (duration \div 2) - 1>>, <<start + (duration \div 2), start + duration - 1>>>>

(* The first round of phase 1 is three times as long as the others. *)
PhaseOneRounds(start) ==
  <<Halves(start, 6 * RoundUnit), Halves(start + 6 * RoundUnit, 2 * RoundUnit),
    Halves(start + 8 * RoundUnit, 2 * RoundUnit), Halves(start + 10 * RoundUnit, 2 * RoundUnit)>>

(* Mutant: the rounds are counted from 0. *)
Bug_PhaseTwoRounds(start) ==
  [i \in 0 .. 3 |-> Halves(start + 2 * RoundUnit * i, 2 * RoundUnit)]

PhaseTwoRounds(start) ==
  [i \in 1 .. 4 |-> Halves(start + 2 * RoundUnit * (i - 1), 2 * RoundUnit)]

(* Mutant: the release period is not left free. *)
Bug_PhaseTwo(ps, end) ==
  LET start == EpochStart(end)
  IN  [ps EXCEPT !.end_epoch = end,
                 !.security_p2 = Span(start, SecurityLength),
                 !.voting_p2 = Span(start + SecurityLength, VotingLength),
                 !.release_period = Span(start + SecurityLength + VotingLength, ReleaseLength),
                 !.rounds_p2 = PhaseTwoRounds(start + SecurityLength + VotingLength)]

(* The part of set_rounds that is done again for modifications. *)
PhaseTwo(ps, end) ==
  LET start == EpochStart(end)
  IN  [ps EXCEPT !.end_epoch = end,
                 !.security_p2 = Span(start, SecurityLength),
                 !.voting_p2 = Span(start + SecurityLength, VotingLength),
                 !.release_period = Span(start + SecurityLength + VotingLength, ReleaseLength),
                 !.rounds_p2 = PhaseTwoRounds(start + SecurityLength + VotingLength + ReleaseLength)]

(* Mutant: the locks end one epoch before phase 2. *)
Bug_RequiredTimelock(epoch, tx) == EpochStart(epoch + tx.epochs)

(* set_required_timelock *)
RequiredTimelock(epoch, tx) == EpochStart(1 + epoch + tx.epochs)

(* The state of a new proposal: life begins in the epoch after the one of  *)
(* its transaction.                                                        *)
NewState(tx) ==
  LET epoch == Epoch(tx.block) + 1
      start == EpochStart(epoch)
  IN  PhaseTwo([first |-> tx, valid |-> tx, start_epoch |-> epoch, end_epoch |-> 0,
                req_amount |-> tx.amount,
                req_timelock |-> RequiredTimelock(epoch, tx),
                security_p1 |-> Span(start, SecurityLength),
                voting_p1 |-> Span(start + SecurityLength, VotingLength),
                rounds_p1 |-> PhaseOneRounds(start + SecurityLength + VotingLength),
                security_p2 |-> <<0, 0>>, voting_p2 |-> <<0, 0>>, release_period |-> <<0, 0>>,
                rounds_p2 |-> <<>>, decision |-> "none"],
               epoch + tx.epochs + 1)

(* modify: phase 2 is set again, and end_epoch with it; then end_epoch     *)
(* is set once more, without the epoch that set_rounds has added.          *)
Modify(ps) ==
  LET end == ps.start_epoch + ps.valid.epochs
      moved == IF ps.first.epochs = ps.valid.epochs THEN ps
               ELSE [PhaseTwo(ps, end + 1) EXCEPT !.end_epoch = end]
  IN  [moved EXCEPT !.req_amount = ps.valid.amount]

-----------------------------------------------------------------------------
(* The periods that a block can be in, in the order of get_period_dict;    *)
(* the last one has no end.                                                *)

(* get_period_dict: A and B, the working period C, D, and E, without end.  *)
(* What remains of the last epoch is a period of its own, if there is any. *)
Periods(ps) ==
  LET dist_end == EpochStart(ps.end_epoch + 1) - 1
      last == ps.rounds_p2[4][2][2]
  IN  <<<<0, EpochStart(Epoch(ps.first.block)) - 1>>,
        <<EpochStart(Epoch(ps.first.block)), ps.security_p1[1] - 1>>,
        ps.security_p1, ps.voting_p1,
        ps.rounds_p1[1][1], ps.rounds_p1[1][2], ps.rounds_p1[2][1], ps.rounds_p1[2][2],
        ps.rounds_p1[3][1], ps.rounds_p1[3][2], ps.rounds_p1[4][1], ps.rounds_p1[4][2],
        <<ps.rounds_p1[4][2][2] + 1, ps.security_p2[1] - 1>>,
        ps.security_p2, ps.voting_p2, ps.release_period,
        ps.rounds_p2[1][1], ps.rounds_p2[1][2], ps.rounds_p2[2][1], ps.rounds_p2[2][2],
        ps.rounds_p2[3][1], ps.rounds_p2[3][2], ps.rounds_p2[4][1], ps.rounds_p2[4][2]>>
      \o (IF last < dist_end THEN <<<<last + 1, dist_end>>>> ELSE <<>>)
      \o <<<<dist_end + 1>>>>

(* The test of period_query: the period without end takes any later block. *)
InPeriod(block, periods, i) ==
  periods[i][1] <= block /\ (i < Len(periods) => block <= periods[i][2])

-----------------------------------------------------------------------------
(* The parser *)

None == 0   \* no first_ptx_txid; transactions are numbered from 1

(* get_proposal_states: a transaction without a reference is a new         *)
(* proposal ...                                                            *)
Firsts(list) == {n \in DOMAIN list : list[n].first_ptx = None}

(* ... and one that refers to it, with its donation address, is the        *)
(* valid one from then on.                                                 *)
ModifiedBy(list, n) ==
  {m \in DOMAIN list : /\ list[m].first_ptx = n /\ m > n
                       /\ list[m].donation_address = list[n].donation_address}

ValidTx(list, n) ==
  LET modifications == ModifiedBy(list, n)
  IN  IF modifications = {} THEN list[n]
      ELSE list[CHOOSE m \in modifications : \A k \in modifications : k <= m]

(* update_approved_proposals: after the first voting period a proposal is  *)
(* modified and approved, or abandoned.                                    *)
Decide(ps, approved) ==
  IF height < ps.voting_p1[2] THEN ps
  ELSE IF ~approved THEN [ps EXCEPT !.decision = "abandoned"]
  ELSE [(IF ps.first = ps.valid THEN ps ELSE Modify(ps)) EXCEPT !.decision = "approved"]

(* Mutant: the state is made of the valid transaction, as if it were the first. *)
Bug_ProposalState(list, n) == NewState(ValidTx(list, n))

ProposalState(list, n) == [NewState(list[n]) EXCEPT !.valid = ValidTx(list, n)]

Init == height = 0 /\ ptxes = <<>> /\ favoured = {} /\ states = <<>>

Grow == height' \in {h \in Heights : h >= height}

(* A new proposal, or a modification of any earlier transaction. *)
Submit ==
  /\ Len(ptxes) < MaxPtxes
  /\ Grow
  /\ \E terms \in Terms, addr \in Addr, n \in 0 .. Len(ptxes) :
       ptxes' = Append(ptxes, [first_ptx |-> n, donation_address |-> addr, block |-> height',
                               epochs |-> terms.epochs, amount |-> terms.amount])
  /\ UNCHANGED <<favoured, states>>

(* Blocks without proposal transactions; in its start epoch, votes may     *)
(* turn a proposal's result round (process_votes takes the epoch's votes). *)
Mine ==
  /\ Grow
  /\ \E turned \in SUBSET {n \in Firsts(ptxes) : Epoch(ptxes[n].block) + 1 = Epoch(height')} :
       favoured' = (favoured \ turned) \cup (turned \ favoured)
  /\ UNCHANGED <<ptxes, states>>

Parse ==
  /\ states' = [n \in Firsts(ptxes) |-> Decide(ProposalState(ptxes, n), n \in favoured)]
  /\ UNCHANGED <<height, ptxes, favoured>>

Next == Submit \/ Mine \/ Parse

Spec == Init /\ [][Next]_vars

-----------------------------------------------------------------------------
(* Properties *)

Block == Nat
Ptx == [first_ptx : Nat, donation_address : Addr, block : Block, epochs : Nat, amount : Nat]
Interval == Block \X Int
Round == Interval \X Interval

State ==
  [first : Ptx, valid : Ptx, start_epoch : Nat, end_epoch : Nat, req_amount : Nat,
   req_timelock : Block, security_p1 : Interval, voting_p1 : Interval,
   rounds_p1 : [1 .. 4 -> Round], security_p2 : Interval, voting_p2 : Interval,
   release_period : Interval, rounds_p2 : [1 .. 4 -> Round],
   decision : {"none", "approved", "abandoned"}]

(* Type invariant: states are kept under proposals' first transactions     *)
(* (get_proposal_states), never under modifications.                       *)
TypeOK ==
  /\ height \in Heights
  /\ ptxes \in Seq(Ptx) /\ Len(ptxes) <= MaxPtxes
  /\ favoured \subseteq Firsts(ptxes)
  /\ DOMAIN states \subseteq Firsts(ptxes)
  /\ \A n \in DOMAIN states : states[n] \in State

(* The schedule is the one of the first transaction. *)
Unmoved(ps) == ps.first.epochs = ps.valid.epochs \/ ps.decision # "approved"

(* Every block is in exactly one period of a proposal, so that a wallet    *)
(* that asks period_query what to do next is told one thing: no gap and    *)
(* no overlap, whatever is left over by the division of the epoch.         *)
OnePeriodPerBlock ==
  \A n \in DOMAIN states : Unmoved(states[n]) =>
    LET periods == Periods(states[n])
    IN  \A block \in 0 .. EpochStart(states[n].end_epoch + 1) :
          Cardinality({i \in DOMAIN periods : InPeriod(block, periods, i)}) = 1

InEpoch(interval, epoch) ==
  EpochStart(epoch) <= interval[1] /\ interval[2] < EpochStart(epoch + 1)

(* The rounds of phase 1 fit in the epoch in which the proposal starts,    *)
(* and those of phase 2 in the one in which it ends, at whose close        *)
(* update_valid_ending_proposals shares out the reward: no donation of a   *)
(* round can come after it.                                                *)
RoundsInEpochs ==
  \A n \in DOMAIN states : Unmoved(states[n]) =>
    \A r \in 1 .. 4, half \in 1 .. 2 :
      /\ InEpoch(states[n].rounds_p1[r][half], states[n].start_epoch)
      /\ InEpoch(states[n].rounds_p2[r][half], states[n].end_epoch)

(* Donations are locked until phase 2 of the proposal begins, and not      *)
(* longer: "Required timelock consists in the original start of phase 2".  *)
LockedUntilPhaseTwo ==
  \A n \in DOMAIN states : Unmoved(states[n]) =>
    /\ states[n].req_timelock = states[n].security_p2[1]
    /\ states[n].rounds_p1[4][2][2] < states[n].req_timelock

(* Donors rely on phase 1 and on the time their coins are locked: no later *)
(* parse, with whatever modifications by then, gives them others.          *)
PhaseOneKept ==
  [][\A n \in DOMAIN states \cap DOMAIN states' :
       /\ states'[n].start_epoch = states[n].start_epoch
       /\ states'[n].rounds_p1 = states[n].rounds_p1
       /\ states'[n].req_timelock = states[n].req_timelock]_vars

-----------------------------------------------------------------------------
(* Statements of the code's comments that it does not keep. *)

(* "Re-setting end epoch and rounds/periods for second phase" (modify):    *)
(* the rounds of a modified proposal too are in the epoch it ends in.      *)
ModifiedRoundsInEpochs ==
  \A n \in DOMAIN states :
    \A r \in 1 .. 4, half \in 1 .. 2 :
      InEpoch(states[n].rounds_p2[r][half], states[n].end_epoch)

(* "When this method is called, we already know the last (and thus valid)  *)
(* Proposal Modification": what an approved proposal asks for is final.    *)
ApprovedTermsStand ==
  [][\A n \in DOMAIN states \cap DOMAIN states' :
       (states[n].decision = "approved" /\ states'[n].decision = "approved") =>
         states'[n].valid = states[n].valid]_vars

=============================================================================
