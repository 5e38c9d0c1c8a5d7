------------------------ MODULE ProposalRoundsProofs ------------------------
(***************************************************************************)
(* For every length of an epoch of at least 28 blocks, every chain of      *)
(* proposal transactions and every sequence of parses: the rounds are in   *)
(* their epochs, every block is in one period, donations are locked until  *)
(* phase 2 begins, phase 1 never changes, and only who made a proposal     *)
(* modifies it.                                                            *)
(***************************************************************************)
EXTENDS ProposalRounds, CollectionsTheorems

-----------------------------------------------------------------------------
(* Epochs and units *)

(* 28 units fit into an epoch, and a unit has at least one block.          *)
LEMMA UnitsFit ==
  /\ RoundUnit \in Nat /\ RoundUnit >= 1
  /\ 28 * RoundUnit <= EpochLength
BY EpochAssumption, SMT DEF RoundUnit

LEMMA EpochType == \A block \in Nat : Epoch(block) \in Nat
BY EpochAssumption, SMT DEF Epoch

LEMMA EpochStartType == \A e \in Nat : EpochStart(e) \in Nat
BY EpochAssumption, SMT DEF EpochStart

(* An epoch has EpochLength blocks, and later epochs begin later.          *)
LEMMA NextEpoch == \A e \in Nat : EpochStart(e + 1) = EpochStart(e) + EpochLength
BY EpochAssumption, SMT DEF EpochStart

LEMMA EpochsGrow == \A e, n \in Nat : EpochStart(e + 1) <= EpochStart(e + n + 1)
<1>1. SUFFICES ASSUME NEW e \in Nat, NEW n \in Nat
               PROVE  EpochStart(e + 1) <= EpochStart(e + n + 1)
  OBVIOUS
<1>2. EpochStart(e + n + 1) = EpochStart(e + 1) + n * EpochLength
  BY EpochAssumption, SMT DEF EpochStart
<1>3. n * EpochLength \in Nat
  BY EpochAssumption, SMT
<1>4. EpochStart(e + 1) \in Nat
  BY EpochStartType
<1> QED BY <1>2, <1>3, <1>4

-----------------------------------------------------------------------------
(* The schedule *)

(* The last block of phase 1 is before the next epoch.                     *)
LEMMA PhaseOneFits ==
  ASSUME NEW s \in Nat
  PROVE  \A r \in 1 .. 4, half \in 1 .. 2 :
           LET round == PhaseOneRounds(s + SecurityLength + VotingLength)[r][half]
           IN  s <= round[1] /\ round[2] < s + EpochLength
<1>1. (2 * RoundUnit) \div 2 = RoundUnit /\ (6 * RoundUnit) \div 2 = 3 * RoundUnit
  BY UnitsFit, SMT
<1> QED
  BY <1>1, UnitsFit, EpochAssumption, SMT
  DEF PhaseOneRounds, Halves, SecurityLength, VotingLength

LEMMA PhaseTwoFits ==
  ASSUME NEW s \in Nat
  PROVE  \A r \in 1 .. 4, half \in 1 .. 2 :
           LET round == PhaseTwoRounds(s + SecurityLength + VotingLength + ReleaseLength)[r][half]
           IN  s <= round[1] /\ round[2] < s + EpochLength
<1>1. (2 * RoundUnit) \div 2 = RoundUnit
  BY UnitsFit, SMT
<1> QED
  BY <1>1, UnitsFit, EpochAssumption, SMT
  DEF PhaseTwoRounds, Halves, SecurityLength, VotingLength, ReleaseLength

(* What the properties ask of a state whose schedule has not moved.        *)
Scheduled(ps) ==
  /\ \A r \in 1 .. 4, half \in 1 .. 2 :
       /\ InEpoch(ps.rounds_p1[r][half], ps.start_epoch)
       /\ InEpoch(ps.rounds_p2[r][half], ps.end_epoch)
  /\ ps.req_timelock = ps.security_p2[1]
  /\ ps.rounds_p1[4][2][2] < ps.req_timelock

(* The schedule of a new proposal. *)
LEMMA NewStateScheduled ==
  ASSUME NEW tx \in Ptx
  PROVE  Scheduled(NewState(tx))
<1> DEFINE e == Epoch(tx.block) + 1
           start == EpochStart(e)
           end == e + tx.epochs + 1
           ps == NewState(tx)
<1>1. e \in Nat /\ tx.epochs \in Nat /\ end \in Nat
  BY EpochType, SMT DEF Ptx, Block
<1>2. /\ ps.start_epoch = e /\ ps.end_epoch = end
      /\ ps.rounds_p1 = PhaseOneRounds(start + SecurityLength + VotingLength)
      /\ ps.rounds_p2 =
           PhaseTwoRounds(EpochStart(end) + SecurityLength + VotingLength + ReleaseLength)
      /\ ps.req_timelock = EpochStart(1 + e + tx.epochs)
      /\ ps.security_p2 = Span(EpochStart(end), SecurityLength)
  BY DEF NewState, PhaseTwo, RequiredTimelock
<1>3. start \in Nat /\ EpochStart(end) \in Nat
  BY <1>1, EpochStartType
<1>4. /\ EpochStart(e + 1) = start + EpochLength
      /\ EpochStart(end + 1) = EpochStart(end) + EpochLength
      /\ EpochStart(e + 1) <= EpochStart(end)
      /\ EpochStart(1 + e + tx.epochs) = EpochStart(end)
  <2>1. 1 + e + tx.epochs = end
    BY <1>1
  <2> QED BY <1>1, <2>1, NextEpoch, EpochsGrow
<1> HIDE DEF e, start, end, ps
<1>5. ASSUME NEW r \in 1 .. 4, NEW half \in 1 .. 2
      PROVE  /\ InEpoch(ps.rounds_p1[r][half], ps.start_epoch)
             /\ InEpoch(ps.rounds_p2[r][half], ps.end_epoch)
  <2>1. InEpoch(ps.rounds_p1[r][half], e)
    BY <1>2, <1>3, <1>4, PhaseOneFits DEF InEpoch, start
  <2>2. InEpoch(ps.rounds_p2[r][half], end)
    BY <1>2, <1>3, <1>4, PhaseTwoFits DEF InEpoch
  <2> QED BY <1>2, <2>1, <2>2
<1>6. ps.req_timelock = ps.security_p2[1]
  BY <1>2, <1>4 DEF Span
<1>7. ps.rounds_p1[4][2][2] < ps.req_timelock
  <2>1. ps.rounds_p1[4][2][2] < start + EpochLength
    BY <1>2, <1>3, PhaseOneFits
  <2>2. ps.rounds_p1[4][2][2] \in Int
    BY <1>2, <1>3, UnitsFit, SMT DEF PhaseOneRounds, Halves, SecurityLength, VotingLength
  <2> QED BY <1>2, <1>3, <1>4, <2>1, <2>2, EpochAssumption
<1> QED BY <1>5, <1>6, <1>7 DEF Scheduled, ps

(* A state has all its fields, whatever phase 2 is set to.                 *)
StateFields ==
  {"first", "valid", "start_epoch", "end_epoch", "req_amount", "req_timelock",
   "security_p1", "voting_p1", "rounds_p1", "security_p2", "voting_p2",
   "release_period", "rounds_p2", "decision"}

(* The parts of two states that the properties compare.                    *)
SameSchedule(a, b) ==
  /\ a.first = b.first /\ a.start_epoch = b.start_epoch /\ a.end_epoch = b.end_epoch
  /\ a.security_p1 = b.security_p1 /\ a.voting_p1 = b.voting_p1 /\ a.rounds_p1 = b.rounds_p1
  /\ a.security_p2 = b.security_p2 /\ a.voting_p2 = b.voting_p2
  /\ a.release_period = b.release_period /\ a.rounds_p2 = b.rounds_p2
  /\ a.req_timelock = b.req_timelock

(* What a state keeps of the one the proposal began with.                  *)
Faithful(ps, new) ==
  /\ ps.first = new.first
  /\ ps.start_epoch = new.start_epoch /\ ps.rounds_p1 = new.rounds_p1
  /\ ps.req_timelock = new.req_timelock
  /\ Unmoved(ps) => SameSchedule(ps, new)

LEMMA PhaseTwoFields ==
  ASSUME NEW ps, NEW end, DOMAIN ps = StateFields
  PROVE  /\ DOMAIN PhaseTwo(ps, end) = StateFields
         /\ PhaseTwo(ps, end) = [x \in StateFields |-> PhaseTwo(ps, end)[x]]
BY DEF PhaseTwo

LEMMA NewStateFields ==
  ASSUME NEW tx
  PROVE  /\ DOMAIN NewState(tx) = StateFields
         /\ NewState(tx) = [x \in StateFields |-> NewState(tx)[x]]
<1> DEFINE epoch == Epoch(tx.block) + 1
           start == EpochStart(epoch)
           base == [first |-> tx, valid |-> tx, start_epoch |-> epoch, end_epoch |-> 0,
                    req_amount |-> tx.amount,
                    req_timelock |-> RequiredTimelock(epoch, tx),
                    security_p1 |-> Span(start, SecurityLength),
                    voting_p1 |-> Span(start + SecurityLength, VotingLength),
                    rounds_p1 |-> PhaseOneRounds(start + SecurityLength + VotingLength),
                    security_p2 |-> <<0, 0>>, voting_p2 |-> <<0, 0>>,
                    release_period |-> <<0, 0>>, rounds_p2 |-> <<>>, decision |-> "none"]
<1>1. NewState(tx) = PhaseTwo(base, epoch + tx.epochs + 1)
  BY Zenon DEF NewState
<1>2. DOMAIN base = StateFields
  BY DEF StateFields
<1> HIDE DEF base
<1> QED BY <1>1, <1>2, PhaseTwoFields

(* Whatever the decision, phase 1 and the time lock are those of the first *)
(* transaction; phase 2 is too, unless an approval has moved it.           *)
(* A field that EXCEPT does not name is kept. *)
LEMMA FieldsKept ==
  ASSUME NEW ps, DOMAIN ps = StateFields, NEW value
  PROVE  /\ SameSchedule([ps EXCEPT !.valid = value], ps)
         /\ SameSchedule([ps EXCEPT !.req_amount = value], ps)
         /\ SameSchedule([ps EXCEPT !.decision = "approved"], ps)
         /\ SameSchedule([ps EXCEPT !.decision = "abandoned"], ps)
BY DEF StateFields, SameSchedule

LEMMA DecideKeeps ==
  ASSUME NEW tx \in Ptx, NEW valid, NEW approved \in BOOLEAN, NEW ps,
         ps = Decide([NewState(tx) EXCEPT !.valid = valid], approved)
  PROVE  Faithful(ps, NewState(tx)) /\ ps.valid = valid
<1> DEFINE new == NewState(tx)
           given == [new EXCEPT !.valid = valid]
           final == given.start_epoch + valid.epochs
<1>1. DOMAIN new = StateFields /\ DOMAIN given = StateFields
  BY NewStateFields
<1>3. ps = Decide(given, approved)
  OBVIOUS
<1>4. given.valid = valid
  BY <1>1 DEF StateFields
<1>5. SameSchedule(given, new)
  BY <1>1, FieldsKept
<1> HIDE DEF new, given
<1>6. ASSUME SameSchedule(ps, given) PROVE Faithful(ps, new)
  BY <1>5, <1>6 DEF SameSchedule, Faithful
<1>7. CASE height < given.voting_p1[2]
  <2>1. ps = given
    BY <1>3, <1>7 DEF Decide
  <2> QED BY <1>4, <1>6, <2>1 DEF SameSchedule, new
<1>8. CASE ~(height < given.voting_p1[2]) /\ ~approved
  <2>1. ps = [given EXCEPT !.decision = "abandoned"]
    BY <1>3, <1>8 DEF Decide
  <2>2. ps.valid = given.valid
    BY <1>1, <2>1 DEF StateFields
  <2> QED BY <1>1, <1>4, <1>6, <2>1, <2>2, FieldsKept DEF new
<1>9. CASE ~(height < given.voting_p1[2]) /\ approved /\ given.first = valid
  <2>1. ps = [given EXCEPT !.decision = "approved"]
    BY <1>3, <1>4, <1>9 DEF Decide
  <2>2. ps.valid = given.valid
    BY <1>1, <2>1 DEF StateFields
  <2> QED BY <1>1, <1>4, <1>6, <2>1, <2>2, FieldsKept DEF new
<1>10. CASE ~(height < given.voting_p1[2]) /\ approved /\ given.first # valid
                 /\ given.first.epochs = valid.epochs
  <2> DEFINE amended == [given EXCEPT !.req_amount = valid.amount]
  <2>1. ps = [amended EXCEPT !.decision = "approved"]
    BY <1>3, <1>4, <1>10 DEF Decide, Modify
  <2>2. DOMAIN amended = StateFields
    BY <1>1
  <2>3. SameSchedule(amended, given)
    BY <1>1, FieldsKept
  <2>4. amended.valid = given.valid
    BY <1>1 DEF StateFields
  <2> HIDE DEF amended
  <2>5. SameSchedule(ps, amended)
    BY <2>1, <2>2, FieldsKept
  <2>6. ps.valid = amended.valid
    BY <2>1, <2>2 DEF StateFields
  <2> QED BY <1>4, <1>6, <2>3, <2>4, <2>5, <2>6 DEF SameSchedule, new
<1>11. CASE ~(height < given.voting_p1[2]) /\ approved /\ given.first.epochs # valid.epochs
  <2> DEFINE moved == PhaseTwo(given, final + 1)
  <2>1. ps = [[[moved EXCEPT !.end_epoch = final] EXCEPT !.req_amount = valid.amount]
                EXCEPT !.decision = "approved"]
    BY <1>3, <1>4, <1>11 DEF Decide, Modify
  <2>2. DOMAIN moved = StateFields
    BY <1>1, PhaseTwoFields
  <2>3. /\ moved.first = given.first /\ moved.valid = given.valid
        /\ moved.start_epoch = given.start_epoch /\ moved.rounds_p1 = given.rounds_p1
        /\ moved.req_timelock = given.req_timelock
    BY <1>1 DEF PhaseTwo, StateFields
  <2> HIDE DEF moved
  <2>4. /\ ps.first = moved.first /\ ps.valid = moved.valid /\ ps.decision = "approved"
        /\ ps.start_epoch = moved.start_epoch /\ ps.rounds_p1 = moved.rounds_p1
        /\ ps.req_timelock = moved.req_timelock
    BY <2>1, <2>2 DEF StateFields
  <2>5. ~Unmoved(ps)
    BY <1>4, <1>11, <2>3, <2>4 DEF Unmoved
  <2> QED BY <1>4, <1>5, <2>3, <2>4, <2>5 DEF SameSchedule, Faithful, new
<1> QED BY <1>7, <1>8, <1>9, <1>10, <1>11

LEMMA ScheduledAsNew ==
  ASSUME NEW tx \in Ptx, NEW ps, SameSchedule(ps, NewState(tx))
  PROVE  Scheduled(ps)
BY NewStateScheduled DEF SameSchedule, Scheduled

-----------------------------------------------------------------------------
(* Types *)

(* The fields of a state, one by one. *)
HasTypes(ps) ==
  /\ ps.first \in Ptx /\ ps.valid \in Ptx
  /\ ps.start_epoch \in Nat /\ ps.end_epoch \in Nat /\ ps.req_amount \in Nat
  /\ ps.req_timelock \in Block
  /\ ps.security_p1 \in Interval /\ ps.voting_p1 \in Interval
  /\ ps.rounds_p1 \in [1 .. 4 -> Round]
  /\ ps.security_p2 \in Interval /\ ps.voting_p2 \in Interval
  /\ ps.release_period \in Interval
  /\ ps.rounds_p2 \in [1 .. 4 -> Round]
  /\ ps.decision \in {"none", "approved", "abandoned"}

LEMMA StateFieldTypes ==
  ASSUME NEW ps \in State
  PROVE  HasTypes(ps) /\ DOMAIN ps = StateFields
BY DEF State, HasTypes, StateFields

LEMMA TypedState ==
  ASSUME NEW ps, ps = [x \in StateFields |-> ps[x]], HasTypes(ps)
  PROVE  ps \in State
BY DEF State, HasTypes, StateFields

LEMMA SpanType ==
  ASSUME NEW start \in Nat, NEW length \in Nat
  PROVE  Span(start, length) \in Interval
BY DEF Span, Interval, Block

LEMMA HalvesType ==
  ASSUME NEW start \in Nat, NEW duration \in Nat
  PROVE  Halves(start, duration) \in Round
<1>1. duration \div 2 \in Nat
  BY SMT
<1> QED BY <1>1 DEF Halves, Round, Interval, Block

LEMMA LengthTypes ==
  SecurityLength \in Nat /\ VotingLength \in Nat /\ ReleaseLength \in Nat
BY UnitsFit, SMT DEF SecurityLength, VotingLength, ReleaseLength

LEMMA RoundsType ==
  ASSUME NEW start \in Nat
  PROVE  /\ PhaseOneRounds(start) \in [1 .. 4 -> Round]
         /\ PhaseTwoRounds(start) \in [1 .. 4 -> Round]
<1>1. /\ 6 * RoundUnit \in Nat /\ 2 * RoundUnit \in Nat
      /\ start + 6 * RoundUnit \in Nat /\ start + 8 * RoundUnit \in Nat
      /\ start + 10 * RoundUnit \in Nat
  BY UnitsFit, SMT
<1>2. /\ Halves(start, 6 * RoundUnit) \in Round
      /\ Halves(start + 6 * RoundUnit, 2 * RoundUnit) \in Round
      /\ Halves(start + 8 * RoundUnit, 2 * RoundUnit) \in Round
      /\ Halves(start + 10 * RoundUnit, 2 * RoundUnit) \in Round
  BY <1>1, HalvesType
<1>3. ASSUME NEW i \in 1 .. 4
      PROVE  Halves(start + 2 * RoundUnit * (i - 1), 2 * RoundUnit) \in Round
  <2>1. start + 2 * RoundUnit * (i - 1) \in Nat
    BY UnitsFit, SMT
  <2> QED BY <1>1, <2>1, HalvesType
<1>4. PhaseTwoRounds(start) \in [1 .. 4 -> Round]
  BY <1>3 DEF PhaseTwoRounds
<1> HIDE DEF Round
<1>5. PhaseOneRounds(start) \in [1 .. 4 -> Round]
  BY <1>2 DEF PhaseOneRounds
<1> QED BY <1>4, <1>5

(* The valid transaction is one of the chain.                              *)
LEMMA ValidTxType ==
  ASSUME NEW list \in Seq(Ptx), NEW n \in DOMAIN list
  PROVE  ValidTx(list, n) \in Ptx
<1> DEFINE modifications == ModifiedBy(list, n)
           m == CHOOSE m \in modifications : \A k \in modifications : k <= m
<1>1. CASE modifications = {}
  BY <1>1 DEF ValidTx
<1>2. CASE modifications # {}
  <2>1. modifications \subseteq 1 .. Len(list)
    BY DEF ModifiedBy
  <2>2. \E k \in modifications : \A l \in modifications : l <= k
    <3>1. modifications \in SUBSET Nat /\ \A k \in modifications : k <= Len(list)
      BY <2>1
    <3>2. Len(list) \in Nat
      OBVIOUS
    <3> HIDE DEF modifications
    <3> QED BY <1>2, <3>1, <3>2, LargestNumber
  <2>3. m \in modifications
    BY <2>2
  <2>4. ValidTx(list, n) = list[m]
    BY <1>2 DEF ValidTx
  <2>5. m \in DOMAIN list
    BY <2>3 DEF ModifiedBy
  <2> QED BY <2>4, <2>5
<1> QED BY <1>1, <1>2

(* Phase 2 has its types wherever it begins; nothing else is set.          *)
LEMMA PhaseTwoType ==
  ASSUME NEW ps, ps = [x \in StateFields |-> ps[x]], NEW end \in Nat,
         ps.first \in Ptx, ps.valid \in Ptx, ps.start_epoch \in Nat, ps.req_amount \in Nat,
         ps.req_timelock \in Block, ps.security_p1 \in Interval, ps.voting_p1 \in Interval,
         ps.rounds_p1 \in [1 .. 4 -> Round], ps.decision \in {"none", "approved", "abandoned"}
  PROVE  PhaseTwo(ps, end) \in State
<1> DEFINE start == EpochStart(end)
           new == PhaseTwo(ps, end)
<1>1. /\ start \in Nat /\ start + SecurityLength \in Nat
      /\ start + SecurityLength + VotingLength \in Nat
      /\ start + SecurityLength + VotingLength + ReleaseLength \in Nat
  BY EpochStartType, LengthTypes
<1>2. /\ Span(start, SecurityLength) \in Interval
      /\ Span(start + SecurityLength, VotingLength) \in Interval
      /\ Span(start + SecurityLength + VotingLength, ReleaseLength) \in Interval
      /\ PhaseTwoRounds(start + SecurityLength + VotingLength + ReleaseLength)
           \in [1 .. 4 -> Round]
  BY <1>1, LengthTypes, SpanType, RoundsType
<1>3. DOMAIN ps = StateFields
  OBVIOUS
<1>4. new = [x \in StateFields |-> new[x]]
  BY <1>3, PhaseTwoFields
<1>5. /\ new.first = ps.first /\ new.valid = ps.valid /\ new.start_epoch = ps.start_epoch
      /\ new.end_epoch = end /\ new.req_amount = ps.req_amount
      /\ new.req_timelock = ps.req_timelock /\ new.security_p1 = ps.security_p1
      /\ new.voting_p1 = ps.voting_p1 /\ new.rounds_p1 = ps.rounds_p1
      /\ new.security_p2 = Span(start, SecurityLength)
      /\ new.voting_p2 = Span(start + SecurityLength, VotingLength)
      /\ new.release_period = Span(start + SecurityLength + VotingLength, ReleaseLength)
      /\ new.rounds_p2 = PhaseTwoRounds(start + SecurityLength + VotingLength + ReleaseLength)
      /\ new.decision = ps.decision
  BY <1>3 DEF PhaseTwo, StateFields
<1> HIDE DEF new, start
<1>6. HasTypes(new)
  BY <1>2, <1>5 DEF HasTypes
<1>7. new \in State
  BY <1>4, <1>6, TypedState
<1> QED BY <1>7 DEF new

LEMMA NewStateType ==
  ASSUME NEW tx \in Ptx
  PROVE  NewState(tx) \in State
<1> DEFINE epoch == Epoch(tx.block) + 1
           start == EpochStart(epoch)
           base == [first |-> tx, valid |-> tx, start_epoch |-> epoch, end_epoch |-> 0,
                    req_amount |-> tx.amount,
                    req_timelock |-> RequiredTimelock(epoch, tx),
                    security_p1 |-> Span(start, SecurityLength),
                    voting_p1 |-> Span(start + SecurityLength, VotingLength),
                    rounds_p1 |-> PhaseOneRounds(start + SecurityLength + VotingLength),
                    security_p2 |-> <<0, 0>>, voting_p2 |-> <<0, 0>>,
                    release_period |-> <<0, 0>>, rounds_p2 |-> <<>>, decision |-> "none"]
<1>1. /\ tx.epochs \in Nat /\ tx.amount \in Nat /\ epoch \in Nat /\ start \in Nat
      /\ epoch + tx.epochs + 1 \in Nat /\ 1 + epoch + tx.epochs \in Nat
  BY EpochType, EpochStartType DEF Ptx, Block
<1>2. RequiredTimelock(epoch, tx) \in Block
  BY <1>1, EpochStartType DEF RequiredTimelock, Block
<1>3. start + SecurityLength \in Nat /\ start + SecurityLength + VotingLength \in Nat
  BY <1>1, LengthTypes
<1>4. /\ Span(start, SecurityLength) \in Interval
      /\ Span(start + SecurityLength, VotingLength) \in Interval
      /\ PhaseOneRounds(start + SecurityLength + VotingLength) \in [1 .. 4 -> Round]
  BY <1>1, <1>3, LengthTypes, SpanType, RoundsType
<1>5. NewState(tx) = PhaseTwo(base, epoch + tx.epochs + 1)
  BY Zenon DEF NewState
<1>6. base = [x \in StateFields |-> base[x]]
  BY DEF StateFields
<1>7. /\ base.first \in Ptx /\ base.valid \in Ptx /\ base.start_epoch \in Nat
      /\ base.req_amount \in Nat /\ base.req_timelock \in Block
      /\ base.security_p1 \in Interval /\ base.voting_p1 \in Interval
      /\ base.rounds_p1 \in [1 .. 4 -> Round]
      /\ base.decision \in {"none", "approved", "abandoned"}
  BY <1>1, <1>2, <1>4
<1> HIDE DEF base, start, epoch
<1> QED BY <1>1, <1>5, <1>6, <1>7, PhaseTwoType

(* What the parser decides keeps the types of a state. *)
LEMMA FieldTypesKept ==
  ASSUME NEW ps \in State
  PROVE  /\ \A tx \in Ptx : [ps EXCEPT !.valid = tx] \in State
         /\ \A amount \in Nat : [ps EXCEPT !.req_amount = amount] \in State
         /\ \A end \in Nat : [ps EXCEPT !.end_epoch = end] \in State
         /\ [ps EXCEPT !.decision = "approved"] \in State
         /\ [ps EXCEPT !.decision = "abandoned"] \in State
BY DEF State

LEMMA DecideType ==
  ASSUME NEW tx \in Ptx, NEW valid \in Ptx, NEW approved \in BOOLEAN, NEW ps,
         ps = Decide([NewState(tx) EXCEPT !.valid = valid], approved)
  PROVE  ps \in State
<1> DEFINE given == [NewState(tx) EXCEPT !.valid = valid]
           end == given.start_epoch + given.valid.epochs
           set == PhaseTwo(given, end + 1)
           moved == IF given.first.epochs = given.valid.epochs THEN given
                    ELSE [set EXCEPT !.end_epoch = end]
<1>1. given \in State
  BY NewStateType, FieldTypesKept
<1>2. ps = Decide(given, approved)
  OBVIOUS
<1> HIDE DEF given
<1>3. HasTypes(given) /\ DOMAIN given = StateFields
  BY <1>1, StateFieldTypes
<1>4. given = [x \in StateFields |-> given[x]]
  BY <1>1 DEF State, StateFields
<1>5. end \in Nat /\ end + 1 \in Nat /\ given.valid.amount \in Nat
  BY <1>3 DEF HasTypes, Ptx
<1>6. set \in State
  BY <1>3, <1>4, <1>5, PhaseTwoType DEF HasTypes
<1> HIDE DEF set
<1>7. [set EXCEPT !.end_epoch = end] \in State
  BY <1>5, <1>6, FieldTypesKept
<1>8. moved \in State
  BY <1>1, <1>7
<1>9. Modify(given) = [moved EXCEPT !.req_amount = given.valid.amount]
  BY DEF Modify, set
<1> HIDE DEF moved
<1>10. Modify(given) \in State
  BY <1>5, <1>8, <1>9, FieldTypesKept
<1>11. CASE height < given.voting_p1[2]
  BY <1>1, <1>2, <1>11 DEF Decide
<1>12. CASE ~(height < given.voting_p1[2]) /\ ~approved
  BY <1>1, <1>2, <1>12, FieldTypesKept DEF Decide
<1>13. CASE ~(height < given.voting_p1[2]) /\ approved
  <2>1. \/ ps = [given EXCEPT !.decision = "approved"]
        \/ ps = [Modify(given) EXCEPT !.decision = "approved"]
    BY <1>2, <1>13 DEF Decide
  <2> QED BY <1>1, <1>10, <2>1, FieldTypesKept
<1> QED BY <1>11, <1>12, <1>13

-----------------------------------------------------------------------------
(* The invariant: every state is the one of its own proposal.  It has      *)
(* phase 1 and the time lock of the proposal's first transaction, and its  *)
(* schedule unless it has moved.                                           *)
OwnState(ps, tx) == Faithful(ps, NewState(tx))

LEMMA DecideOwn ==
  ASSUME NEW tx \in Ptx, NEW valid,
         NEW approved \in BOOLEAN, NEW ps,
         ps = Decide([NewState(tx) EXCEPT !.valid = valid], approved)
  PROVE  OwnState(ps, tx)
BY DecideKeeps DEF OwnState

IInv ==
  /\ TypeOK
  /\ \A n \in DOMAIN states : OwnState(states[n], ptxes[n])

LEMMA InitIInv == Init => IInv
BY BoundsAssumption, SMT DEF Init, IInv, TypeOK, Firsts

(* A submitted transaction is appended, the earlier ones stay.             *)
LEMMA SubmitAppends ==
  ASSUME TypeOK, Submit
  PROVE  /\ height' \in Heights
         /\ ptxes' \in Seq(Ptx) /\ Len(ptxes') <= MaxPtxes
         /\ DOMAIN ptxes \subseteq DOMAIN ptxes'
         /\ \A n \in DOMAIN ptxes : ptxes'[n] = ptxes[n]
<1>1. height' \in Heights /\ height' \in Nat
  BY BoundsAssumption DEF Submit, Grow
<1>2. PICK terms \in Terms, addr \in Addr, n \in 0 .. Len(ptxes) :
        ptxes' = Append(ptxes, [first_ptx |-> n, donation_address |-> addr, block |-> height',
                                epochs |-> terms.epochs, amount |-> terms.amount])
  BY DEF Submit
<1>3. terms.epochs \in Nat /\ terms.amount \in Nat
  BY TermsAssumption
<1>4. n \in Nat /\ ptxes \in Seq(Ptx) /\ Len(ptxes) < MaxPtxes /\ MaxPtxes \in Nat
  BY BoundsAssumption DEF TypeOK, Submit
<1> DEFINE ptx == [first_ptx |-> n, donation_address |-> addr, block |-> height',
                   epochs |-> terms.epochs, amount |-> terms.amount]
<1>5. ptx \in Ptx
  BY <1>1, <1>3, <1>4 DEF Ptx, Block
<1>6. ptxes' = Append(ptxes, ptx)
  BY <1>2
<1> HIDE DEF ptx
<1> QED BY <1>1, <1>4, <1>5, <1>6

LEMMA NextIInv == IInv /\ [Next]_vars => IInv'
<1> SUFFICES ASSUME IInv, [Next]_vars PROVE IInv'
  OBVIOUS
<1>1. CASE Submit
  <2>1. states' = states /\ favoured' = favoured
    BY <1>1 DEF Submit
  <2>2. /\ ptxes' \in Seq(Ptx) /\ height' \in Heights /\ Len(ptxes') <= MaxPtxes
        /\ DOMAIN ptxes \subseteq DOMAIN ptxes'
        /\ \A n \in DOMAIN ptxes : ptxes'[n] = ptxes[n]
    BY <1>1, SubmitAppends DEF IInv
  <2>3. Firsts(ptxes) \subseteq Firsts(ptxes')
    BY <2>2 DEF Firsts
  <2>4. TypeOK'
    BY <2>1, <2>2, <2>3 DEF IInv, TypeOK
  <2>5. DOMAIN states \subseteq DOMAIN ptxes
    BY DEF IInv, TypeOK, Firsts
  <2>6. \A n \in DOMAIN states' : OwnState(states'[n], ptxes'[n])
    BY <2>1, <2>2, <2>5 DEF IInv
  <2> QED BY <2>4, <2>6 DEF IInv
<1>2. CASE Mine
  <2>1. /\ height' \in Heights /\ ptxes' = ptxes /\ states' = states
        /\ favoured' \subseteq favoured \cup Firsts(ptxes)
    BY <1>2 DEF Mine, Grow
  <2>2. TypeOK'
    BY <2>1 DEF IInv, TypeOK
  <2> QED BY <2>1, <2>2 DEF IInv
<1>3. CASE Parse
  <2>1. /\ states' = [n \in Firsts(ptxes) |-> Decide(ProposalState(ptxes, n), n \in favoured)]
        /\ ptxes' = ptxes /\ height' = height /\ favoured' = favoured
    BY <1>3 DEF Parse
  <2>2. ptxes \in Seq(Ptx) /\ DOMAIN states' = Firsts(ptxes) /\ Firsts(ptxes) \subseteq DOMAIN ptxes
    BY <2>1 DEF IInv, TypeOK, Firsts
  <2>3. ASSUME NEW n \in DOMAIN states'
        PROVE  states'[n] \in State /\ OwnState(states'[n], ptxes[n])
    <3>1. n \in DOMAIN ptxes /\ ptxes[n] \in Ptx
      BY <2>2, <2>3
    <3>2. states'[n] = Decide([NewState(ptxes[n]) EXCEPT !.valid = ValidTx(ptxes, n)],
                              n \in favoured)
      BY <2>1, <2>3 DEF ProposalState
    <3>3. ValidTx(ptxes, n) \in Ptx
      BY <2>2, <3>1, ValidTxType
    <3>4. (n \in favoured) \in BOOLEAN
      OBVIOUS
    <3>5. states'[n] \in State
      BY <3>1, <3>2, <3>3, <3>4, DecideType, Zenon
    <3>6. OwnState(states'[n], ptxes[n])
      BY <3>1, <3>2, <3>3, <3>4, DecideOwn, Zenon
    <3> QED BY <3>5, <3>6
  <2>4. TypeOK'
    BY <2>1, <2>2, <2>3 DEF IInv, TypeOK
  <2> QED BY <2>1, <2>3, <2>4 DEF IInv
<1>4. CASE UNCHANGED vars
  <2>1. TypeOK'
    BY <1>4 DEF IInv, TypeOK, vars
  <2> QED BY <1>4, <2>1 DEF IInv, vars
<1> QED BY <1>1, <1>2, <1>3, <1>4 DEF Next

LEMMA Invariant == Spec => []IInv
BY InitIInv, NextIInv, PTL DEF Spec

(* The schedule of a state that has not moved is the one of its proposal.  *)
LEMMA UnmovedAsNew ==
  ASSUME IInv, NEW n \in DOMAIN states, Unmoved(states[n])
  PROVE  ptxes[n] \in Ptx /\ SameSchedule(states[n], NewState(ptxes[n]))
<1>1. ptxes[n] \in Ptx
  BY DEF IInv, TypeOK, Firsts
<1> QED BY <1>1 DEF IInv, OwnState, Faithful

LEMMA UnmovedScheduled ==
  IInv => \A n \in DOMAIN states : Unmoved(states[n]) => Scheduled(states[n])
BY UnmovedAsNew, ScheduledAsNew

(* Every field of a state has its type, and states are kept under first    *)
(* transactions, whatever was submitted as a modification of what.         *)
THEOREM StatesAreTyped == Spec => []TypeOK
<1>1. IInv => TypeOK
  BY DEF IInv
<1> QED BY <1>1, Invariant, PTL

(* The rounds of every unmoved schedule lie in the epochs they belong to   *)
(* (set_rounds, for every length of an epoch).                             *)
THEOREM RoundsFit == Spec => []RoundsInEpochs
<1>1. IInv => RoundsInEpochs
  BY UnmovedScheduled DEF RoundsInEpochs, Scheduled
<1> QED BY <1>1, Invariant, PTL

(* Donations are locked until phase 2 begins, and phase 1 is over by then  *)
(* (set_required_timelock agrees with set_rounds).                         *)
THEOREM LockFits == Spec => []LockedUntilPhaseTwo
<1>1. IInv => LockedUntilPhaseTwo
  BY UnmovedScheduled DEF LockedUntilPhaseTwo, Scheduled
<1> QED BY <1>1, Invariant, PTL

(* No parse gives a proposal another phase 1 or another time lock than an  *)
(* earlier one, whatever has been mined in between.                        *)
THEOREM PhaseOneStays == Spec => PhaseOneKept
<1> DEFINE A == \A n \in DOMAIN states \cap DOMAIN states' :
                  /\ states'[n].start_epoch = states[n].start_epoch
                  /\ states'[n].rounds_p1 = states[n].rounds_p1
                  /\ states'[n].req_timelock = states[n].req_timelock
<1>1. IInv /\ IInv' /\ [Next]_vars => [A]_vars
  <2> SUFFICES ASSUME IInv, IInv', [Next]_vars, NEW n \in DOMAIN states \cap DOMAIN states'
               PROVE  /\ states'[n].start_epoch = states[n].start_epoch
                      /\ states'[n].rounds_p1 = states[n].rounds_p1
                      /\ states'[n].req_timelock = states[n].req_timelock
    OBVIOUS
  <2>1. n \in DOMAIN ptxes
    BY DEF IInv, TypeOK, Firsts
  <2>2. ptxes'[n] = ptxes[n]
    BY <2>1, SubmitAppends DEF IInv, Next, Mine, Parse, vars
  <2>3. /\ states'[n].start_epoch = NewState(ptxes'[n]).start_epoch
        /\ states'[n].rounds_p1 = NewState(ptxes'[n]).rounds_p1
        /\ states'[n].req_timelock = NewState(ptxes'[n]).req_timelock
    BY DEF IInv, OwnState, Faithful
  <2> QED BY <2>2, <2>3 DEF IInv, OwnState, Faithful
<1> HIDE DEF A
<1>2. [][A]_vars => PhaseOneKept
  BY PTL DEF PhaseOneKept, A
<1> QED BY <1>1, <1>2, Invariant, PTL DEF Spec

-----------------------------------------------------------------------------
(* Periods without gaps *)

(* p[1], p[2], ... begin at a[1] = 0, a[2], ... and each ends where the    *)
(* next one begins; the last has no end.                                   *)
Chained(p, a, n) ==
  /\ n \in Nat \ {0} /\ DOMAIN p = 1 .. n /\ Len(p) = n
  /\ a[1] = 0
  /\ \A i \in 1 .. n : a[i] \in Nat /\ p[i][1] = a[i]
  /\ \A i \in 1 .. n - 1 : p[i][2] = a[i + 1] - 1 /\ a[i] <= a[i + 1]

LEMMA StartsGrow ==
  ASSUME NEW a, NEW n \in Nat, \A i \in 1 .. n : a[i] \in Nat,
         \A i \in 1 .. n - 1 : a[i] <= a[i + 1],
         NEW i \in 1 .. n, NEW j \in 1 .. n, i < j
  PROVE  a[i] <= a[j]
<1> DEFINE S == {k \in 1 .. n : i < k /\ a[k] < a[i]}
<1>1. ASSUME S # {} PROVE FALSE
  <2>1. S \in SUBSET Nat
    OBVIOUS
  <2>2. PICK m \in S : \A k \in S : m <= k
    <3> HIDE DEF S
    <3> QED BY <1>1, <2>1, SmallestNumber
  <2>3. m - 1 \in 1 .. n /\ m - 1 \in 1 .. n - 1 /\ m = (m - 1) + 1 /\ m - 1 \notin S
    BY <2>2
  <2>4. a[m - 1] <= a[m] /\ a[m - 1] \in Nat /\ a[m] \in Nat /\ a[i] \in Nat
    BY <2>2, <2>3
  <2>5. a[m] < a[i]
    BY <2>2
  <2>6. m - 1 # i
    BY <2>4, <2>5
  <2> QED BY <2>2, <2>3, <2>4, <2>5, <2>6
<1> QED BY <1>1

(* Every block is in exactly one of them. *)
LEMMA OneOfThem ==
  ASSUME NEW p, NEW a, NEW n, Chained(p, a, n), NEW block \in Nat
  PROVE  Cardinality({i \in DOMAIN p : InPeriod(block, p, i)}) = 1
<1> DEFINE S == {i \in 1 .. n : a[i] <= block}
           In == {i \in DOMAIN p : InPeriod(block, p, i)}
<1>1. /\ n \in Nat /\ n >= 1 /\ DOMAIN p = 1 .. n /\ Len(p) = n /\ a[1] = 0
      /\ \A i \in 1 .. n : a[i] \in Nat /\ p[i][1] = a[i]
      /\ \A i \in 1 .. n - 1 : p[i][2] = a[i + 1] - 1 /\ a[i] <= a[i + 1]
  BY DEF Chained
<1>2. S \in SUBSET Nat /\ S # {} /\ \A i \in S : i <= n
  <2>1. 1 \in S
    BY <1>1
  <2> QED BY <1>1, <2>1
<1>3. PICK m \in S : \A i \in S : i <= m
  <2> HIDE DEF S
  <2> QED BY <1>1, <1>2, LargestNumber
<1>4. m \in 1 .. n /\ a[m] <= block
  BY <1>3
<1>5. m \in In
  <2>1. ASSUME m < n PROVE block <= p[m][2]
    <3>1. m \in 1 .. n - 1 /\ m + 1 \in 1 .. n /\ m + 1 \notin S
      BY <1>1, <1>3, <1>4, <2>1
    <3>2. block < a[m + 1] /\ a[m + 1] \in Nat
      BY <1>1, <3>1
    <3> QED BY <1>1, <3>1, <3>2
  <2> QED BY <1>1, <1>4, <2>1 DEF InPeriod
<1>6. ASSUME NEW k \in In PROVE k = m
  <2>1. k \in 1 .. n /\ a[k] <= block /\ (k < n => block <= p[k][2])
    BY <1>1 DEF InPeriod
  <2>2. k <= m
    BY <1>3, <2>1
  <2>3. ASSUME k < m PROVE FALSE
    <3>1. k \in 1 .. n - 1 /\ k + 1 \in 1 .. n /\ (k + 1 = m \/ k + 1 < m)
      BY <1>1, <1>4, <2>1, <2>3
    <3>2. a[k + 1] <= a[m]
      <4>1. CASE k + 1 = m
        BY <1>1, <1>4, <4>1
      <4>2. CASE k + 1 < m
        <5> HIDE DEF S, In
        <5> DEFINE j == k + 1
        <5>1. j \in 1 .. n /\ j < m
          BY <3>1, <4>2
        <5> HIDE DEF j
        <5>2. a[j] <= a[m]
          BY <1>1, <1>4, <5>1, StartsGrow
        <5> QED BY <5>2 DEF j
      <4> QED BY <3>1, <4>1, <4>2
    <3>3. block <= a[k + 1] - 1 /\ a[k + 1] \in Nat /\ a[m] \in Nat
      BY <1>1, <1>4, <2>1, <3>1
    <3> QED BY <1>4, <3>2, <3>3
  <2> QED BY <1>4, <2>1, <2>2, <2>3
<1>7. In = {m}
  BY <1>5, <1>6
<1> QED BY <1>7, FS_Singleton

(* The blocks at which the periods begin: of the epoch of the transaction, *)
(* of the one in which the proposal starts and of the one it ends in, then *)
(* so many units later.                                                    *)
Starts(e, s, t) ==
  LET r == s + SecurityLength + 8 * RoundUnit
      q == t + SecurityLength + 16 * RoundUnit
  IN  <<0, e, s, s + SecurityLength,
        r, r + 3 * RoundUnit, r + 6 * RoundUnit, r + 7 * RoundUnit,
        r + 8 * RoundUnit, r + 9 * RoundUnit, r + 10 * RoundUnit, r + 11 * RoundUnit,
        r + 12 * RoundUnit,
        t, t + SecurityLength, t + SecurityLength + 8 * RoundUnit,
        q, q + RoundUnit, q + 2 * RoundUnit, q + 3 * RoundUnit,
        q + 4 * RoundUnit, q + 5 * RoundUnit, q + 6 * RoundUnit, q + 7 * RoundUnit,
        q + 8 * RoundUnit>>

(* The periods that every proposal has. *)
Base(ps) ==
  <<<<0, EpochStart(Epoch(ps.first.block)) - 1>>,
    <<EpochStart(Epoch(ps.first.block)), ps.security_p1[1] - 1>>,
    ps.security_p1, ps.voting_p1,
    ps.rounds_p1[1][1], ps.rounds_p1[1][2], ps.rounds_p1[2][1], ps.rounds_p1[2][2],
    ps.rounds_p1[3][1], ps.rounds_p1[3][2], ps.rounds_p1[4][1], ps.rounds_p1[4][2],
    <<ps.rounds_p1[4][2][2] + 1, ps.security_p2[1] - 1>>,
    ps.security_p2, ps.voting_p2, ps.release_period,
    ps.rounds_p2[1][1], ps.rounds_p2[1][2], ps.rounds_p2[2][1], ps.rounds_p2[2][2],
    ps.rounds_p2[3][1], ps.rounds_p2[3][2], ps.rounds_p2[4][1], ps.rounds_p2[4][2]>>

(* A period of the blocks from one on until before another.                *)
Spans(period, from, until) == period[1] = from /\ period[2] = until - 1

LEMMA PhaseOneValues ==
  ASSUME NEW s \in Nat
  PROVE  /\ Spans(PhaseOneRounds(s)[1][1], s, s + 3 * RoundUnit)
         /\ Spans(PhaseOneRounds(s)[1][2], s + 3 * RoundUnit, s + 6 * RoundUnit)
         /\ Spans(PhaseOneRounds(s)[2][1], s + 6 * RoundUnit, s + 7 * RoundUnit)
         /\ Spans(PhaseOneRounds(s)[2][2], s + 7 * RoundUnit, s + 8 * RoundUnit)
         /\ Spans(PhaseOneRounds(s)[3][1], s + 8 * RoundUnit, s + 9 * RoundUnit)
         /\ Spans(PhaseOneRounds(s)[3][2], s + 9 * RoundUnit, s + 10 * RoundUnit)
         /\ Spans(PhaseOneRounds(s)[4][1], s + 10 * RoundUnit, s + 11 * RoundUnit)
         /\ Spans(PhaseOneRounds(s)[4][2], s + 11 * RoundUnit, s + 12 * RoundUnit)
<1>1. (2 * RoundUnit) \div 2 = RoundUnit /\ (6 * RoundUnit) \div 2 = 3 * RoundUnit
  BY UnitsFit, SMT
<1> QED BY <1>1, UnitsFit, SMT DEF PhaseOneRounds, Halves, Spans

LEMMA PhaseTwoValues ==
  ASSUME NEW s \in Nat
  PROVE  /\ Spans(PhaseTwoRounds(s)[1][1], s, s + 1 * RoundUnit)
         /\ Spans(PhaseTwoRounds(s)[1][2], s + 1 * RoundUnit, s + 2 * RoundUnit)
         /\ Spans(PhaseTwoRounds(s)[2][1], s + 2 * RoundUnit, s + 3 * RoundUnit)
         /\ Spans(PhaseTwoRounds(s)[2][2], s + 3 * RoundUnit, s + 4 * RoundUnit)
         /\ Spans(PhaseTwoRounds(s)[3][1], s + 4 * RoundUnit, s + 5 * RoundUnit)
         /\ Spans(PhaseTwoRounds(s)[3][2], s + 5 * RoundUnit, s + 6 * RoundUnit)
         /\ Spans(PhaseTwoRounds(s)[4][1], s + 6 * RoundUnit, s + 7 * RoundUnit)
         /\ Spans(PhaseTwoRounds(s)[4][2], s + 7 * RoundUnit, s + 8 * RoundUnit)
<1>1. (2 * RoundUnit) \div 2 = RoundUnit
  BY UnitsFit, SMT
<1> QED BY <1>1, UnitsFit, SMT DEF PhaseTwoRounds, Halves, Spans

(* The values of the schedule of a new proposal. *)
LEMMA BaseStarts ==
  ASSUME NEW tx \in Ptx, NEW ps, SameSchedule(ps, NewState(tx)),
         NEW e, e = EpochStart(Epoch(tx.block)),
         NEW s, s = EpochStart(Epoch(tx.block) + 1), NEW t, t = EpochStart(ps.end_epoch),
         NEW i \in 1 .. 24
  PROVE  Spans(Base(ps)[i], Starts(e, s, t)[i], Starts(e, s, t)[i + 1])
<1> DEFINE new == NewState(tx)
           epoch == Epoch(tx.block) + 1
           end == epoch + tx.epochs + 1
           r == s + SecurityLength + 8 * RoundUnit
           q == t + SecurityLength + 16 * RoundUnit
           u == RoundUnit
           k == SecurityLength
<1>1. epoch \in Nat /\ tx.epochs \in Nat /\ end \in Nat
  BY EpochType, SMT DEF Ptx, Block
<1>2. /\ new.first = tx /\ new.end_epoch = end
      /\ new.security_p1 = Span(s, SecurityLength)
      /\ new.voting_p1 = Span(s + SecurityLength, VotingLength)
      /\ new.rounds_p1 = PhaseOneRounds(s + SecurityLength + VotingLength)
      /\ new.security_p2 = Span(EpochStart(end), SecurityLength)
      /\ new.voting_p2 = Span(EpochStart(end) + SecurityLength, VotingLength)
      /\ new.release_period = Span(EpochStart(end) + SecurityLength + VotingLength, ReleaseLength)
      /\ new.rounds_p2 =
           PhaseTwoRounds(EpochStart(end) + SecurityLength + VotingLength + ReleaseLength)
  BY DEF NewState, PhaseTwo
<1>3. /\ ps.first = tx /\ t = EpochStart(end)
      /\ ps.security_p1 = Span(s, SecurityLength)
      /\ ps.voting_p1 = Span(s + SecurityLength, VotingLength)
      /\ ps.rounds_p1 = PhaseOneRounds(s + SecurityLength + VotingLength)
      /\ ps.security_p2 = Span(t, SecurityLength)
      /\ ps.voting_p2 = Span(t + SecurityLength, VotingLength)
      /\ ps.release_period = Span(t + SecurityLength + VotingLength, ReleaseLength)
      /\ ps.rounds_p2 = PhaseTwoRounds(t + SecurityLength + VotingLength + ReleaseLength)
  BY <1>2 DEF SameSchedule
<1>4. /\ k \in Nat /\ u \in Nat /\ VotingLength = 8 * u /\ ReleaseLength = 8 * u
      /\ s \in Nat /\ t \in Nat
  BY <1>1, <1>3, UnitsFit, LengthTypes, EpochStartType DEF VotingLength, ReleaseLength
<1>5. /\ r \in Nat /\ r = s + k + 8 * u /\ q \in Nat /\ q = t + k + 16 * u
      /\ s + SecurityLength + VotingLength = r
      /\ t + SecurityLength + VotingLength = t + k + 8 * u
      /\ t + SecurityLength + VotingLength + ReleaseLength = q
  BY <1>4, SMT
<1>6. /\ ps.security_p1[1] = s /\ ps.security_p2[1] = t
      /\ Spans(ps.security_p1, s, s + k)
      /\ Spans(ps.voting_p1, s + k, s + k + 8 * u)
      /\ Spans(ps.security_p2, t, t + k)
      /\ Spans(ps.voting_p2, t + k, t + k + 8 * u)
      /\ Spans(ps.release_period, t + k + 8 * u, t + k + 16 * u)
  BY <1>3, <1>4, SMT DEF Span, Spans
<1>7. /\ Spans(ps.rounds_p1[1][1], r, r + 3 * u)
      /\ Spans(ps.rounds_p1[1][2], r + 3 * u, r + 6 * u)
      /\ Spans(ps.rounds_p1[2][1], r + 6 * u, r + 7 * u)
      /\ Spans(ps.rounds_p1[2][2], r + 7 * u, r + 8 * u)
      /\ Spans(ps.rounds_p1[3][1], r + 8 * u, r + 9 * u)
      /\ Spans(ps.rounds_p1[3][2], r + 9 * u, r + 10 * u)
      /\ Spans(ps.rounds_p1[4][1], r + 10 * u, r + 11 * u)
      /\ Spans(ps.rounds_p1[4][2], r + 11 * u, r + 12 * u)
  BY <1>3, <1>5, PhaseOneValues
<1>8. /\ Spans(ps.rounds_p2[1][1], q, q + 1 * u)
      /\ Spans(ps.rounds_p2[1][2], q + 1 * u, q + 2 * u)
      /\ Spans(ps.rounds_p2[2][1], q + 2 * u, q + 3 * u)
      /\ Spans(ps.rounds_p2[2][2], q + 3 * u, q + 4 * u)
      /\ Spans(ps.rounds_p2[3][1], q + 4 * u, q + 5 * u)
      /\ Spans(ps.rounds_p2[3][2], q + 5 * u, q + 6 * u)
      /\ Spans(ps.rounds_p2[4][1], q + 6 * u, q + 7 * u)
      /\ Spans(ps.rounds_p2[4][2], q + 7 * u, q + 8 * u)
  BY <1>3, <1>5, PhaseTwoValues
<1>9. Starts(e, s, t) =
        <<0, e, s, s + k,
          r, r + 3 * u, r + 6 * u, r + 7 * u, r + 8 * u, r + 9 * u, r + 10 * u, r + 11 * u,
          r + 12 * u,
          t, t + k, t + k + 8 * u,
          q, q + u, q + 2 * u, q + 3 * u, q + 4 * u, q + 5 * u, q + 6 * u, q + 7 * u, q + 8 * u>>
  BY SMTT(30) DEF Starts
<1> HIDE DEF r, q, u, k
<1>10. CASE i \in 1 .. 4
  BY <1>3, <1>4, <1>5, <1>6, <1>9, <1>10 DEF Base, Spans
<1>11. CASE i \in 5 .. 8
  BY <1>4, <1>5, <1>7, <1>9, <1>11 DEF Base
<1>12. CASE i \in 9 .. 12
  BY <1>4, <1>5, <1>7, <1>9, <1>12 DEF Base
<1>13. CASE i \in 13 .. 16
  BY <1>4, <1>5, <1>6, <1>7, <1>9, <1>13 DEF Base, Spans
<1>14. CASE i \in 17 .. 20
  BY <1>4, <1>5, <1>8, <1>9, <1>14 DEF Base
<1>15. CASE i \in 21 .. 24
  BY <1>4, <1>5, <1>8, <1>9, <1>15 DEF Base
<1> QED BY <1>10, <1>11, <1>12, <1>13, <1>14, <1>15

LEMMA StartsInOrder ==
  ASSUME NEW e \in Nat, NEW s \in Nat, NEW t \in Nat, e <= s, s + EpochLength <= t
  PROVE  /\ Starts(e, s, t)[1] = 0
         /\ \A i \in 1 .. 25 : Starts(e, s, t)[i] \in Nat
         /\ \A i \in 1 .. 24 : Starts(e, s, t)[i] <= Starts(e, s, t)[i + 1]
         /\ Starts(e, s, t)[25] = t + SecurityLength + 24 * RoundUnit
         /\ Starts(e, s, t)[25] <= t + EpochLength
<1> DEFINE u == RoundUnit
           k == SecurityLength
           a == Starts(e, s, t)
<1>1. u \in Nat /\ k \in Nat /\ k + 24 * u <= EpochLength /\ EpochLength \in Nat
  BY UnitsFit, EpochAssumption, SMT DEF SecurityLength
<1>2. a = <<0, e, s, s + k,
            (s + k + 8 * u), (s + k + 8 * u) + 3 * u, (s + k + 8 * u) + 6 * u,
            (s + k + 8 * u) + 7 * u, (s + k + 8 * u) + 8 * u, (s + k + 8 * u) + 9 * u,
            (s + k + 8 * u) + 10 * u, (s + k + 8 * u) + 11 * u, (s + k + 8 * u) + 12 * u,
            t, t + k, t + k + 8 * u,
            (t + k + 16 * u), (t + k + 16 * u) + u, (t + k + 16 * u) + 2 * u,
            (t + k + 16 * u) + 3 * u, (t + k + 16 * u) + 4 * u, (t + k + 16 * u) + 5 * u,
            (t + k + 16 * u) + 6 * u, (t + k + 16 * u) + 7 * u, (t + k + 16 * u) + 8 * u>>
  BY DEF Starts
<1> HIDE DEF u, k, a
<1>3. \A i \in 1 .. 25 : a[i] \in Nat
  BY <1>1, <1>2
<1>4. \A i \in 1 .. 12 : a[i] <= a[i + 1]
  BY <1>1, <1>2
<1>5. \A i \in 13 .. 24 : a[i] <= a[i + 1]
  BY <1>1, <1>2
<1>6. a[1] = 0 /\ a[25] = t + k + 24 * u /\ a[25] <= t + EpochLength
  BY <1>1, <1>2
<1>7. a[1] = 0 /\ a[25] = t + SecurityLength + 24 * RoundUnit /\ a[25] <= t + EpochLength
  BY <1>6 DEF k, u
<1>8. \A i \in 1 .. 24 : a[i] <= a[i + 1]
  BY <1>4, <1>5
<1> QED BY <1>3, <1>7, <1>8 DEF a

LEMMA OneMore ==
  ASSUME NEW T, NEW b \in Seq(T), NEW x \in T
  PROVE  /\ b \o <<x>> \in Seq(T) /\ Len(b \o <<x>>) = Len(b) + 1
         /\ \A i \in 1 .. Len(b) : (b \o <<x>>)[i] = b[i]
         /\ (b \o <<x>>)[Len(b) + 1] = x
OBVIOUS

LEMMA NoneMore ==
  ASSUME NEW T, NEW b \in Seq(T)
  PROVE  b \o <<>> = b
OBVIOUS

(* n periods, of which each ends where the next one begins; the last one   *)
(* ends before a[n + 1].                                                   *)
Linked(p, a, n) ==
  /\ Len(p) = n /\ a[1] = 0
  /\ \A i \in 1 .. n + 1 : a[i] \in Nat
  /\ \A i \in 1 .. n : Spans(p[i], a[i], a[i + 1]) /\ a[i] <= a[i + 1]

LEMMA LinkOne ==
  ASSUME NEW T, NEW p \in Seq(T), NEW a, NEW n \in Nat, Linked(p, a, n), NEW x \in T,
         NEW end \in Nat, a[n + 1] <= end, Spans(x, a[n + 1], end)
  PROVE  \E c : Linked(p \o <<x>>, c, n + 1) /\ c[n + 2] = end
<1> DEFINE q == p \o <<x>>
           c == [i \in 1 .. n + 2 |-> IF i = n + 2 THEN end ELSE a[i]]
<1>1. /\ Len(q) = n + 1 /\ q[n + 1] = x
      /\ \A i \in 1 .. n : q[i] = p[i]
  BY OneMore DEF Linked
<1>2. c[n + 2] = end /\ \A i \in 1 .. n + 1 : c[i] = a[i]
  OBVIOUS
<1> HIDE DEF q, c
<1>3. c[1] = 0
  BY <1>2 DEF Linked
<1>4. ASSUME NEW i \in 1 .. (n + 1) + 1 PROVE c[i] \in Nat
  <2>1. i = n + 2 \/ i \in 1 .. n + 1
    OBVIOUS
  <2> QED BY <1>2, <2>1 DEF Linked
<1>5. ASSUME NEW i \in 1 .. n + 1
      PROVE  Spans(q[i], c[i], c[i + 1]) /\ c[i] <= c[i + 1]
  <2>1. CASE i = n + 1
    <3>1. i + 1 = n + 2 /\ c[i] = a[n + 1] /\ q[i] = x
      BY <1>1, <1>2, <2>1
    <3> QED BY <1>2, <3>1
  <2>2. CASE i \in 1 .. n
    <3>1. i + 1 \in 1 .. n + 1
      BY <2>2
    <3>2. c[i] = a[i] /\ c[i + 1] = a[i + 1] /\ q[i] = p[i]
      BY <1>1, <1>2, <2>2, <3>1
    <3> QED BY <2>2, <3>2 DEF Linked
  <2> QED BY <2>1, <2>2
<1>6. Linked(q, c, n + 1)
  BY <1>1, <1>3, <1>4, <1>5 DEF Linked
<1> QED BY <1>2, <1>6 DEF q

LEMMA LinkEnd ==
  ASSUME NEW T, NEW p \in Seq(T), NEW a, NEW n \in Nat, Linked(p, a, n), NEW y \in T,
         y[1] = a[n + 1]
  PROVE  Chained(p \o <<y>>, a, n + 1)
<1> DEFINE q == p \o <<y>>
           m == n + 1
<1>1. /\ q \in Seq(T) /\ Len(q) = m /\ q[m] = y
      /\ \A i \in 1 .. n : q[i] = p[i]
  BY OneMore DEF Linked
<1>2. m \in Nat \ {0} /\ m - 1 = n
  OBVIOUS
<1>3. a[1] = 0 /\ \A i \in 1 .. m : a[i] \in Nat
  BY DEF Linked
<1> HIDE DEF q
<1>4. ASSUME NEW i \in 1 .. m PROVE q[i][1] = a[i]
  <2>1. i = m \/ i \in 1 .. n
    OBVIOUS
  <2> QED BY <1>1, <2>1 DEF Linked, Spans
<1>5. \A i \in 1 .. n : q[i][2] = a[i + 1] - 1 /\ a[i] <= a[i + 1]
  BY <1>1 DEF Linked, Spans
<1>6. DOMAIN q = 1 .. m
  BY <1>1
<1> HIDE DEF m
<1>7. Chained(q, a, m)
  BY <1>1, <1>2, <1>3, <1>4, <1>5, <1>6 DEF Chained
<1> QED BY <1>7 DEF q, m

(* The last period follows the others, after what is left of the epoch.    *)
LEMMA ChainEnds ==
  ASSUME NEW S, NEW b \in Seq(S), NEW a, NEW n \in Nat, Linked(b, a, n),
         NEW end \in Nat, a[n + 1] <= end
  PROVE  \E c, m : Chained(b \o (IF a[n + 1] < end THEN <<<<a[n + 1], end - 1>>>> ELSE <<>>)
                             \o <<<<end>>>>, c, m)
<1> DEFINE x == <<a[n + 1], end - 1>>
           y == <<end>>
           T == S \cup {x, y}
<1>1. Spans(x, a[n + 1], end) /\ y[1] = end
  BY DEF Spans
<1>2. b \in Seq(T) /\ x \in T /\ y \in T
  OBVIOUS
<1>3. SUFFICES \E c, m : Chained(b \o (IF a[n + 1] < end THEN <<x>> ELSE <<>>) \o <<y>>, c, m)
  OBVIOUS
<1> HIDE DEF T, x, y
<1>4. CASE a[n + 1] < end
  <2>1. PICK c : Linked(b \o <<x>>, c, n + 1) /\ c[n + 2] = end
    BY <1>1, <1>2, LinkOne
  <2>2. b \o <<x>> \in Seq(T)
    BY <1>2, OneMore
  <2> DEFINE d == b \o <<x>>
             k == n + 1
  <2>3. d \in Seq(T) /\ k \in Nat /\ Linked(d, c, k) /\ y[1] = c[k + 1]
    BY <1>1, <2>1, <2>2
  <2> HIDE DEF d, k
  <2>4. Chained(d \o <<y>>, c, k + 1)
    BY <1>2, <2>3, LinkEnd
  <2> QED BY <1>4, <2>4 DEF d
<1>5. CASE ~(a[n + 1] < end)
  <2>1. a[n + 1] \in Nat
    BY DEF Linked
  <2>2. a[n + 1] = end
    BY <1>5, <2>1
  <2>3. Chained(b \o <<y>>, a, n + 1)
    BY <1>1, <1>2, <2>2, LinkEnd
  <2>4. b \o <<>> = b
    BY <1>2, NoneMore
  <2> QED BY <1>5, <2>3, <2>4
<1> QED BY <1>4, <1>5

LEMMA FunctionIsSequence ==
  ASSUME NEW X, NEW n \in Nat, NEW f \in [1 .. n -> X]
  PROVE  f \in Seq(X) /\ Len(f) = n
OBVIOUS

LEMMA BaseIsSequence ==
  ASSUME NEW ps
  PROVE  Base(ps) \in Seq({Base(ps)[i] : i \in 1 .. 24}) /\ Len(Base(ps)) = 24
<1> DEFINE b == Base(ps)
           X == {b[i] : i \in 1 .. 24}
<1>1. DOMAIN b = 1 .. 24 /\ b = [i \in 1 .. 24 |-> b[i]]
  BY DEF Base
<1> HIDE DEF b
<1>2. b \in [1 .. 24 -> X]
  BY <1>1
<1> HIDE DEF X
<1>3. 24 \in Nat
  OBVIOUS
<1>4. b \in Seq(X) /\ Len(b) = 24
  BY <1>2, <1>3, FunctionIsSequence, ZenonT(40)
<1> QED BY <1>4 DEF b, X

LEMMA PeriodsChained ==
  ASSUME NEW tx \in Ptx, NEW ps, SameSchedule(ps, NewState(tx))
  PROVE  \E c, n : Chained(Periods(ps), c, n)
<1> DEFINE e == EpochStart(Epoch(tx.block))
           s == EpochStart(Epoch(tx.block) + 1)
           t == EpochStart(ps.end_epoch)
           end == t + EpochLength
           a == Starts(e, s, t)
           b == Base(ps)
<1>1. /\ Epoch(tx.block) \in Nat /\ tx.epochs \in Nat /\ EpochLength \in Nat
      /\ Epoch(tx.block) + 1 \in Nat
  BY EpochType, EpochAssumption DEF Ptx, Block
<1>2. ps.end_epoch = (Epoch(tx.block) + 1) + tx.epochs + 1 /\ ps.end_epoch \in Nat
  <2>1. NewState(tx).end_epoch = (Epoch(tx.block) + 1) + tx.epochs + 1
    BY DEF NewState, PhaseTwo
  <2> QED BY <1>1, <2>1 DEF SameSchedule
<1>3. /\ e \in Nat /\ s \in Nat /\ t \in Nat /\ end \in Nat
      /\ s = e + EpochLength /\ EpochStart(ps.end_epoch + 1) = end
  BY <1>1, <1>2, EpochStartType, NextEpoch
<1>4. s + EpochLength <= t
  <2>1. EpochStart((Epoch(tx.block) + 1) + 1) = s + EpochLength
    BY <1>1, NextEpoch
  <2> QED BY <1>1, <1>2, <2>1, EpochsGrow
<1>5. e <= s
  BY <1>1, <1>3
<1>6. \A i \in 1 .. 24 : Spans(b[i], a[i], a[i + 1])
  BY BaseStarts
<1>7. /\ a[1] = 0 /\ \A i \in 1 .. 25 : a[i] \in Nat
      /\ \A i \in 1 .. 24 : a[i] <= a[i + 1]
      /\ a[25] <= end
  <2> HIDE DEF e, s, t, a
  <2>1. /\ a[1] = 0 /\ \A i \in 1 .. 25 : a[i] \in Nat
        /\ \A i \in 1 .. 24 : a[i] <= a[i + 1]
        /\ a[25] <= t + EpochLength
    BY <1>3, <1>4, <1>5, StartsInOrder DEF a
  <2> QED BY <2>1
<1>8. ps.rounds_p2[4][2][2] = a[25] - 1
  <2>1. b[24] = ps.rounds_p2[4][2]
    BY DEF Base
  <2> QED BY <1>6, <2>1 DEF Spans
<1>9. b \in Seq({b[i] : i \in 1 .. 24}) /\ Len(b) = 24
  BY BaseIsSequence
<1>10. Periods(ps) = b \o (IF a[25] < end THEN <<<<a[25], end - 1>>>> ELSE <<>>) \o <<<<end>>>>
  <2> DEFINE dist_end == EpochStart(ps.end_epoch + 1) - 1
             last == ps.rounds_p2[4][2][2]
  <2>1. Periods(ps) = b \o (IF last < dist_end THEN <<<<last + 1, dist_end>>>> ELSE <<>>)
                        \o <<<<dist_end + 1>>>>
    BY DEF Periods, Base
  <2>2. dist_end = end - 1 /\ dist_end + 1 = end /\ last + 1 = a[25]
        /\ (last < dist_end <=> a[25] < end)
    BY <1>3, <1>7, <1>8
  <2> HIDE DEF b, a, end, dist_end, last
  <2> QED BY <2>1, <2>2
<1> HIDE DEF b, a, end
<1>11. Linked(b, a, 24)
  BY <1>6, <1>7, <1>9 DEF Linked
<1>12. end \in Nat /\ 24 \in Nat /\ 24 + 1 = 25 /\ a[24 + 1] <= end
  BY <1>3, <1>7
<1>13. \E c, n : Chained(b \o (IF a[24 + 1] < end THEN <<<<a[24 + 1], end - 1>>>> ELSE <<>>)
                           \o <<<<end>>>>, c, n)
  BY <1>9, <1>11, <1>12, ChainEnds
<1> QED BY <1>10, <1>12, <1>13

(* Every block is in exactly one period of a proposal, whatever is left    *)
(* over by the division of the epoch (set_rounds and get_period_dict).     *)
THEOREM OnePeriodAtATime == Spec => []OnePeriodPerBlock
<1>1. IInv => OnePeriodPerBlock
  <2> SUFFICES ASSUME IInv, NEW n \in DOMAIN states, Unmoved(states[n]),
                      NEW block \in 0 .. EpochStart(states[n].end_epoch + 1)
               PROVE  Cardinality({i \in DOMAIN Periods(states[n]) :
                                     InPeriod(block, Periods(states[n]), i)}) = 1
    BY DEF OnePeriodPerBlock
  <2>1. ptxes[n] \in Ptx /\ SameSchedule(states[n], NewState(ptxes[n]))
    BY UnmovedAsNew
  <2>2. PICK c, k : Chained(Periods(states[n]), c, k)
    BY <2>1, PeriodsChained
  <2>3. block \in Nat
    OBVIOUS
  <2> QED BY <2>2, <2>3, OneOfThem
<1> QED BY <1>1, Invariant, PTL

=============================================================================
