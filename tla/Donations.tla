----------------------------- MODULE Donations ------------------------------
(***************************************************************************)
(* The donations to one proposal of a DT deck: set_donation_states of      *)
(* class ProposalState (dt_states.py), with the slots of dt_slots.py and   *)
(* the transactions of dt_entities.py.                                     *)
(*                                                                         *)
(* Donors signal an amount, lock it and donate it in the release period    *)
(* (rounds 0 to 3), or signal and donate (rounds 4 to 7).  A second output *)
(* of a locking or donation transaction can reserve an amount for the next *)
(* round.  The slot of a donor, the part of its donation that is rewarded, *)
(* depends on what the others have signalled and reserved.                 *)
(*                                                                         *)
(* The chain grows transaction by transaction, and is parsed at every      *)
(* height: Begin, then for every round the validation of its signalling    *)
(* and reserve transactions, one by one, and the slots, successors and     *)
(* DonationStates of those that are valid, one by one; End.  A parse       *)
(* starts from nothing, so parsing more rarely only skips results.         *)
(*                                                                         *)
(* Abstractions.  Blocks are only told apart by the half of a round, or    *)
(* period, that they are in (check_round; ProposalRounds has the blocks).  *)
(* Transactions outside the periods of their kind are in no round and left *)
(* out.  A transaction has one input, amounts are not 0.                   *)
(***************************************************************************)
EXTENDS Integers, Sequences, FiniteSets, Sums

CONSTANTS
  Addr,        \* addresses
  Proposer,    \* donation_address of the proposal
  ReqAmount,   \* req_amount
  Lossy,       \* <<t, T, a>> for which int(a * (Decimal(t) / T)) is 1 too small
  Txs,         \* the transactions that may be mined, before they spend an output
  Places,      \* bound: the places in which something happens
  MaxTxs,      \* bound: number of transactions
  MaxCoins     \* bound: number of locks and donations that do not spend an earlier transaction

None == 0      \* no transaction; the others are their positions in the chain
NoOutput == [tx |-> None, output |-> 0]
Rounds == 0 .. 7
PriorityRounds == {1, 2, 4, 5}
Release == 8
Kinds == {"signalling", "locking", "donation"}

(* sender is input_addresses[0]; address the one of output 2: the donor    *)
(* address of a signalling transaction, the one that can unlock a locking  *)
(* transaction, the one a donation is paid to.  timely: the time lock is   *)
(* not before req_timelock.  spends: the output of a tracked transaction   *)
(* that is the input.                                                      *)
Tx == [kind : Kinds, place : 0 .. 16, sender : Addr, address : Addr, amount : Nat \ {0},
       reserved : Nat, reserve_address : Addr, timely : BOOLEAN,
       spends : [tx : Nat, output : {0, 2, 3}]]

ASSUME ProposalAssumption == Proposer \in Addr /\ ReqAmount \in Nat \ {0}
ASSUME TxsAssumption == Txs \subseteq {tx \in Tx : tx.spends = NoOutput}
(* int of a Decimal that is not negative is not negative. *)
ASSUME LossyAssumption ==
  \A x \in Lossy : x \in Nat \X (Nat \ {0}) \X Nat /\ x[1] * x[3] >= x[2]
ASSUME BoundsAssumption == Places \subseteq 0 .. 17 /\ 0 \in Places /\ MaxTxs \in Nat /\ MaxCoins \in Nat

VARIABLES
  chain,                    \* the tracked transactions, in the order of the chain
  place,                    \* where the current block is
  stage,                    \* what runs, and what the last parse came to
  rd,                       \* the round being processed, -1 before the first
  todo,                     \* origin_tx_list that is left in a validation
  origins,                  \* the valid ones; all_origin_txes that are left
  donor_addresses,          \* the addresses used up, with their phase
  selected_successors,      \* the successors chosen by their address
  donor_address,            \* the objects of donations whose donor_address is set
  available_slot_amount,
  reserve_txes, signalling_txes,
  locking_txes, donation_txes,    \* per round, the objects that were added
  dstates,                  \* donation_states: <<round, origin>> -> DonationState
  earlier                   \* the result of the parse before

env == <<chain, place>>
setup == <<donor_addresses, available_slot_amount, reserve_txes, signalling_txes>>
choice == <<selected_successors, donor_address, locking_txes, donation_txes, dstates>>
vars == <<env, stage, rd, todo, origins, setup, choice, earlier>>

(* _validate_basic, _validate_priority for reserve and for signalling      *)
(* transactions, and the rest of a parse.                                  *)
Validating == {"basic", "reserves", "signals"}
Stages == Validating \cup {"changed", "parsing", "parsed", "raised"}

-----------------------------------------------------------------------------
(* Rounds and successors.                                                  *)

Signalling(r) == IF r < 4 THEN 2 * r ELSE 2 * r + 1
Second(r) == Signalling(r) + 1
Phase(r) == r \div 4

(* check_round *)
InRound(n, r) ==
  CASE chain[n].kind = "signalling" -> chain[n].place = Signalling(r)
    [] chain[n].kind = "locking"    -> r < 4 /\ chain[n].place = Second(r)
    [] chain[n].kind = "donation"   -> chain[n].place = IF r < 4 THEN Release ELSE Second(r)

(* sorted_stxes[r], sorted_ltxes[r] and sorted_dtxes[r]; in the order of   *)
(* the chain, as positions are.                                            *)
Sorted(kind, r) == {n \in DOMAIN chain : chain[n].kind = kind /\ InRound(n, r)}
IsReserve(n) == chain[n].kind # "signalling"

(* The first transaction of a list. *)
Earliest(S) == IF S = {} THEN None ELSE CHOOSE n \in S : \A m \in S : n <= m

(* A transaction object.  Appending to locking_txes copies all that are in *)
(* it, with their successors; what is set on a copy is not on the original.*)
Object(n, copy) == [tx |-> n, copy |-> copy]

(* An object in a list that is validated, and where it comes from: a list  *)
(* of base_txes can hold a transaction twice.                              *)
Candidate(o, list, i) == [tx |-> o.tx, copy |-> o.copy, list |-> list, index |-> i]
Signals(r) == {Candidate(Object(n, FALSE), r, 0) : n \in Sorted("signalling", r)}

(* What remains equal is in the order of the lists.                        *)
Before(c, d) ==
  \/ c.tx < d.tx
  \/ c.tx = d.tx /\ c.list < d.list
  \/ c.tx = d.tx /\ c.list = d.list /\ c.index < d.index

Spending(n, output) == {m \in DOMAIN chain : chain[m].spends = [tx |-> n, output |-> output]}

(* direct_successor: a set of one transaction, or empty. *)
Direct(n) ==
  {m \in Spending(n, 2) :
     CASE chain[n].kind = "signalling" ->
            \E r \in Rounds : /\ InRound(n, r) /\ InRound(m, r)
                              /\ chain[m].kind = IF r < 4 THEN "locking" ELSE "donation"
       [] chain[n].kind = "locking"  -> chain[m].kind = "donation" /\ InRound(m, 0)
       [] chain[n].kind = "donation" -> FALSE}

(* reserve_successor.  Donations of the release period are in each of the  *)
(* rounds 0 to 3, so one can be the successor of another one.              *)
Reserve(n) ==
  {m \in Spending(n, 3) : /\ chain[m].kind = chain[n].kind
                          /\ \E r \in 0 .. 6 : InRound(n, r) /\ InRound(m, r + 1)}

(* The successor of an origin transaction. *)
Successor(n) == IF IsReserve(n) THEN Reserve(n) ELSE Direct(n)

(* _delete_invalid_successor *)
Deleted(selected, successors) ==
  selected \ UNION {{m} \cup (IF chain[m].kind = "locking" THEN Direct(m) \cup Reserve(m) ELSE {})
                      : m \in successors \cap selected}

-----------------------------------------------------------------------------
(* Validation of the signalling and reserve transactions of a round.       *)

(* A DonationState is found by what it holds, in the order of the rounds.  *)
Parents(r) == {k \in DOMAIN dstates : IF r = 4 THEN k[1] < 4 ELSE k[1] = r - 1}
First(K) == {k \in K : \A j \in K : k[1] < j[1] \/ (k[1] = j[1] /\ k[2] <= j[2])}

ParentOf(n, r) ==
  First({k \in Parents(r) : IF chain[n].kind = "signalling"
                            THEN dstates[k].donor_address = chain[n].sender
                            ELSE n \in {dstates[k].locking_tx, dstates[k].donation_tx}})

(* What the parent has locked or donated, None if nothing.                 *)
Paid(k, r) == IF r < 4 THEN dstates[k].locking_tx ELSE dstates[k].donation_tx
Filled(k, r) == Paid(k, r) # None /\ 100 * chain[Paid(k, r)].amount >= 95 * dstates[k].slot

Claimant(n) == IF IsReserve(n) THEN chain[n].reserve_address ELSE chain[n].address

(* Mutant: reserve addresses are listed under a type of their own. *)
Bug_Used(n) == ~IsReserve(n) /\ <<Claimant(n), Phase(rd)>> \in donor_addresses

(* check_donor_address.  Reserve transactions count as signalling ones.    *)
Used(n) == <<Claimant(n), Phase(rd)>> \in donor_addresses

(* The transactions that may be reserve transactions in a priority round.  *)
BaseTxes(r) ==
  LET lists == CASE r \in {1, 2} -> {r - 1}
                 [] r = 4        -> 0 .. 3
                 [] r = 5        -> {4}
      txes(q) == IF r < 4 THEN locking_txes[q] ELSE donation_txes[q]
  IN  UNION {{Candidate(txes(q)[i], q, i) : i \in DOMAIN txes(q)} : q \in lists}

Ids(objects) == {o.tx : o \in objects}
Amount(S) == Sum(S, [n \in S |-> chain[n].amount])
Reserved(S) == Sum(S, [n \in S |-> chain[n].reserved])

-----------------------------------------------------------------------------
(* Slots.                                                                  *)

OfRound(r) == {k \in DOMAIN dstates : k[1] = r}
Locked(r) == Sum(OfRound(r), [k \in OfRound(r) |-> dstates[k].effective_locking_slot])
Effective(r) == Sum(OfRound(r), [k \in OfRound(r) |-> dstates[k].effective_slot])

(* Mutant: the rounds of phase 1 pass on what was not donated. *)
Bug_Available(r) ==
  IF r = 0 THEN ReqAmount ELSE available_slot_amount[r - 1] - Effective(r - 1)

(* Mutant: what is locked and what is donated both count. *)
Bug_AvailableTwice(r) ==
  IF r = 0 THEN ReqAmount ELSE available_slot_amount[r - 1] - Locked(r - 1) - Effective(r - 1)

(* Mutant: phase 2 only sees what round 3 has left. *)
Bug_AvailableLast(r) ==
  CASE r = 0        -> ReqAmount
    [] r \in 1 .. 3 -> available_slot_amount[r - 1] - Locked(r - 1)
    [] r = 4        -> ReqAmount - Effective(3)
    [] OTHER        -> available_slot_amount[r - 1] - Effective(r - 1)

(* available_slot_amount: what is locked counts in phase 1, what is        *)
(* donated in phase 2.                                                     *)
Available(r) ==
  CASE r = 0        -> ReqAmount
    [] r \in 1 .. 3 -> available_slot_amount[r - 1] - Locked(r - 1)
    [] r = 4        -> ReqAmount - (Effective(0) + Effective(1) + Effective(2) + Effective(3))
    [] OTHER        -> available_slot_amount[r - 1] - Effective(r - 1)

RawSlot(t, av, T) ==
  LET share == (av * t) \div T - (IF <<t, T, av>> \in Lossy THEN 1 ELSE 0)
  IN  IF t < share THEN t ELSE share

FirstServeSlot(r, n, av) ==
  LET before == Amount({m \in signalling_txes[r] : m < n})
  IN  IF before >= av THEN 0
      ELSE IF chain[n].amount < av - before THEN chain[n].amount ELSE av - before

(* Mutant: reserved amounts have no priority. *)
Bug_NoPriority(r, n, av) ==
  RawSlot(IF n \in reserve_txes[r] THEN chain[n].reserved ELSE chain[n].amount, av,
          Reserved(reserve_txes[r]) + Amount(signalling_txes[r]))

PrioritySlot(r, n, av) ==
  LET ramount == Reserved(reserve_txes[r])
  IN  IF n \in reserve_txes[r] THEN RawSlot(chain[n].reserved, av, ramount)
      ELSE IF av > ramount THEN RawSlot(chain[n].amount, av - ramount, Amount(signalling_txes[r]))
      ELSE 0

(* get_slot *)
SlotIn(r, n) ==
  LET av == available_slot_amount[r]
  IN  CASE r \in {0, 6}         -> RawSlot(chain[n].amount, av, Amount(signalling_txes[r]))
        [] r \in {3, 7}         -> FirstServeSlot(r, n, av)
        [] r \in PriorityRounds -> PrioritySlot(r, n, av)

Slot(n) == SlotIn(rd, n)

-----------------------------------------------------------------------------
(* The chain.                                                              *)

(* Who can spend an output: 2, once the time lock is over, and, if         *)
(* something is reserved, 3.                                               *)
Unspent(list, who) ==
  {out \in [tx : DOMAIN list, output : {2, 3}] :
     /\ \A n \in DOMAIN list : list[n].spends # out
     /\ IF out.output = 2
        THEN /\ list[out.tx].kind # "donation" /\ list[out.tx].address = who
             /\ list[out.tx].kind = "locking" /\ list[out.tx].timely => place >= Release
        ELSE list[out.tx].reserved > 0 /\ list[out.tx].reserve_address = who}

Init ==
  /\ chain = <<>> /\ place = 0
  /\ stage = "changed" /\ rd = -1 /\ todo = {} /\ origins = {}
  /\ donor_addresses = {} /\ selected_successors = {} /\ donor_address = <<>>
  /\ available_slot_amount = [r \in Rounds |-> 0]
  /\ reserve_txes = [r \in Rounds |-> {}] /\ signalling_txes = [r \in Rounds |-> {}]
  /\ locking_txes = [r \in Rounds |-> <<>>] /\ donation_txes = [r \in Rounds |-> <<>>]
  /\ dstates = <<>>
  /\ earlier = [place |-> 0, dstates |-> <<>>]

Changed == /\ stage \in {"parsed", "raised"} /\ stage' = "changed"
           /\ UNCHANGED <<rd, todo, origins, setup, choice, earlier>>

Coins(list) == {n \in DOMAIN list : list[n].kind # "signalling" /\ list[n].spends = NoOutput}
Mined(list, tx) == \E n \in DOMAIN list : [list[n] EXCEPT !.spends = NoOutput] = tx

(* A donor sends a transaction, with an input of its address: an output of *)
(* an earlier transaction or another coin.  What a signalling transaction  *)
(* spends is not looked at.  As a bound, nothing is sent twice.            *)
Mine ==
  /\ Changed
  /\ Len(chain) < MaxTxs
  /\ \E tx \in Txs, out \in {NoOutput} \cup [tx : DOMAIN chain, output : {2, 3}] :
       /\ tx.place = place /\ ~Mined(chain, tx)
       /\ out = NoOutput \/ (tx.kind # "signalling" /\ out \in Unspent(chain, tx.sender))
       /\ chain' = Append(chain, [tx EXCEPT !.spends = out])
       /\ Cardinality(Coins(chain')) <= MaxCoins
  /\ UNCHANGED place

Pass ==
  /\ Changed
  /\ \E p \in Places : place < p /\ (\A q \in Places : q <= place \/ p <= q) /\ place' = p
  /\ UNCHANGED chain

-----------------------------------------------------------------------------
(* One parse: set_donation_states.                                         *)

Begin ==
  /\ stage = "changed" /\ stage' = "parsing"
  /\ rd' = -1 /\ todo' = {} /\ origins' = {}
  /\ donor_addresses' = {} /\ selected_successors' = {} /\ donor_address' = <<>>
  /\ available_slot_amount' = [r \in Rounds |-> 0]
  /\ reserve_txes' = [r \in Rounds |-> {}] /\ signalling_txes' = [r \in Rounds |-> {}]
  /\ locking_txes' = [r \in Rounds |-> <<>>] /\ donation_txes' = [r \in Rounds |-> <<>>]
  /\ dstates' = <<>>
  /\ UNCHANGED <<env, earlier>>

RoundDone == stage = "parsing" /\ origins = {}

(* The first half of _process_donation_states: who takes part in a round.  *)
Open(r, txes) ==
  /\ rd' = r /\ todo' = txes /\ stage' = "basic"
  /\ available_slot_amount' = [available_slot_amount EXCEPT ![r] = Available(r)]
  /\ UNCHANGED <<env, origins, donor_addresses, reserve_txes, signalling_txes, choice, earlier>>

OpenRound == RoundDone /\ rd < 7 /\ rd + 1 \notin PriorityRounds /\ Open(rd + 1, Signals(rd + 1))
PriorityRound == RoundDone /\ rd + 1 \in PriorityRounds /\ Open(rd + 1, BaseTxes(rd + 1))

(* The next candidate.  What becomes of it: it is valid or not, its        *)
(* address is used up or not (add_donor_address), and its successor is     *)
(* chosen no more or it stays.                                             *)
Examine(c) ==
  /\ \A d \in todo \ {c} : Before(c, d)
  /\ todo' = todo \ {c}
  /\ UNCHANGED <<env, stage, rd, available_slot_amount, reserve_txes, signalling_txes,
                 donor_address, locking_txes, donation_txes, dstates, earlier>>

Accept(c) == origins' = origins \cup {c} /\ UNCHANGED selected_successors
Ignore == UNCHANGED <<origins, selected_successors>>
Refuse(c) ==
  selected_successors' = Deleted(selected_successors, Successor(c.tx)) /\ UNCHANGED origins
Add(c) == donor_addresses' = donor_addresses \cup {<<Claimant(c.tx), Phase(rd)>>}

(* _validate_basic.  Transactions that reserve nothing are passed over.    *)
Unreserved(c) == IsReserve(c.tx) /\ chain[c.tx].reserved = 0
Barred(c) == Claimant(c.tx) = Proposer \/ Used(c.tx)

Basic(c) ==
  /\ stage = "basic" /\ Examine(c)
  /\ \/ Unreserved(c) /\ Ignore /\ UNCHANGED donor_addresses
     \/ ~Unreserved(c) /\ Barred(c) /\ Refuse(c) /\ UNCHANGED donor_addresses
     \/ ~Unreserved(c) /\ ~Barred(c) /\ Accept(c) /\ Add(c)

(* _validate_priority.  A parent without the required transaction raises   *)
(* an AttributeError that leaves the successor alone.  The addresses of    *)
(* reserve transactions have been looked at before.                        *)
Orphan(c) == ParentOf(c.tx, rd) = {} \/ (~IsReserve(c.tx) /\ Used(c.tx))
HasPriority(c) == \A k \in ParentOf(c.tx, rd) : Filled(k, rd)
Unpaid(c) == \A k \in ParentOf(c.tx, rd) : Paid(k, rd) = None

Priority(c) ==
  /\ stage \in {"reserves", "signals"} /\ Examine(c)
  /\ IF Orphan(c) \/ IsReserve(c.tx) THEN UNCHANGED donor_addresses ELSE Add(c)
  /\ \/ Orphan(c) /\ Refuse(c)
     \/ ~Orphan(c) /\ HasPriority(c) /\ Accept(c)
     \/ ~Orphan(c) /\ Unpaid(c) /\ Ignore
     \/ ~Orphan(c) /\ ~HasPriority(c) /\ ~Unpaid(c) /\ Refuse(c)

(* The end of a validation: the next one, or the donations.                *)
Listed ==
  /\ stage \in Validating /\ todo = {}
  /\ UNCHANGED <<env, rd, donor_addresses, available_slot_amount, donor_address,
                 locking_txes, donation_txes, dstates, earlier>>

Signalled ==
  signalling_txes' = [signalling_txes EXCEPT ![rd] = Ids({o \in origins : ~IsReserve(o.tx)})]

ListSignals ==
  /\ Listed /\ (stage = "signals" \/ rd \notin PriorityRounds)
  /\ Signalled /\ stage' = "parsing"
  /\ UNCHANGED <<todo, origins, reserve_txes, selected_successors>>

ListBasic ==
  /\ Listed /\ stage = "basic" /\ rd \in PriorityRounds
  /\ stage' = "reserves" /\ todo' = origins /\ origins' = {}
  /\ UNCHANGED <<reserve_txes, signalling_txes, selected_successors>>

(* If more is reserved than available, no signalling transaction is valid. *)
ListReserves ==
  /\ Listed /\ stage = "reserves"
  /\ reserve_txes' = [reserve_txes EXCEPT ![rd] = Ids(origins)]
  /\ IF Reserved(Ids(origins)) > available_slot_amount[rd]
     THEN /\ stage' = "parsing" /\ todo' = {}
          /\ selected_successors' = Deleted(selected_successors,
                                            UNION {Direct(n) : n \in Sorted("signalling", rd)})
     ELSE /\ stage' = "signals" /\ todo' = Signals(rd)
          /\ UNCHANGED selected_successors
  /\ UNCHANGED <<origins, signalling_txes>>

(* The second half, transaction by transaction: its slot, its successors   *)
(* and its DonationState.                                                  *)
Turn == stage = "parsing" /\ origins # {}
origin == CHOOSE o \in origins : o.tx = Earliest(Ids(origins))

Continue == origins' = origins \ {origin} /\ UNCHANGED <<env, stage, rd, todo, setup, earlier>>

(* A slot of 0 gives no state. *)
NoSlot ==
  /\ Turn /\ Slot(origin.tx) = 0
  /\ selected_successors' = Deleted(selected_successors, Direct(origin.tx))
  /\ UNCHANGED <<donor_address, locking_txes, donation_txes, dstates>>
  /\ Continue

(* _get_ttx_successor for a locking transaction, None if there is none.    *)
(* get_indirect_successors is asked when there is no direct one, for the   *)
(* transactions of the same round that are signed by the donor.  The       *)
(* successor of a copy is a copy.                                          *)
LockingTx ==
  LET direct == Successor(origin.tx)
      signed == {m \in Sorted("locking", rd) \ selected_successors :
                   chain[m].sender = Claimant(origin.tx)}
  IN  IF direct # {} THEN Object(Earliest(direct), origin.copy) ELSE Object(Earliest(signed), FALSE)

(* _get_ttx_successor for a donation, after transaction o.  Asking for the *)
(* donor_address of a donation for which none is set raises an             *)
(* AttributeError.                                                         *)
Raises(o, direct, txes) ==
  direct = {} /\ \E m \in txes : Object(m, FALSE) \notin DOMAIN donor_address

DonationTx(o, address, direct, txes, selected) ==
  IF direct # {} THEN Object(Earliest(direct), o.copy)
  ELSE Object(Earliest({m \in txes \ selected : donor_address[Object(m, FALSE)] = address}), FALSE)

(* donor_address of a transaction object. *)
DonorOf(o) ==
  CASE chain[o.tx].kind = "signalling" -> chain[o.tx].address
    [] chain[o.tx].kind = "locking"    -> chain[o.tx].sender
    [] chain[o.tx].kind = "donation"   -> donor_address[o]

Smaller(a, b) == IF a < b THEN a ELSE b
Processed(r) == Second(r) < place

(* DonationState.set_effective_slot *)
NewState(slot, locking, donation) ==
  LET locks == locking # None /\ chain[locking].timely
      locked == IF rd < 4 /\ locks THEN Smaller(slot, chain[locking].amount) ELSE 0
  IN  [donor_address |-> Claimant(origin.tx), slot |-> slot,
       locking_tx |-> locking, donation_tx |-> donation,
       effective_locking_slot |-> locked,
       effective_slot |-> IF donation = None THEN 0
                          ELSE Smaller(IF rd < 4 THEN locked ELSE slot, chain[donation].amount),
       state |-> IF donation # None THEN "complete"
                 ELSE IF Processed(rd) /\ (rd >= 4 \/ locking = None \/ Processed(4))
                 THEN "abandoned" ELSE "incomplete"]

Record(locking, donation) ==
  dstates' = [k \in DOMAIN dstates \cup {<<rd, origin.tx>>} |->
                IF k = <<rd, origin.tx>> THEN NewState(Slot(origin.tx), locking, donation)
                ELSE dstates[k]]

(* What is appended, chosen and set for a donation, if there is one.       *)
Donate(o, donation, direct, selected) ==
  /\ selected_successors' = IF donation.tx # None /\ direct = {}
                            THEN selected \cup {donation.tx} ELSE selected
  /\ IF donation.tx = None THEN UNCHANGED <<donation_txes, donor_address>>
     ELSE /\ donation_txes' = [donation_txes EXCEPT ![rd] = Append(@, donation)]
          /\ donor_address' = [d \in DOMAIN donor_address \cup {donation} |->
                                 IF d = donation THEN DonorOf(o) ELSE donor_address[d]]

Copies(txes) == [r \in Rounds |-> [i \in DOMAIN txes[r] |-> Object(txes[r][i].tx, TRUE)]]

Selected(lock) ==
  selected_successors \cup (IF Successor(origin.tx) = {} THEN {lock.tx} \ {None} ELSE {})

(* Phase 1, without a locking transaction or with one unlocked too early:  *)
(* no donation is looked for.                                              *)
NotLocked ==
  /\ Turn /\ Slot(origin.tx) > 0 /\ rd < 4
  /\ LockingTx.tx # None => ~chain[LockingTx.tx].timely
  /\ selected_successors' = Selected(LockingTx)
  /\ Record(LockingTx.tx, None)
  /\ UNCHANGED <<donor_address, locking_txes, donation_txes>>
  /\ Continue

IsLocked ==
  Turn /\ Slot(origin.tx) > 0 /\ rd < 4 /\ LockingTx.tx # None /\ chain[LockingTx.tx].timely

Lock ==
  /\ IsLocked
  /\ LET lock == LockingTx
         direct == Direct(lock.tx)
         txes == Sorted("donation", 0)
         donation == DonationTx(lock, chain[lock.tx].address, direct, txes, Selected(lock))
     IN  /\ ~Raises(lock, direct, txes)
         /\ locking_txes' = [Copies(locking_txes) EXCEPT ![rd] = Append(@, lock)]
         /\ Donate(lock, donation, direct, Selected(lock))
         /\ Record(lock.tx, donation.tx)
  /\ Continue

(* Phase 2. *)
IsDonating == Turn /\ Slot(origin.tx) > 0 /\ rd >= 4

Give ==
  /\ IsDonating
  /\ LET o == Object(origin.tx, origin.copy)
         direct == Successor(origin.tx)
         txes == Sorted("donation", rd)
         donation == DonationTx(o, Claimant(origin.tx), direct, txes, selected_successors)
     IN  /\ ~Raises(o, direct, txes)
         /\ Donate(o, donation, direct, selected_successors)
         /\ Record(None, donation.tx)
  /\ UNCHANGED locking_txes
  /\ Continue

(* The AttributeError ends the parse; custom_parser takes it for a deck    *)
(* without a parser (IssueModes).                                          *)
Raise ==
  /\ \/ IsLocked /\ Raises(LockingTx, Direct(LockingTx.tx), Sorted("donation", 0))
     \/ IsDonating /\ Raises(origin, Successor(origin.tx), Sorted("donation", rd))
  /\ stage' = "raised"
  /\ earlier' = [place |-> 0, dstates |-> <<>>]
  /\ UNCHANGED <<env, rd, todo, origins, setup, choice>>

End ==
  /\ RoundDone /\ rd = 7
  /\ stage' = "parsed"
  /\ earlier' = [place |-> place, dstates |-> dstates]
  /\ UNCHANGED <<env, rd, todo, origins, setup, choice>>

Validate == \/ \E c \in todo : Basic(c) \/ Priority(c)
            \/ ListSignals \/ ListBasic \/ ListReserves

Parse == \/ Begin \/ OpenRound \/ PriorityRound \/ Validate
         \/ NoSlot \/ NotLocked \/ Lock \/ Give \/ Raise \/ End
Next == Mine \/ Pass \/ Parse

Spec == Init /\ [][Next]_vars

-----------------------------------------------------------------------------
(* Properties.                                                             *)

Objects == [tx : DOMAIN chain, copy : BOOLEAN]
Candidates == [tx : DOMAIN chain, copy : BOOLEAN, list : Rounds, index : Nat]

DonationState ==
  [donor_address : Addr, slot : Nat \ {0}, locking_tx : {None} \cup DOMAIN chain,
   donation_tx : {None} \cup DOMAIN chain, effective_locking_slot : Nat, effective_slot : Nat,
   state : {"incomplete", "complete", "abandoned"}]

(* What set_donation_states leaves in a ProposalState has its type: slots  *)
(* and available amounts are never negative.                               *)
TypeOK ==
  /\ chain \in Seq(Tx) /\ place \in 0 .. 17
  /\ \A n \in DOMAIN chain : chain[n].spends.tx < n /\ chain[n].place <= place
  /\ stage \in Stages /\ rd \in -1 .. 7 /\ (stage \in Validating => rd # -1)
  /\ todo \subseteq Candidates /\ origins \subseteq Candidates
  /\ donor_addresses \subseteq Addr \X {0, 1} /\ selected_successors \subseteq DOMAIN chain
  /\ DOMAIN donor_address \subseteq Objects /\ \A d \in DOMAIN donor_address : donor_address[d] \in Addr
  /\ available_slot_amount \in [Rounds -> Nat]
  /\ reserve_txes \in [Rounds -> SUBSET DOMAIN chain] /\ signalling_txes \in [Rounds -> SUBSET DOMAIN chain]
  /\ locking_txes \in [Rounds -> Seq(Objects)] /\ donation_txes \in [Rounds -> Seq(Objects)]
  /\ DOMAIN dstates \subseteq Rounds \X DOMAIN chain
  /\ \A k \in DOMAIN dstates : dstates[k] \in DonationState

(* However the rounds divide it, and whatever is reserved or donated late: *)
(* all donations together are rewarded for no more than the requested      *)
(* amount.                                                                 *)
WithinRequest ==
  /\ Sum(DOMAIN dstates, [k \in DOMAIN dstates |-> dstates[k].effective_slot]) <= ReqAmount
  /\ Sum(DOMAIN dstates, [k \in DOMAIN dstates |-> dstates[k].effective_locking_slot]) <= ReqAmount

(* A donor address has one DonationState in each phase, with signalling    *)
(* and reserve transactions together (check_donor_address).                *)
OneStatePerDonor ==
  \A j, k \in DOMAIN dstates :
    /\ Phase(j[1]) = Phase(k[1])
    /\ dstates[j].donor_address = dstates[k].donor_address
    => j = k

(* In a priority round a signalling transaction only gets a slot if all    *)
(* reserve transactions get what they reserve, but for one unit that the   *)
(* division may lose.                                                      *)
ReserveFirst ==
  stage = "parsed" =>
    \A k \in DOMAIN dstates : chain[k[2]].kind = "signalling" =>
      \A n \in reserve_txes[k[1]] :
        \/ chain[n].reserved = 1
        \/ <<k[1], n>> \in DOMAIN dstates /\ dstates[<<k[1], n>>].slot >= chain[n].reserved - 1

(* A donor can rely on its slot.  A later parse, with more of the chain,   *)
(* gives the states of a round whose signalling period had passed the same *)
(* slots, adds none and drops none, and those that were complete or        *)
(* abandoned stay so.                                                      *)
Over(k) == Signalling(k[1]) < earlier.place
SlotsKept ==
  [][End => /\ \A k \in DOMAIN earlier.dstates : Over(k) =>
                  /\ k \in DOMAIN dstates /\ dstates[k].slot = earlier.dstates[k].slot
                  /\ \/ earlier.dstates[k].state = "incomplete"
                     \/ dstates[k].state = earlier.dstates[k].state
            /\ \A k \in DOMAIN dstates :
                  Over(k) /\ earlier.dstates # <<>> => k \in DOMAIN earlier.dstates]_vars

-----------------------------------------------------------------------------
(* What the code does not keep.                                            *)

(* Every chain of transactions can be parsed.  A lock that is not released *)
(* beside one that is makes the parser ask for a donor_address that was    *)
(* never set.                                                              *)
NeverRaised == stage # "raised"

(* A donation is the donation of one donor.                                *)
DonationsUsedOnce ==
  \A j, k \in DOMAIN dstates : dstates[j].donation_tx = dstates[k].donation_tx
                              /\ dstates[j].donation_tx # None => j = k

(* A donation that is rewarded was paid to the proposer.                   *)
PaidToProposer ==
  \A k \in DOMAIN dstates : dstates[k].donation_tx # None
                           => chain[dstates[k].donation_tx].address = Proposer

(* Proposers cannot be donors.                                             *)
ProposersDoNotDonate == \A k \in DOMAIN dstates : dstates[k].donor_address # Proposer

(* Priority in rounds 1 and 2 is earned with a lock that holds until the   *)
(* release period.                                                         *)
PriorityEarned ==
  stage = "parsed" =>
    \A k \in DOMAIN dstates : k[1] \in {1, 2} =>
      \E j \in OfRound(k[1] - 1) : /\ dstates[j].locking_tx # None
                                  /\ chain[dstates[j].locking_tx].timely
=============================================================================
