----------------------------- MODULE DeckState ------------------------------
(***************************************************************************)
(* The token ledger of one deck: class DeckState of protocol.py.           *)
(*                                                                         *)
(* calc_state walks over the deck's cards in chain order and computes      *)
(* balances, supply, the set of valid cards and the time locks that cards  *)
(* put on the tokens they transfer.  The list of cards is the input: it is *)
(* revealed one card at a time, in the order _sort_cards gives it, so that *)
(* one behaviour of this specification is one run of calc_state over one   *)
(* list of cards.  The loop of _unlock_amount is one step per lock.        *)
(*                                                                         *)
(* Abstractions.  A lock's hash is the address it encodes, and the lock    *)
(* list of a holder is the set of its locks, stamped with the number of    *)
(* the card that made them (list order is stamp order).                    *)
(***************************************************************************)
EXTENDS Integers, FiniteSets, Sums

CONSTANTS
  Addr,           \* addresses
  Issuer,         \* deck.issuer
  CustomDeck,     \* an AT or DT deck, where any sender can issue
  Amounts,        \* amounts a card can carry
  LockTimes,      \* lock times a card can carry
  HashTypes,      \* lock types a card can carry
  MaxBlock,       \* bound: last block of the chain
  MaxCards,       \* bound: number of cards of the deck
  Rereads,        \* whether the card list can hold a card twice
  CleanupHeight   \* the argument cleanup_height, 0 if it is None

NoAddress == "no address"

ASSUME IssuerAssumption == Issuer \in Addr /\ NoAddress \notin Addr
ASSUME DeckAssumption == CustomDeck \in BOOLEAN /\ Rereads \in BOOLEAN
ASSUME AmountsAssumption == Amounts \subseteq Nat
ASSUME LocksAssumption == LockTimes \subseteq Nat \ {0} /\ HashTypes \subseteq Nat
ASSUME BoundsAssumption ==
  MaxBlock \in Nat /\ MaxCards \in Nat /\ CleanupHeight \in Nat

VARIABLES
  balances,            \* address -> balance, for the addresses ever credited
  total, burned,       \* supply and burned amount
  processed_issues, processed_transfers, processed_burns,   \* cids per type
  valid_cards,         \* cids of the valid cards
  locks,               \* stamp -> lock
  cards,               \* number of cards read so far (the next cid minus one)
  height,              \* block of the last card read
  again,               \* the card the list holds a second time, if any
  unlocking,           \* the transfer whose amount _unlock_amount spreads
  pc,                  \* where calc_state is
  flow,                \* history: what each address has got and given by first readings
  burnt                \* history: what first readings of burns have burned

vars == <<balances, total, burned, processed_issues, processed_transfers,
          processed_burns, valid_cards, locks, cards, height, again,
          unlocking, pc, flow, burnt>>
supply == <<total, burned, burnt>>
processed == <<processed_issues, processed_transfers, processed_burns>>

-----------------------------------------------------------------------------
(* Cards and locks *)

(* The lock fields of a card: __init__ keeps lockhash and lockhash_type    *)
(* only if both and the lock time are set, so type 0 is None.              *)
NoLock == [locktime |-> 0, lockhash_type |-> 0, lockhash |-> NoAddress]

LockFields ==
  {NoLock} \cup
  {[locktime |-> t, lockhash_type |-> h, lockhash |-> a] :
     t \in LockTimes, h \in HashTypes \ {0}, a \in Addr} \cup
  {[NoLock EXCEPT !.locktime = t] : t \in LockTimes}

(* What is left to unlock when no transfer is being unlocked. *)
NoUnlocking == [sender |-> Issuer, receiver |-> Issuer, rest |-> 0]

(* The types with which a card from s to r reaches DeckState: an issuer's  *)
(* card to itself is refused when the card is made, and a custom deck's    *)
(* issuer has its non-issue cards dropped by the custom parser.            *)
CardTypes(s, r) ==
  (IF CustomDeck \/ (s = Issuer /\ r # Issuer) THEN {"CardIssue"} ELSE {})
  \cup (IF s = Issuer THEN {}
        ELSE IF r = Issuer THEN {"CardBurn"} ELSE {"CardTransfer"})

Card ==
  {c \in [type : {"CardIssue", "CardTransfer", "CardBurn"}, cid : Nat \ {0},
          sender : Addr, receiver : Addr, amount : Amounts,
          blocknum : Nat, lock : LockFields] :
     c.type \in CardTypes(c.sender, c.receiver)}

(* range(1, 6): the types _check_locks takes for address locks. *)
AddressLock(l) == l.lockhash_type \in 1 .. 5

(* calc_lock_address raises NotImplementedError. *)
Unsupported(l) == l.lockhash_type \in {4, 5}

(* calc_lock_address: type 1 yields a value that is no address. *)
LockAddress(l) == IF l.lockhash_type \in {2, 3} THEN l.lockhash ELSE NoAddress

Lock(c) ==
  [holder |-> c.receiver, amount |-> c.amount, locktime |-> c.lock.locktime,
   lockhash_type |-> c.lock.lockhash_type, lockhash |-> c.lock.lockhash]

Locks == [holder : Addr, amount : Nat, locktime : Nat \ {0},
          lockhash_type : Nat, lockhash : Addr \cup {NoAddress}]

LockAmounts(L) == [n \in DOMAIN L |-> L[n].amount]

-----------------------------------------------------------------------------
(* Balances *)

Balance(b, a) == IF a \in DOMAIN b THEN b[a] ELSE 0

(* Mutant: the balance of a known receiver is overwritten. *)
Bug_Credit(b, a, v) ==
  [x \in DOMAIN b \cup {a} |-> IF x = a THEN v ELSE b[x]]

(* _append_balance *)
Credit(b, a, v) ==
  [x \in DOMAIN b \cup {a} |-> IF x = a THEN Balance(b, a) + v ELSE b[x]]

Debit(b, a, v) == [b EXCEPT ![a] = @ - v]

(* Mutant: a lock expires one block early. *)
Bug_Live(h) == [n \in {m \in DOMAIN locks : locks[m].locktime > h} |-> locks[n]]

(* _check_locks: the locks that are left when those that expired before    *)
(* block h are removed, whoever holds them ...                             *)
Live(h) == [n \in {m \in DOMAIN locks : locks[m].locktime >= h} |-> locks[n]]

(* Mutants: only the locks to the receiver itself count; and simple time   *)
(* locks are forgotten.                                                    *)
Bug_Withholds(l, s, r) ==
  /\ l.holder = s
  /\ \/ l.lockhash_type = 0
     \/ AddressLock(l) /\ LockAddress(l) = r

Bug_Withholds2(l, s, r) ==
  l.holder = s /\ AddressLock(l) /\ LockAddress(l) # r

(* ... and the amount that locks withhold from a transfer from s to r. *)
Withholds(l, s, r) ==
  /\ l.holder = s
  /\ \/ l.lockhash_type = 0
     \/ AddressLock(l) /\ LockAddress(l) # r

(* A lock that such a transfer may reduce. *)
Matches(l, s, r) ==
  l.holder = s /\ AddressLock(l) /\ LockAddress(l) = r

Locked(L, s, r) == Sum({n \in DOMAIN L : Withholds(L[n], s, r)}, LockAmounts(L))

(* Mutant: it is enough that the sender is known. *)
Bug_Covered(c) == c.sender \in DOMAIN balances

CheckRaises(L, s) == \E n \in DOMAIN L : L[n].holder = s /\ Unsupported(L[n])

Covered(c) ==
  /\ c.sender \in DOMAIN balances
  /\ balances[c.sender] - Locked(Live(c.blocknum), c.sender, c.receiver) >= c.amount

-----------------------------------------------------------------------------
Init ==
  /\ balances = [a \in {} |-> 0]
  /\ locks = [n \in {} |-> NoLock]
  /\ total = 0 /\ burned = 0
  /\ processed_issues = {} /\ processed_transfers = {} /\ processed_burns = {}
  /\ valid_cards = {}
  /\ cards = 0 /\ height = 0
  /\ again = {} /\ unlocking = NoUnlocking
  /\ pc = "loop"
  /\ flow = [a \in Addr |-> 0] /\ burnt = 0

(* The card c is the next one of the sorted list: a new card no earlier    *)
(* than the last one, or the last one once more.                           *)
NextCard(c) ==
  /\ pc = "loop"
  /\ CleanupHeight # 0 => c.blocknum <= CleanupHeight
  /\ \/ c \in again /\ again' = {}
     \/ /\ again = {} /\ c.cid = cards + 1 /\ c.blocknum >= height
        /\ again' \in IF Rereads THEN {{}, {c}} ELSE {{}}
  /\ cards' = c.cid
  /\ height' = c.blocknum

(* History: the card counts with its first reading only. *)
First(c) == c.cid > cards
Flow(c) ==
  IF First(c)
    THEN [a \in Addr |-> flow[a]
            + (IF c.type # "CardBurn" /\ a = c.receiver THEN c.amount ELSE 0)
            - (IF c.type # "CardIssue" /\ a = c.sender THEN c.amount ELSE 0)]
    ELSE flow

(* Mutant: burns are looked up among the transfers. *)
Bug_Processed(c) ==
  IF c.type = "CardIssue" THEN processed_issues ELSE processed_transfers

(* The cids that calc_state has processed as cards of c's type. *)
Processed(c) ==
  IF c.type = "CardIssue" THEN processed_issues
  ELSE IF c.type = "CardTransfer" THEN processed_transfers ELSE processed_burns

(* A card whose cid has been processed as a card of its type is skipped. *)
Skip(c) ==
  /\ NextCard(c)
  /\ c.cid \in Processed(c)
  /\ UNCHANGED <<balances, flow, locks, valid_cards, supply, processed, unlocking, pc>>

Issue(c) ==
  /\ NextCard(c)
  /\ c.type = "CardIssue" /\ c.cid \notin Processed(c)
  /\ balances' = Credit(balances, c.receiver, c.amount)
  /\ total' = total + c.amount
  /\ flow' = Flow(c)
  /\ processed_issues' = processed_issues \cup {c.cid}
  /\ valid_cards' = valid_cards \cup {c.cid}
  /\ UNCHANGED <<burned, burnt, processed_transfers, processed_burns, locks, unlocking, pc>>

(* A transfer the free balance covers: the lock the card carries is added  *)
(* to the receiver before the sender's locks are reduced.                  *)
Transfer(c) ==
  /\ NextCard(c)
  /\ c.type = "CardTransfer" /\ c.cid \notin Processed(c)
  /\ ~CheckRaises(Live(c.blocknum), c.sender)
  /\ Covered(c)
  /\ balances' = Credit(Debit(balances, c.sender, c.amount), c.receiver, c.amount)
  /\ flow' = Flow(c)
  /\ LET live == Live(c.blocknum)
     IN  locks' = IF c.lock.locktime = 0 THEN live
                  ELSE [n \in DOMAIN live \cup {c.cid} |->
                          IF n = c.cid THEN Lock(c) ELSE live[n]]
  /\ IF \E n \in DOMAIN locks' : locks'[n].holder = c.sender
       THEN /\ pc' = "unlock"
            /\ unlocking' = [sender |-> c.sender, receiver |-> c.receiver,
                             rest |-> c.amount]
       ELSE UNCHANGED <<pc, unlocking>>
  /\ processed_transfers' = processed_transfers \cup {c.cid}
  /\ valid_cards' = valid_cards \cup {c.cid}
  /\ UNCHANGED <<supply, processed_issues, processed_burns>>

Burn(c) ==
  /\ NextCard(c)
  /\ c.type = "CardBurn" /\ c.cid \notin Processed(c)
  /\ ~CheckRaises(Live(c.blocknum), c.sender)
  /\ Covered(c)
  /\ balances' = Debit(balances, c.sender, c.amount)
  /\ flow' = Flow(c) /\ burnt' = (IF First(c) THEN burnt + c.amount ELSE burnt)
  /\ locks' = Live(c.blocknum)
  /\ total' = total - c.amount
  /\ burned' = burned + c.amount
  /\ processed_burns' = processed_burns \cup {c.cid}
  /\ valid_cards' = valid_cards \cup {c.cid}
  /\ UNCHANGED <<processed_issues, processed_transfers, unlocking, pc>>

(* An uncovered transfer or burn is dropped; expired locks go all the same. *)
Reject(c) ==
  /\ NextCard(c) /\ c.cid \notin Processed(c)
  /\ ~CheckRaises(Live(c.blocknum), c.sender)
  /\ ~Covered(c)
  /\ \/ /\ c.type = "CardTransfer"
        /\ processed_transfers' = processed_transfers \cup {c.cid}
        /\ UNCHANGED processed_burns
     \/ /\ c.type = "CardBurn"
        /\ processed_burns' = processed_burns \cup {c.cid}
        /\ UNCHANGED processed_transfers
  /\ locks' = Live(c.blocknum)
  /\ UNCHANGED <<balances, flow, valid_cards, supply, processed_issues, unlocking, pc>>

(* The sender holds an unexpired lock of a type hash_to_address does not   *)
(* implement: the exception leaves __init__, and there is no DeckState.    *)
Raise(c) ==
  /\ NextCard(c) /\ c.cid \notin Processed(c) /\ c.type # "CardIssue"
  /\ CheckRaises(Live(c.blocknum), c.sender)
  /\ pc' = "raised"
  /\ UNCHANGED <<balances, flow, locks, valid_cards, supply, processed, unlocking>>

-----------------------------------------------------------------------------
(* _unlock_amount: the locks of the sender, earliest lock time first and   *)
(* the youngest first among equals.                                        *)

(* The locks on which the loop does something. *)
Stops ==
  {n \in DOMAIN locks :
     \/ Matches(locks[n], unlocking.sender, unlocking.receiver)
     \/ locks[n].holder = unlocking.sender /\ Unsupported(locks[n])}

Before(m, n) ==
  \/ locks[m].locktime < locks[n].locktime
  \/ locks[m].locktime = locks[n].locktime /\ m > n

IsFirst(n) == n \in Stops /\ \A m \in Stops : m = n \/ Before(n, m)

Without(n) == [m \in DOMAIN locks \ {n} |-> locks[m]]

UnlockRaises ==
  /\ pc = "unlock"
  /\ \E n \in DOMAIN locks : IsFirst(n) /\ Unsupported(locks[n])
  /\ pc' = "raised"
  /\ UNCHANGED <<balances, flow, locks, valid_cards, supply, processed, cards, height,
                 again, unlocking>>

(* The amount is more than this lock: delete it and go on with the rest. *)
UnlockWhole ==
  /\ pc = "unlock"
  /\ \E n \in DOMAIN locks :
       /\ IsFirst(n) /\ ~Unsupported(locks[n])
       /\ unlocking.rest > locks[n].amount
       /\ locks' = Without(n)
       /\ unlocking' = [unlocking EXCEPT !.rest = @ - locks[n].amount]
  /\ UNCHANGED <<balances, flow, valid_cards, supply, processed, cards, height, again, pc>>

(* The amount ends in this lock: lower it, or delete it if nothing is left. *)
UnlockPart ==
  /\ pc = "unlock"
  /\ \E n \in DOMAIN locks :
       /\ IsFirst(n) /\ ~Unsupported(locks[n])
       /\ unlocking.rest <= locks[n].amount
       /\ locks' = IF locks[n].amount > unlocking.rest
                   THEN [locks EXCEPT ![n].amount = @ - unlocking.rest]
                   ELSE Without(n)
  /\ pc' = "loop" /\ unlocking' = NoUnlocking
  /\ UNCHANGED <<balances, flow, valid_cards, supply, processed, cards, height, again>>

UnlockEnd ==
  /\ pc = "unlock" /\ Stops = {}
  /\ pc' = "loop" /\ unlocking' = NoUnlocking
  /\ UNCHANGED <<balances, flow, locks, valid_cards, supply, processed, cards, height, again>>

(* The list ends, or a card is above the cleanup height: _cleanup_locks. *)
Finish ==
  /\ pc = "loop" /\ again = {}
  /\ locks' = IF CleanupHeight = 0 THEN locks ELSE Live(CleanupHeight)
  /\ pc' = "done"
  /\ UNCHANGED <<balances, flow, valid_cards, supply, processed, cards, height, again,
                 unlocking>>

Step(c) ==
  Skip(c) \/ Issue(c) \/ Transfer(c) \/ Burn(c) \/ Reject(c) \/ Raise(c)

Reread == \E c \in again : Step(c)

(* Any card that can stand at this place of the list; the lock fields only *)
(* matter on a transfer.                                                   *)
ReadNew ==
  /\ pc = "loop" /\ again = {} /\ cards < MaxCards
  /\ \E s \in Addr, r \in Addr, v \in Amounts, b \in 1 .. MaxBlock :
       \E t \in CardTypes(s, r) :
         \E l \in IF t = "CardTransfer" THEN LockFields ELSE {NoLock} :
           Step([type |-> t, cid |-> cards + 1, sender |-> s, receiver |-> r,
                 amount |-> v, blocknum |-> b, lock |-> l])

Unlock == UnlockRaises \/ UnlockWhole \/ UnlockPart \/ UnlockEnd

Next == Reread \/ ReadNew \/ Unlock \/ Finish

Spec == Init /\ [][Next]_vars

-----------------------------------------------------------------------------
(* Properties *)

(* Type invariant; the numbers are natural, so no balance, lock or supply  *)
(* ever goes below zero.                                                   *)
TypeOK ==
  /\ DOMAIN balances \subseteq Addr /\ IsFiniteSet(DOMAIN balances)
  /\ balances \in [DOMAIN balances -> Nat]
  /\ DOMAIN locks \subseteq processed_transfers /\ locks \in [DOMAIN locks -> Locks]
  /\ total \in Int /\ burned \in Nat /\ burnt \in Nat /\ flow \in [Addr -> Int]
  /\ cards \in Nat /\ height \in Nat
  /\ processed_issues \subseteq 1 .. cards
  /\ processed_transfers \subseteq 1 .. cards
  /\ processed_burns \subseteq 1 .. cards
  /\ valid_cards \subseteq 1 .. cards
  /\ again \subseteq Card
  /\ \A c \in again : c.cid = cards
  /\ unlocking \in [sender : Addr, receiver : Addr, rest : Nat]
  /\ pc \in {"loop", "unlock", "done", "raised"}

(* The supply is what the holders have: self.checksum is true after every  *)
(* card (protocol.py, __init__: total - sum(balances.values())).           *)
Conservation == total = Total(balances)

(* A card that the list holds twice counts once, whatever its type, and    *)
(* one that is dropped the first time is not taken the second time: each   *)
(* balance, and what is burned, is what the first readings of the cards    *)
(* have made (the processed_... sets of calc_state, one per type).         *)
CountedOnce ==
  /\ \A a \in Addr : Balance(balances, a) = flow[a]
  /\ burned = burnt

(* The locks of L on the tokens of a that no burn releases. *)
Withheld(L, a) ==
  {n \in DOMAIN L : /\ L[n].holder = a /\ L[n].lockhash_type \in 0 .. 5
                    /\ LockAddress(L[n]) # Issuer}

Backing(L, a) == Sum(Withheld(L, a), LockAmounts(L))

(* Locked tokens are there: between two cards no holder's locks exceed its *)
(* balance, so what a lock promises to its lock address can be delivered.  *)
(* It takes _check_locks, _add_lock and _unlock_amount together: a lock    *)
(* that is not reduced when its tokens leave, or that can be spent around, *)
(* breaks it.  Locks to the issuer are left out, see AllLocksBacked.       *)
LocksBacked ==
  pc \in {"loop", "done"} => \A a \in Addr : Backing(locks, a) <= Balance(balances, a)

(* What is left of the locks of s when those a payment to r may reduce are *)
(* set aside.                                                              *)
Others(L, s, r) == {n \in Withheld(L, s) : ~Matches(L[n], s, r)}

(* Inside _unlock_amount the tokens are gone and some of their locks still *)
(* there: the excess is at most what is left to unlock, and is due to      *)
(* locks that match the payment.                                           *)
UnlockBacked ==
  pc = "unlock" =>
    LET s == unlocking.sender
        r == unlocking.receiver
    IN  /\ r # Issuer
        /\ \A a \in Addr \ {s} : Backing(locks, a) <= Balance(balances, a)
        /\ Backing(locks, s) <= Balance(balances, s) + unlocking.rest
        /\ Sum(Others(locks, s, r), LockAmounts(locks)) <= Balance(balances, s)

(* The same of all locks, the ones whose lock address is the issuer        *)
(* included: a burn of such tokens leaves the lock behind.                 *)
AllLocksBacked ==
  pc \in {"loop", "done"} =>
    \A a \in Addr :
      Sum({n \in DOMAIN locks : /\ locks[n].holder = a
                                /\ locks[n].lockhash_type \in 0 .. 5},
          LockAmounts(locks)) <= Balance(balances, a)

(* Tokens under a lock of a type outside 1 to 5 stay until the lock time,  *)
(* as the comment of _unlock_amount says.                                  *)
OtherLocksBacked ==
  pc \in {"loop", "done"} =>
    \A a \in Addr :
      Sum({n \in DOMAIN locks : /\ locks[n].holder = a
                                /\ locks[n].lockhash_type \notin 1 .. 5},
          LockAmounts(locks)) <= Balance(balances, a)

(* A lock type that is "still not implemented" (hash_encoding.py:2) does   *)
(* not keep the deck from having a state.                                  *)
EveryDeckHasState == pc # "raised"

=============================================================================
