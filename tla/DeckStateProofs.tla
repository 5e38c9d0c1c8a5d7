-------------------------- MODULE DeckStateProofs ---------------------------
(***************************************************************************)
(* Proofs about DeckState for all values of its constants: the type        *)
(* invariant, conservation of the supply, that locked tokens are there,    *)
(* and that DeckState implements TokenLedger: every step of calc_state is  *)
(* a step of an account ledger with claims, or changes nothing such a      *)
(* ledger knows of.                                                        *)
(***************************************************************************)
EXTENDS DeckStateRefinement, CollectionsTheorems

(* Balances and lock tables of the right kind. *)
Balances(b) == IsFiniteSet(DOMAIN b) /\ DOMAIN b \subseteq Addr /\ b \in [DOMAIN b -> Nat]
LockTable(L) == IsFiniteSet(DOMAIN L) /\ L \in [DOMAIN L -> Locks]

-----------------------------------------------------------------------------
(* Cards and locks *)

LEMMA LockFieldsType ==
  ASSUME NEW f \in LockFields
  PROVE  /\ f.locktime \in Nat /\ f.lockhash_type \in Nat
         /\ f.lockhash \in Addr \cup {NoAddress}
BY LocksAssumption DEF LockFields, NoLock

LEMMA LockType ==
  ASSUME NEW c \in Card, c.lock.locktime # 0
  PROVE  Lock(c) \in Locks
<1>1. c.lock \in LockFields /\ c.receiver \in Addr /\ c.amount \in Nat
  BY AmountsAssumption DEF Card
<1> QED BY <1>1, LockFieldsType DEF Lock, Locks

LEMMA NewCards ==
  ASSUME NEW s \in Addr, NEW r \in Addr, NEW v \in Amounts, NEW b \in 1 .. MaxBlock,
         NEW t \in CardTypes(s, r), NEW i \in Nat \ {0},
         NEW l \in IF t = "CardTransfer" THEN LockFields ELSE {NoLock}
  PROVE  [type |-> t, cid |-> i, sender |-> s, receiver |-> r,
          amount |-> v, blocknum |-> b, lock |-> l] \in Card
<1>1. t \in {"CardIssue", "CardTransfer", "CardBurn"}
  BY DEF CardTypes
<1>2. l \in LockFields
  BY DEF LockFields
<1>3. b \in Nat
  BY BoundsAssumption
<1> QED BY <1>1, <1>2, <1>3 DEF Card

(* A burn goes to the issuer, a transfer does not. *)
LEMMA Receivers ==
  ASSUME NEW c \in Card
  PROVE  /\ c.type = "CardBurn" => c.receiver = Issuer
         /\ c.type = "CardTransfer" => c.receiver # Issuer
BY DEF Card, CardTypes

-----------------------------------------------------------------------------
(* Balances *)

LEMMA CreditType ==
  ASSUME NEW b, Balances(b), NEW a \in Addr, NEW v \in Nat
  PROVE  /\ Balances(Credit(b, a, v))
         /\ DOMAIN Credit(b, a, v) = DOMAIN b \cup {a}
         /\ Balance(Credit(b, a, v), a) = Balance(b, a) + v
         /\ \A x \in Addr \ {a} : Balance(Credit(b, a, v), x) = Balance(b, x)
<1>1. IsFiniteSet(DOMAIN b \cup {a})
  BY FS_AddElement DEF Balances
<1>2. Balance(b, a) \in Nat
  BY DEF Balances, Balance
<1> QED BY <1>1, <1>2 DEF Balances, Credit, Balance

LEMMA DebitType ==
  ASSUME NEW b, Balances(b), NEW a \in DOMAIN b, NEW v \in Nat, v <= b[a]
  PROVE  /\ Balances(Debit(b, a, v))
         /\ DOMAIN Debit(b, a, v) = DOMAIN b
         /\ Balance(Debit(b, a, v), a) = Balance(b, a) - v
         /\ \A x \in Addr \ {a} : Balance(Debit(b, a, v), x) = Balance(b, x)
BY DEF Balances, Debit, Balance

LEMMA CreditTotal ==
  ASSUME NEW b, Balances(b), NEW a \in Addr, NEW v \in Nat
  PROVE  Total(Credit(b, a, v)) = Total(b) + v
<1> DEFINE c == Credit(b, a, v)
           D == DOMAIN b \ {a}
<1>1. Numbers(DOMAIN b, b) /\ Numbers(D, b)
  BY FS_RemoveElement DEF Numbers, Balances
<1>2. /\ Balances(c) /\ DOMAIN c = D \cup {a}
      /\ c[a] = Balance(b, a) + v /\ c[a] \in Nat
      /\ \A x \in D : c[x] = b[x]
  <2>1. Balances(c) /\ DOMAIN c = DOMAIN b \cup {a}
    BY CreditType
  <2>2. c[a] = Balance(b, a) + v /\ \A x \in D : c[x] = b[x]
    BY DEF Credit
  <2>3. c[a] \in Nat
    BY <2>1 DEF Balances
  <2> QED BY <2>1, <2>2, <2>3
<1>3. Sum(D, c) = Sum(D, b) /\ Sum(D, b) \in Nat
  BY <1>1, <1>2, SumAgree, SumType
<1>4. Numbers(D, c)
  BY <1>1, <1>2 DEF Numbers
<1>5. Total(c) = Sum(D, c) + c[a]
  <2> HIDE DEF c
  <2> QED BY <1>2, <1>4, SumAdd DEF Total
<1>6. Total(b) = Sum(D, b) + Balance(b, a) /\ Balance(b, a) \in Nat
  <2>1. CASE a \in DOMAIN b
    BY <2>1, <1>1, SumRemove DEF Total, Balance, Balances
  <2>2. CASE a \notin DOMAIN b
    <3>1. D = DOMAIN b
      BY <2>2
    <3> QED BY <2>2, <3>1, <1>3 DEF Total, Balance
  <2> QED BY <2>1, <2>2
<1> HIDE DEF c, D
<1>7. Total(c) = Sum(D, b) + (Balance(b, a) + v)
  BY <1>5, <1>3, <1>2
<1> QED BY <1>3, <1>6, <1>7 DEF c

LEMMA DebitTotal ==
  ASSUME NEW b, Balances(b), NEW a \in DOMAIN b, NEW v \in Nat, v <= b[a]
  PROVE  Total(Debit(b, a, v)) = Total(b) - v
<1> DEFINE c == Debit(b, a, v)
           D == DOMAIN b \ {a}
<1>1. Balances(c) /\ DOMAIN c = DOMAIN b /\ c[a] = b[a] - v
      /\ \A x \in D : c[x] = b[x]
  BY DebitType DEF Debit, Balances
<1>2. Numbers(DOMAIN b, b) /\ Numbers(DOMAIN b, c)
  BY <1>1 DEF Numbers, Balances
<1>3. Numbers(D, b)
  BY <1>2, FS_RemoveElement DEF Numbers
<1>4. Sum(D, c) = Sum(D, b) /\ Sum(D, b) \in Nat
  BY <1>1, <1>3, SumAgree, SumType
<1>5. Total(b) = Sum(D, b) + b[a]
  BY <1>2, SumRemove DEF Total
<1> HIDE DEF c
<1>6. Total(c) = Sum(D, c) + c[a]
  BY <1>1, <1>2, SumRemove DEF Total
<1>7. b[a] \in Nat
  BY DEF Balances
<1> HIDE DEF D
<1>8. Total(c) = Sum(D, b) + (b[a] - v)
  BY <1>6, <1>4, <1>1
<1> QED BY <1>4, <1>5, <1>7, <1>8 DEF c

-----------------------------------------------------------------------------
(* Lock tables *)

LEMMA AmountsOfLocks ==
  ASSUME NEW L, LockTable(L), NEW S \in SUBSET DOMAIN L
  PROVE  Numbers(S, LockAmounts(L)) /\ Sum(S, LockAmounts(L)) \in Nat
<1>1. IsFiniteSet(S)
  BY FS_Subset DEF LockTable
<1>2. \A n \in S : LockAmounts(L)[n] \in Nat
  BY DEF LockTable, LockAmounts, Locks
<1>3. Numbers(S, LockAmounts(L))
  BY <1>1, <1>2 DEF Numbers
<1> QED BY <1>3, SumType

(* Dropping locks lowers every sum over them. *)
LEMMA KeptLocks ==
  ASSUME NEW L, LockTable(L), NEW D \in SUBSET DOMAIN L,
         NEW S \in SUBSET DOMAIN L, NEW T \in SUBSET (S \cap D)
  PROVE  LET K == [n \in D |-> L[n]]
         IN  LockTable(K) /\ Sum(T, LockAmounts(K)) <= Sum(S, LockAmounts(L))
<1> DEFINE K == [n \in D |-> L[n]]
<1>1. LockTable(K)
  BY FS_Subset DEF LockTable
<1>2. \A n \in T : LockAmounts(K)[n] = LockAmounts(L)[n]
  BY DEF LockAmounts
<1>3. Sum(T, LockAmounts(K)) = Sum(T, LockAmounts(L))
  BY <1>2, SumAgree
<1>4. Sum(T, LockAmounts(L)) <= Sum(S, LockAmounts(L))
  BY AmountsOfLocks, SumSubset
<1> QED BY <1>1, <1>3, <1>4

(* A new lock adds at most its amount to a sum, and nothing to a sum that  *)
(* leaves it out.                                                          *)
LEMMA AddedLock ==
  ASSUME NEW L, LockTable(L), NEW k, k \notin DOMAIN L, NEW l \in Locks,
         NEW S \in SUBSET DOMAIN L, NEW T \in SUBSET (S \cup {k})
  PROVE  LET K == [n \in DOMAIN L \cup {k} |-> IF n = k THEN l ELSE L[n]]
         IN  /\ LockTable(K)
             /\ Sum(T, LockAmounts(K)) <= Sum(S, LockAmounts(L)) + l.amount
             /\ k \notin T =>
                  Sum(T, LockAmounts(K)) <= Sum(S, LockAmounts(L))
<1> DEFINE K == [n \in DOMAIN L \cup {k} |-> IF n = k THEN l ELSE L[n]]
           U == T \ {k}
<1>1. LockTable(K)
  BY FS_AddElement DEF LockTable
<1>2. U \in SUBSET S /\ U \in SUBSET DOMAIN L
  OBVIOUS
<1>3. Sum(U, LockAmounts(L)) <= Sum(S, LockAmounts(L))
  BY <1>2, AmountsOfLocks, SumSubset
<1>4. \A n \in U : LockAmounts(K)[n] = LockAmounts(L)[n]
  BY DEF LockAmounts
<1>5. Sum(U, LockAmounts(K)) = Sum(U, LockAmounts(L))
  BY <1>4, SumAgree
<1>6. LockAmounts(K)[k] = l.amount /\ l.amount \in Nat
  BY DEF LockAmounts, Locks
<1>7. /\ Numbers(T, LockAmounts(K))
      /\ Sum(S, LockAmounts(L)) \in Nat /\ Sum(U, LockAmounts(L)) \in Nat
  <2>1. T \in SUBSET DOMAIN K
    OBVIOUS
  <2> HIDE DEF K
  <2> QED BY <1>1, <1>2, <2>1, AmountsOfLocks
<1> HIDE DEF K
<1>8. CASE k \in T
  <2> HIDE DEF U
  <2>0. Sum(T, LockAmounts(K)) = Sum(T \ {k}, LockAmounts(K)) + LockAmounts(K)[k]
    BY <1>7, <1>8, SumRemove
  <2>1. Sum(T, LockAmounts(K)) = Sum(U, LockAmounts(K)) + l.amount
    BY <2>0, <1>6 DEF U
  <2>2. Sum(T, LockAmounts(K)) <= Sum(S, LockAmounts(L)) + l.amount
    BY <2>1, <1>3, <1>5, <1>6, <1>7
  <2> QED BY <2>2, <1>1, <1>8 DEF K
<1>9. CASE k \notin T
  <2>1. T = U
    BY <1>9
  <2> HIDE DEF U
  <2>2. Sum(T, LockAmounts(K)) <= Sum(S, LockAmounts(L))
    BY <2>1, <1>3, <1>5
  <2>3. Sum(T, LockAmounts(K)) <= Sum(S, LockAmounts(L)) + l.amount
    BY <2>1, <1>3, <1>5, <1>6, <1>7
  <2> QED BY <2>2, <2>3, <1>1 DEF K
<1> QED BY <1>8, <1>9

-----------------------------------------------------------------------------
(* The type invariant *)

LEMMA LiveType ==
  ASSUME LockTable(locks), NEW h \in Nat
  PROVE  /\ LockTable(Live(h)) /\ DOMAIN Live(h) \subseteq DOMAIN locks
         /\ \A n \in DOMAIN Live(h) : Live(h)[n] = locks[n]
BY FS_Subset DEF Live, LockTable

LEMMA LocksAreFinite ==
  ASSUME TypeOK
  PROVE  LockTable(locks) /\ Balances(balances)
<1>1. IsFiniteSet(1 .. cards)
  <2>1. 1 \in Int /\ cards \in Int
    BY DEF TypeOK
  <2> QED BY <2>1, FS_Interval
<1>2. DOMAIN locks \in SUBSET (1 .. cards)
  BY DEF TypeOK
<1>3. IsFiniteSet(DOMAIN locks)
  BY <1>1, <1>2, FS_Subset
<1> QED BY <1>3 DEF TypeOK, LockTable, Balances

(* What every read of a card does to the place in the list. *)
LEMMA NextCardType ==
  ASSUME TypeOK, NEW c \in Card, NextCard(c)
  PROVE  /\ pc = "loop" /\ cards' \in Nat /\ cards <= cards' /\ cards' = c.cid
         /\ c.cid \in 1 .. cards'
         /\ height' \in Nat
         /\ again' \subseteq Card /\ \A d \in again' : d.cid = cards'
BY DEF NextCard, TypeOK, Card

LEMMA InitType == Init => TypeOK
<1> SUFFICES ASSUME Init PROVE TypeOK
  OBVIOUS
<1>1. DOMAIN balances = {} /\ DOMAIN locks = {}
  BY DEF Init
<1>2. IsFiniteSet(DOMAIN balances)
  BY <1>1, FS_EmptySet
<1> QED BY <1>1, <1>2, IssuerAssumption DEF Init, TypeOK, NoUnlocking

(* A covered card leaves the sender a balance that is not negative. *)
LEMMA CoveredType ==
  ASSUME TypeOK, NEW c \in Card, Covered(c)
  PROVE  /\ c.sender \in DOMAIN balances /\ c.amount \in Nat
         /\ c.amount <= balances[c.sender]
         /\ Locked(Live(c.blocknum), c.sender, c.receiver) \in Nat
         /\ Locked(Live(c.blocknum), c.sender, c.receiver)
              <= balances[c.sender] - c.amount
<1>1. LockTable(Live(c.blocknum))
  BY LocksAreFinite, LiveType DEF Card
<1>2. Locked(Live(c.blocknum), c.sender, c.receiver) \in Nat
  BY <1>1, AmountsOfLocks DEF Locked
<1>3. c.sender \in DOMAIN balances /\ balances[c.sender] \in Nat
  BY DEF Covered, TypeOK
<1>4. c.amount \in Nat
  BY AmountsAssumption DEF Card
<1> QED BY <1>2, <1>3, <1>4 DEF Covered

(* What the first reading of a card makes of the history. *)
LEMMA FlowType ==
  ASSUME TypeOK, NEW c \in Card
  PROVE  /\ Flow(c) \in [Addr -> Int]
         /\ c.cid <= cards => Flow(c) = flow
         /\ c.cid = cards + 1 => \A a \in Addr :
              Flow(c)[a] = flow[a]
                + (IF c.type # "CardBurn" /\ a = c.receiver THEN c.amount ELSE 0)
                - (IF c.type # "CardIssue" /\ a = c.sender THEN c.amount ELSE 0)
<1>1. /\ flow \in [Addr -> Int] /\ cards \in Nat
      /\ c.amount \in Nat /\ c.cid \in Nat
  BY AmountsAssumption DEF TypeOK, Card
<1> QED BY <1>1 DEF Flow, First

LEMMA TypeStep ==
  ASSUME TypeOK, [Next]_vars
  PROVE  TypeOK'
<1> USE DEF TypeOK, processed, supply
<1>0. LockTable(locks) /\ Balances(balances)
  BY LocksAreFinite
<1>1. ASSUME NEW c \in Card, Step(c)
      PROVE  TypeOK'
  <2>0. NextCard(c)
    BY <1>1 DEF Step, Skip, Issue, Transfer, Burn, Reject, Raise
  <2>1. /\ pc = "loop" /\ cards' \in Nat /\ cards <= cards'
        /\ c.cid \in 1 .. cards' /\ height' \in Nat
        /\ again' \subseteq Card /\ \A d \in again' : d.cid = cards'
    BY <2>0, NextCardType
  <2>2. c.amount \in Nat /\ c.blocknum \in Nat
    BY AmountsAssumption DEF Card
  <2>3. LockTable(Live(c.blocknum)) /\ DOMAIN Live(c.blocknum) \subseteq DOMAIN locks
    BY <1>0, <2>2, LiveType
  <2>4. CASE Skip(c)
    BY <2>1, <2>4 DEF Skip
  <2>5. CASE Issue(c)
    <3>1. Balances(balances')
      BY <1>0, <2>2, <2>5, CreditType DEF Issue, Card
    <3>2. total' \in Int /\ flow' \in [Addr -> Int]
      BY <2>2, <2>5, FlowType DEF Issue
    <3> QED BY <2>1, <2>5, <3>1, <3>2 DEF Issue, Balances
  <2>6. CASE Transfer(c)
    <3>1. Balances(balances')
      BY <1>0, <2>6, CoveredType, DebitType, CreditType DEF Transfer, Card
    <3>2. DOMAIN locks' \subseteq processed_transfers'
      BY <2>3, <2>6 DEF Transfer
    <3>3. locks' \in [DOMAIN locks' -> Locks]
      BY <2>3, <2>6, LockType DEF Transfer, LockTable
    <3>4. unlocking' \in [sender : Addr, receiver : Addr, rest : Nat]
      BY <2>2, <2>6 DEF Transfer, Card
    <3>5. pc' \in {"loop", "unlock"}
      BY <2>1, <2>6 DEF Transfer
    <3>6. /\ processed_transfers' = processed_transfers \cup {c.cid}
          /\ valid_cards' = valid_cards \cup {c.cid}
          /\ UNCHANGED <<supply, processed_issues, processed_burns>>
      BY <2>6 DEF Transfer
    <3>7. flow' \in [Addr -> Int]
      BY <2>6, FlowType DEF Transfer
    <3> QED BY <2>1, <3>1, <3>2, <3>3, <3>4, <3>5, <3>6, <3>7 DEF Balances
  <2>7. CASE Burn(c)
    <3>1. Balances(balances')
      BY <1>0, <2>7, CoveredType, DebitType DEF Burn
    <3>2. total' \in Int /\ burned' \in Nat /\ burnt' \in Nat /\ flow' \in [Addr -> Int]
      BY <2>2, <2>7, FlowType DEF Burn
    <3> QED BY <2>1, <2>3, <2>7, <3>1, <3>2 DEF Burn, Balances, LockTable
  <2>8. CASE Reject(c)
    BY <2>1, <2>3, <2>8 DEF Reject, LockTable
  <2>9. CASE Raise(c)
    BY <2>1, <2>9 DEF Raise
  <2> QED BY <1>1, <2>4, <2>5, <2>6, <2>7, <2>8, <2>9 DEF Step
<1>2. CASE Reread
  BY <1>1, <1>2 DEF Reread
<1>3. CASE ReadNew
  <2>1. cards + 1 \in Nat \ {0}
    OBVIOUS
  <2> QED BY <1>1, <1>3, <2>1, NewCards DEF ReadNew
<1>4. CASE Unlock
  <2>1. ASSUME NEW n \in DOMAIN locks, locks' = Without(n)
        PROVE  locks' \in [DOMAIN locks' -> Locks] /\ DOMAIN locks' \subseteq DOMAIN locks
    BY <2>1 DEF Without
  <2>2. CASE UnlockRaises
    BY <2>2 DEF UnlockRaises
  <2>3. CASE UnlockWhole
    <3>1. PICK n \in DOMAIN locks :
            /\ unlocking.rest > locks[n].amount
            /\ locks' = Without(n)
            /\ unlocking' = [unlocking EXCEPT !.rest = @ - locks[n].amount]
      BY <2>3 DEF UnlockWhole
    <3>2. locks[n].amount \in Nat /\ unlocking.rest \in Nat
      BY DEF Locks
    <3>3. unlocking' \in [sender : Addr, receiver : Addr, rest : Nat]
      BY <3>1, <3>2
    <3> QED BY <2>1, <2>3, <3>1, <3>3 DEF UnlockWhole
  <2>4. CASE UnlockPart
    <3>1. PICK n \in DOMAIN locks :
            /\ unlocking.rest <= locks[n].amount
            /\ locks' = IF locks[n].amount > unlocking.rest
                        THEN [locks EXCEPT ![n].amount = @ - unlocking.rest]
                        ELSE Without(n)
      BY <2>4 DEF UnlockPart
    <3>2. locks[n] \in Locks /\ unlocking.rest \in Nat
      OBVIOUS
    <3>3. CASE locks[n].amount > unlocking.rest
      <4>1. [locks[n] EXCEPT !.amount = @ - unlocking.rest] \in Locks
        BY <3>2, <3>3 DEF Locks
      <4>2. locks' = [locks EXCEPT ![n] = [locks[n] EXCEPT !.amount = @ - unlocking.rest]]
        BY <3>1, <3>3
      <4>3. locks' \in [DOMAIN locks -> Locks] /\ DOMAIN locks' = DOMAIN locks
        BY <4>1, <4>2
      <4> QED BY <2>4, <4>3, IssuerAssumption DEF UnlockPart, NoUnlocking
    <3>4. CASE ~(locks[n].amount > unlocking.rest)
      BY <2>1, <2>4, <3>1, <3>4, IssuerAssumption DEF UnlockPart, NoUnlocking
    <3> QED BY <3>3, <3>4
  <2>5. CASE UnlockEnd
    BY <2>5, IssuerAssumption DEF UnlockEnd, NoUnlocking
  <2> QED BY <1>4, <2>2, <2>3, <2>4, <2>5 DEF Unlock
<1>5. CASE Finish
  <2>1. LockTable(Live(CleanupHeight)) /\ DOMAIN Live(CleanupHeight) \subseteq DOMAIN locks
    BY <1>0, LiveType, BoundsAssumption
  <2> QED BY <1>5, <2>1 DEF Finish, LockTable
<1>6. CASE UNCHANGED vars
  BY <1>6 DEF vars
<1> QED BY <1>2, <1>3, <1>4, <1>5, <1>6 DEF Next

(* Every value calc_state computes is of its kind; balances, locks and     *)
(* burned amounts are never negative, because a card is covered before it  *)
(* is booked (_process).                                                   *)
THEOREM TypeCorrect == Spec => []TypeOK
BY InitType, TypeStep, PTL DEF Spec

-----------------------------------------------------------------------------
(* Conservation *)

(* total and balances change together or not at all. *)
LEMMA ConservationStep ==
  ASSUME TypeOK, Conservation, [Next]_vars
  PROVE  Conservation'
<1> USE DEF Conservation, supply
<1>0. Balances(balances)
  BY LocksAreFinite
<1>1. ASSUME NEW c \in Card, Step(c)
      PROVE  Conservation'
  <2>1. c.amount \in Nat /\ c.receiver \in Addr
    BY AmountsAssumption DEF Card
  <2>2. CASE Issue(c)
    <3>1. Total(balances') = Total(balances) + c.amount
      BY <1>0, <2>1, <2>2, CreditTotal DEF Issue
    <3> QED BY <2>2, <3>1 DEF Issue
  <2>3. CASE Transfer(c)
    <3> DEFINE b == Debit(balances, c.sender, c.amount)
    <3>1. /\ c.sender \in DOMAIN balances
          /\ c.amount <= balances[c.sender]
      BY <2>3, CoveredType DEF Transfer
    <3>2. Balances(b) /\ Total(b) = Total(balances) - c.amount
      BY <1>0, <2>1, <3>1, DebitType, DebitTotal
    <3>3. balances' = Credit(b, c.receiver, c.amount)
      BY <2>3 DEF Transfer
    <3> HIDE DEF b
    <3>4. Total(balances') = Total(b) + c.amount
      BY <2>1, <3>2, <3>3, CreditTotal
    <3>5. Total(balances) \in Int
      BY DEF TypeOK
    <3>6. Total(balances') = Total(balances)
      BY <2>1, <3>2, <3>4, <3>5
    <3> QED BY <2>3, <3>6 DEF Transfer
  <2>4. CASE Burn(c)
    <3>1. /\ c.sender \in DOMAIN balances
          /\ c.amount <= balances[c.sender]
      BY <2>4, CoveredType DEF Burn
    <3>2. Total(balances') = Total(balances) - c.amount
      BY <1>0, <2>1, <2>4, <3>1, DebitTotal DEF Burn
    <3> QED BY <2>4, <3>2 DEF Burn
  <2>5. CASE Skip(c) \/ Reject(c) \/ Raise(c)
    BY <2>5 DEF Skip, Reject, Raise
  <2> QED BY <1>1, <2>2, <2>3, <2>4, <2>5 DEF Step
<1>2. CASE Reread
  BY <1>1, <1>2 DEF Reread, TypeOK
<1>3. CASE ReadNew
  <2>1. cards + 1 \in Nat \ {0}
    BY DEF TypeOK
  <2> QED BY <1>1, <1>3, <2>1, NewCards DEF ReadNew
<1>4. CASE Unlock
  BY <1>4 DEF Unlock, UnlockRaises, UnlockWhole, UnlockPart, UnlockEnd
<1>5. CASE Finish \/ UNCHANGED vars
  BY <1>5 DEF Finish, vars
<1> QED BY <1>2, <1>3, <1>4, <1>5 DEF Next

(* The checksum of __init__ is true for every list of cards: what is       *)
(* issued and not burned is what the holders have, after every card.       *)
THEOREM SupplyConserved == Spec => []Conservation
<1>1. Init => Conservation
  <2> SUFFICES ASSUME Init PROVE Conservation
    OBVIOUS
  <2>1. DOMAIN balances = {} /\ total = 0
    BY DEF Init
  <2> QED BY <2>1, SumEmpty DEF Conservation, Total
<1>2. TypeOK /\ Conservation /\ [Next]_vars => Conservation'
  BY ConservationStep
<1> QED BY <1>1, <1>2, TypeCorrect, PTL DEF Spec

-----------------------------------------------------------------------------
(* Locked tokens are there *)

OthersSum(L, s, r) == Sum(Others(L, s, r), LockAmounts(L))

LEMMA BackingTypes ==
  ASSUME NEW L, LockTable(L), NEW s, NEW r
  PROVE  Backing(L, s) \in Nat /\ OthersSum(L, s, r) \in Nat
<1>1. Withheld(L, s) \in SUBSET DOMAIN L /\ Others(L, s, r) \in SUBSET DOMAIN L
  BY DEF Withheld, Others
<1> QED BY <1>1, AmountsOfLocks DEF Backing, OthersSum

LEMMA BackingKept ==
  ASSUME NEW L, LockTable(L), NEW D \in SUBSET DOMAIN L, NEW K,
         K = [n \in D |-> L[n]], NEW s, NEW r
  PROVE  /\ LockTable(K)
         /\ Backing(K, s) <= Backing(L, s)
         /\ OthersSum(K, s, r) <= OthersSum(L, s, r)
<1>1. /\ Withheld(L, s) \in SUBSET DOMAIN L
      /\ Withheld(K, s) \in SUBSET (Withheld(L, s) \cap D)
  BY DEF Withheld
<1>2. /\ Others(L, s, r) \in SUBSET DOMAIN L
      /\ Others(K, s, r) \in SUBSET (Others(L, s, r) \cap D)
  BY DEF Others, Withheld
<1> QED BY <1>1, <1>2, KeptLocks DEF Backing, OthersSum

LEMMA BackingAdded ==
  ASSUME NEW L, LockTable(L), NEW k, k \notin DOMAIN L, NEW l \in Locks, NEW K,
         K = [n \in DOMAIN L \cup {k} |-> IF n = k THEN l ELSE L[n]],
         NEW s, NEW r
  PROVE  /\ LockTable(K)
         /\ Backing(K, s) <= Backing(L, s) + l.amount
         /\ OthersSum(K, s, r) <= OthersSum(L, s, r) + l.amount
         /\ l.holder # s => /\ Backing(K, s) <= Backing(L, s)
                            /\ OthersSum(K, s, r) <= OthersSum(L, s, r)
<1>1. /\ Withheld(L, s) \in SUBSET DOMAIN L
      /\ Withheld(K, s) \in SUBSET (Withheld(L, s) \cup {k})
      /\ l.holder # s => k \notin Withheld(K, s)
  BY DEF Withheld
<1>2. /\ Others(L, s, r) \in SUBSET DOMAIN L
      /\ Others(K, s, r) \in SUBSET (Others(L, s, r) \cup {k})
      /\ l.holder # s => k \notin Others(K, s, r)
  BY DEF Others, Withheld
<1>3. /\ LockTable(K)
      /\ Backing(K, s) <= Backing(L, s) + l.amount
      /\ l.holder # s => Backing(K, s) <= Backing(L, s)
  BY <1>1, AddedLock DEF Backing
<1>4. /\ OthersSum(K, s, r) <= OthersSum(L, s, r) + l.amount
      /\ l.holder # s => OthersSum(K, s, r) <= OthersSum(L, s, r)
  BY <1>2, AddedLock DEF OthersSum
<1> QED BY <1>3, <1>4

(* What _check_locks withholds covers the locks a payment does not touch. *)
LEMMA LockedCovers ==
  ASSUME NEW L, LockTable(L), NEW s, NEW r
  PROVE  /\ OthersSum(L, s, r) <= Locked(L, s, r)
         /\ r = Issuer => Backing(L, s) <= Locked(L, s, r)
<1> DEFINE W == {n \in DOMAIN L : Withholds(L[n], s, r)}
<1>1. \A n \in DOMAIN L : L[n].lockhash_type \in 0 .. 5 =>
        L[n].lockhash_type = 0 \/ L[n].lockhash_type \in 1 .. 5
  OBVIOUS
<1>2. Others(L, s, r) \in SUBSET W
  BY <1>1 DEF Others, Withheld, Withholds, Matches, AddressLock
<1>3. r = Issuer => Withheld(L, s) \in SUBSET W
  BY <1>1 DEF Withheld, Withholds, AddressLock
<1>4. Numbers(W, LockAmounts(L))
  BY AmountsOfLocks
<1> QED BY <1>2, <1>3, <1>4, SumSubset DEF OthersSum, Backing, Locked

(* The lock a stopping step of _unlock_amount works on counts as withheld. *)
LEMMA FirstIsWithheld ==
  ASSUME UnlockBacked, pc = "unlock", NEW n, IsFirst(n), ~Unsupported(locks[n])
  PROVE  /\ n \in Withheld(locks, unlocking.sender)
         /\ Matches(locks[n], unlocking.sender, unlocking.receiver)
<1>1. n \in DOMAIN locks /\ Matches(locks[n], unlocking.sender, unlocking.receiver)
  BY DEF IsFirst, Stops
<1>2. unlocking.receiver # Issuer
  BY DEF UnlockBacked
<1> QED BY <1>1, <1>2 DEF Withheld, Matches, AddressLock

IInv == TypeOK /\ LocksBacked /\ UnlockBacked

LEMMA TransferBacked ==
  ASSUME IInv, NEW c \in Card, Transfer(c)
  PROVE  (LocksBacked /\ UnlockBacked)'
<1> DEFINE s == c.sender
           r == c.receiver
           v == c.amount
           live == Live(c.blocknum)
           b == Debit(balances, s, v)
<1>1. /\ c.type = "CardTransfer" /\ Covered(c)
      /\ balances' = Credit(b, r, v)
      /\ c.cid \notin processed_transfers
      /\ locks' = IF c.lock.locktime = 0 THEN live
                  ELSE [n \in DOMAIN live \cup {c.cid} |->
                          IF n = c.cid THEN Lock(c) ELSE live[n]]
      /\ IF \E n \in DOMAIN locks' : locks'[n].holder = s
           THEN pc' = "unlock" /\ unlocking' = [sender |-> s, receiver |-> r, rest |-> v]
           ELSE UNCHANGED pc
      /\ pc = "loop"
  BY DEF Transfer, NextCard, Processed
<1>2. /\ s \in DOMAIN balances /\ s \in Addr /\ r \in Addr /\ v \in Nat
      /\ v <= balances[s] /\ c.blocknum \in Nat
      /\ Locked(live, s, r) \in Nat /\ Locked(live, s, r) <= balances[s] - v
      /\ r # Issuer
  BY <1>1, CoveredType, Receivers DEF IInv, Card
<1>3. LockTable(locks) /\ Balances(balances)
  BY LocksAreFinite DEF IInv
<1>4. /\ Balances(b) /\ Balance(b, s) = Balance(balances, s) - v
      /\ \A x \in Addr \ {s} : Balance(b, x) = Balance(balances, x)
      /\ balances[s] = Balance(balances, s)
  BY <1>2, <1>3, DebitType DEF Balance
<1>5. \A x \in Addr : Balance(balances, x) \in Nat
  BY <1>3 DEF Balances, Balance
<1>6. /\ Balance(balances', r) = Balance(b, r) + v
      /\ \A x \in Addr \ {r} : Balance(balances', x) = Balance(b, x)
  <2>1. balances' = Credit(b, r, v) /\ Balances(b) /\ r \in Addr /\ v \in Nat
    BY <1>1, <1>2, <1>4
  <2> HIDE DEF b, r, v
  <2> QED BY <2>1, CreditType, ZenonT(40)
<1>7. /\ LockTable(live) /\ c.cid \notin DOMAIN live
      /\ \A a : Backing(live, a) <= Backing(locks, a)
      /\ \A a : Backing(locks, a) \in Nat /\ Backing(live, a) \in Nat
      /\ OthersSum(live, s, r) <= Locked(live, s, r)
  <2>1. \A a : LockTable(live) /\ Backing(live, a) <= Backing(locks, a)
    BY <1>3, BackingKept DEF Live
  <2>2. DOMAIN live \subseteq processed_transfers
    BY DEF IInv, TypeOK, Live
  <2> QED BY <1>1, <1>3, <2>1, <2>2, BackingTypes, LockedCovers
<1>8. \A a \in Addr : Backing(locks, a) <= Balance(balances, a)
  BY <1>1 DEF IInv, LocksBacked
<1>9. /\ LockTable(locks')
      /\ \A a \in Addr \ {r} : Backing(locks', a) <= Backing(live, a)
      /\ Backing(locks', r) <= Backing(live, r) + v
      /\ s # r => OthersSum(locks', s, r) <= OthersSum(live, s, r)
      /\ s = r => OthersSum(locks', s, r) <= OthersSum(live, s, r) + v
  <2>1. CASE c.lock.locktime = 0
    <3>1. locks' = live
      BY <1>1, <2>1
    <3>2. OthersSum(live, s, r) \in Nat
      BY <1>7, BackingTypes
    <3> HIDE DEF live
    <3> QED BY <1>2, <1>7, <3>1, <3>2
  <2>2. CASE c.lock.locktime # 0
    <3>1. Lock(c) \in Locks /\ Lock(c).holder = r /\ Lock(c).amount = v
      BY <2>2, LockType DEF Lock
    <3>2. locks' = [n \in DOMAIN live \cup {c.cid} |->
                      IF n = c.cid THEN Lock(c) ELSE live[n]]
      BY <1>1, <2>2
    <3>3. LockTable(live) /\ c.cid \notin DOMAIN live
      BY <1>7
    <3> HIDE DEF live, r, v, s
    <3>4. \A a, q :
            /\ LockTable(locks')
            /\ Backing(locks', a) <= Backing(live, a) + v
            /\ OthersSum(locks', a, q) <= OthersSum(live, a, q) + v
            /\ r # a => /\ Backing(locks', a) <= Backing(live, a)
                        /\ OthersSum(locks', a, q) <= OthersSum(live, a, q)
      BY <3>1, <3>2, <3>3, BackingAdded
    <3> QED BY <3>4
  <2> QED BY <2>1, <2>2
<1>10. /\ \A a \in Addr : Backing(locks', a) \in Nat
       /\ OthersSum(locks', s, r) \in Nat /\ OthersSum(live, s, r) \in Nat
  BY <1>7, <1>9, BackingTypes
<1> HIDE DEF b, live, s, r, v
<1>11. \A a \in Addr \ {s} : Backing(locks', a) <= Balance(balances', a)
  <2> SUFFICES ASSUME NEW a \in Addr \ {s}
               PROVE  Backing(locks', a) <= Balance(balances', a)
    OBVIOUS
  <2>1. Balance(b, a) = Balance(balances, a)
    BY <1>4
  <2>2. CASE a = r
    BY <2>1, <2>2, <1>2, <1>5, <1>6, <1>7, <1>8, <1>9, <1>10
  <2>3. CASE a # r
    BY <2>1, <2>3, <1>2, <1>5, <1>6, <1>7, <1>8, <1>9, <1>10
  <2> QED BY <2>2, <2>3
<1>12. Backing(locks', s) <= Balance(balances', s) + v
  <2>1. CASE s = r
    BY <2>1, <1>2, <1>4, <1>5, <1>6, <1>7, <1>8, <1>9, <1>10
  <2>2. CASE s # r
    BY <2>2, <1>2, <1>4, <1>5, <1>6, <1>7, <1>8, <1>9, <1>10
  <2> QED BY <2>1, <2>2
<1>13. OthersSum(locks', s, r) <= Balance(balances', s)
  <2>1. CASE s = r
    BY <2>1, <1>2, <1>4, <1>5, <1>6, <1>7, <1>9, <1>10
  <2>2. CASE s # r
    BY <2>2, <1>2, <1>4, <1>5, <1>6, <1>7, <1>9, <1>10
  <2> QED BY <2>1, <2>2
<1>14. CASE \E n \in DOMAIN locks' : locks'[n].holder = s
  <2>1. pc' = "unlock" /\ unlocking' = [sender |-> s, receiver |-> r, rest |-> v]
    BY <1>1, <1>14 DEF s, r, v
  <2> QED BY <2>1, <1>2, <1>11, <1>12, <1>13 DEF LocksBacked, UnlockBacked, OthersSum
<1>15. CASE ~ \E n \in DOMAIN locks' : locks'[n].holder = s
  <2>1. pc' = "loop"
    BY <1>1, <1>15 DEF s
  <2>2. Withheld(locks', s) = {}
    BY <1>15 DEF Withheld
  <2>3. Backing(locks', s) = 0
    BY <2>2, SumEmpty DEF Backing
  <2>4. Balance(balances', s) \in Nat
    <3>1. CASE s = r
      BY <3>1, <1>2, <1>4, <1>5, <1>6
    <3>2. CASE s # r
      BY <3>2, <1>2, <1>4, <1>5, <1>6
    <3> QED BY <3>1, <3>2
  <2> QED BY <2>1, <2>3, <2>4, <1>11 DEF LocksBacked, UnlockBacked
<1> QED BY <1>14, <1>15

LEMMA BurnBacked ==
  ASSUME IInv, NEW c \in Card, Burn(c)
  PROVE  (LocksBacked /\ UnlockBacked)'
<1> DEFINE s == c.sender
           v == c.amount
           live == Live(c.blocknum)
<1>1. /\ c.type = "CardBurn" /\ Covered(c) /\ pc = "loop" /\ pc' = pc
      /\ balances' = Debit(balances, s, v) /\ locks' = live
  BY DEF Burn, NextCard
<1>2. /\ s \in DOMAIN balances /\ s \in Addr /\ v \in Nat
      /\ v <= balances[s] /\ c.receiver = Issuer
      /\ Locked(live, s, Issuer) \in Nat /\ Locked(live, s, Issuer) <= balances[s] - v
  <2>1. c.receiver = Issuer
    BY <1>1, Receivers
  <2> QED BY <1>1, <2>1, CoveredType DEF IInv, Card
<1>3. LockTable(locks) /\ Balances(balances)
  BY LocksAreFinite DEF IInv
<1>4. /\ Balance(balances', s) = balances[s] - v
      /\ \A x \in Addr \ {s} : Balance(balances', x) = Balance(balances, x)
  BY <1>1, <1>2, <1>3, DebitType DEF Balance
<1>5. \A x \in Addr : Balance(balances, x) \in Nat
  BY <1>3 DEF Balances, Balance
<1>6. \A a : LockTable(live) /\ Backing(live, a) <= Backing(locks, a)
  BY <1>3, BackingKept DEF Live
<1>7. \A a : Backing(live, a) \in Nat /\ Backing(locks, a) \in Nat
  BY <1>3, <1>6, BackingTypes
<1>8. Backing(live, s) <= Locked(live, s, Issuer)
  BY <1>6, LockedCovers
<1>9. \A a \in Addr : Backing(locks, a) <= Balance(balances, a)
  BY <1>1 DEF IInv, LocksBacked
<1>10. balances[s] \in Nat
  BY <1>2, <1>3 DEF Balances
<1> HIDE DEF s, v, live
<1>11. ASSUME NEW a \in Addr PROVE Backing(locks', a) <= Balance(balances', a)
  <2>1. CASE a = s
    <3>1. Backing(live, a) <= Balance(balances', a)
      BY <2>1, <1>2, <1>4, <1>7, <1>8, <1>10
    <3> QED BY <3>1, <1>1 DEF live
  <2>2. CASE a # s
    <3>1. Backing(live, a) <= Balance(balances', a)
      BY <2>2, <1>4, <1>5, <1>6, <1>7, <1>9
    <3> QED BY <3>1, <1>1 DEF live
  <2> QED BY <2>1, <2>2
<1> QED BY <1>1, <1>11 DEF LocksBacked, UnlockBacked

LEMMA WholeBacked ==
  ASSUME IInv, UnlockWhole
  PROVE  (LocksBacked /\ UnlockBacked)'
<1> DEFINE s == unlocking.sender
           r == unlocking.receiver
           W == Withheld(locks, s)
<1>1. /\ pc = "unlock" /\ pc' = "unlock" /\ balances' = balances
      /\ LockTable(locks) /\ UnlockBacked
  BY LocksAreFinite DEF UnlockWhole, IInv
<1>2. PICK n \in DOMAIN locks :
        /\ IsFirst(n) /\ ~Unsupported(locks[n])
        /\ unlocking.rest > locks[n].amount
        /\ locks' = Without(n)
        /\ unlocking' = [unlocking EXCEPT !.rest = @ - locks[n].amount]
  BY DEF UnlockWhole
<1>3. n \in W
  BY <1>1, <1>2, FirstIsWithheld
<1>4. \A a : /\ LockTable(locks') /\ Backing(locks', a) <= Backing(locks, a)
             /\ OthersSum(locks', a, r) <= OthersSum(locks, a, r)
  BY <1>1, <1>2, BackingKept DEF Without
<1>5. Backing(locks', s) = Backing(locks, s) - locks[n].amount
  <2>1. Withheld(locks', s) = W \ {n}
    BY <1>2 DEF Without, Withheld
  <2>2. Numbers(W, LockAmounts(locks))
    BY <1>1, AmountsOfLocks DEF Withheld
  <2>3. Sum(W, LockAmounts(locks)) =
          Sum(W \ {n}, LockAmounts(locks)) + LockAmounts(locks)[n]
    BY <1>3, <2>2, SumRemove
  <2>4. \A m \in W \ {n} : LockAmounts(locks')[m] = LockAmounts(locks)[m]
    BY <1>2 DEF LockAmounts, Without, Withheld
  <2>5. Sum(W \ {n}, LockAmounts(locks')) = Sum(W \ {n}, LockAmounts(locks))
    BY <2>4, SumAgree
  <2>6. LockAmounts(locks)[n] = locks[n].amount /\ locks[n].amount \in Nat
    BY <1>1, <1>2 DEF LockAmounts, LockTable, Locks
  <2>7. Backing(locks', s) \in Nat /\ Backing(locks, s) \in Nat
    BY <1>1, <1>4, BackingTypes
  <2>8. Backing(locks', s) = Sum(W \ {n}, LockAmounts(locks))
    BY <2>1, <2>5 DEF Backing
  <2>9. Backing(locks, s) = Backing(locks', s) + locks[n].amount
    BY <2>3, <2>6, <2>8 DEF Backing
  <2> QED BY <2>6, <2>7, <2>9
<1>6. /\ unlocking.rest \in Nat /\ locks[n].amount \in Nat /\ s \in Addr
      /\ unlocking'.sender = s /\ unlocking'.receiver = r
      /\ unlocking'.rest = unlocking.rest - locks[n].amount
  BY <1>1, <1>2 DEF IInv, TypeOK, Locks
<1>7. \A a : /\ Backing(locks', a) \in Nat /\ Backing(locks, a) \in Nat
             /\ OthersSum(locks', a, r) \in Nat /\ OthersSum(locks, a, r) \in Nat
  BY <1>1, <1>4, BackingTypes
<1>8. \A a \in Addr : Balance(balances, a) \in Nat
  BY LocksAreFinite DEF IInv, Balances, Balance
<1>9. /\ r # Issuer
      /\ \A a \in Addr \ {s} : Backing(locks, a) <= Balance(balances, a)
      /\ Backing(locks, s) <= Balance(balances, s) + unlocking.rest
      /\ OthersSum(locks, s, r) <= Balance(balances, s)
  BY <1>1 DEF UnlockBacked, OthersSum
<1> HIDE DEF s, r, W
<1>10. \A a \in Addr \ {s} : Backing(locks', a) <= Balance(balances', a)
  BY <1>1, <1>4, <1>7, <1>8, <1>9
<1>11. Backing(locks', s) <= Balance(balances', s) + unlocking'.rest
  BY <1>1, <1>5, <1>6, <1>7, <1>8, <1>9
<1>12. OthersSum(locks', s, r) <= Balance(balances', s)
  BY <1>1, <1>4, <1>6, <1>7, <1>8, <1>9
<1> QED BY <1>1, <1>6, <1>9, <1>10, <1>11, <1>12
        DEF LocksBacked, UnlockBacked, OthersSum

LEMMA PartBacked ==
  ASSUME IInv, UnlockPart
  PROVE  (LocksBacked /\ UnlockBacked)'
<1> DEFINE s == unlocking.sender
           W == Withheld(locks, s)
           A == LockAmounts(locks)
           rest == unlocking.rest
<1>1. /\ pc = "unlock" /\ pc' = "loop" /\ balances' = balances
      /\ LockTable(locks) /\ UnlockBacked
  BY LocksAreFinite DEF UnlockPart, IInv
<1>2. PICK n \in DOMAIN locks :
        /\ IsFirst(n) /\ ~Unsupported(locks[n])
        /\ rest <= locks[n].amount
        /\ locks' = IF locks[n].amount > rest
                    THEN [locks EXCEPT ![n].amount = @ - rest]
                    ELSE Without(n)
  BY DEF UnlockPart
<1>3. n \in W /\ locks[n].holder = s
  BY <1>1, <1>2, FirstIsWithheld DEF Withheld
<1>4. /\ rest \in Nat /\ locks[n].amount \in Nat /\ s \in Addr
      /\ A[n] = locks[n].amount /\ locks[n] \in Locks
  BY <1>1, <1>2 DEF IInv, TypeOK, Locks, LockAmounts
<1>5. /\ Numbers(W, A) /\ Sum(W, A) = Sum(W \ {n}, A) + A[n]
      /\ Numbers(W \ {n}, A) /\ Sum(W \ {n}, A) \in Nat
  <2>1. Numbers(W, A)
    BY <1>1, AmountsOfLocks DEF Withheld
  <2>2. Numbers(W \ {n}, A)
    BY <1>1, AmountsOfLocks DEF Withheld
  <2> QED BY <2>1, <2>2, <1>3, SumRemove, SumType
<1> DEFINE Paid ==
      /\ Backing(locks', s) = Backing(locks, s) - rest
      /\ \A a \in Addr \ {s} : Backing(locks', a) <= Backing(locks, a)
      /\ LockTable(locks')
<1>0. \A a : Backing(locks, a) \in Nat
  BY <1>1, BackingTypes
<1>6. ASSUME locks[n].amount > rest PROVE Paid
  <2>1. locks' = [locks EXCEPT ![n] = [locks[n] EXCEPT !.amount = locks[n].amount - rest]]
    BY <1>2, <1>6
  <2>2. /\ DOMAIN locks' = DOMAIN locks
        /\ locks'[n].amount = locks[n].amount - rest
        /\ \A m \in DOMAIN locks : m # n => locks'[m] = locks[m]
        /\ locks'[n].holder = locks[n].holder
        /\ locks'[n].lockhash_type = locks[n].lockhash_type
        /\ locks'[n].lockhash = locks[n].lockhash
        /\ locks'[n] \in Locks
    BY <2>1, <1>4, <1>6 DEF Locks
  <2>3. \A a : Withheld(locks', a) = Withheld(locks, a)
    BY <2>2 DEF Withheld, LockAddress
  <2>4. \A m \in W \ {n} : LockAmounts(locks')[m] = A[m]
    BY <2>2 DEF LockAmounts, Withheld
  <2>5. LockAmounts(locks')[n] = A[n] - rest /\ A[n] - rest \in Nat
    BY <1>4, <1>6, <2>2 DEF LockAmounts
  <2>6. Numbers(W, LockAmounts(locks'))
    BY <1>5, <2>4, <2>5 DEF Numbers
  <2>7. Sum(W, LockAmounts(locks')) = Sum(W \ {n}, A) + (A[n] - rest)
    <3>1. Sum(W, LockAmounts(locks')) =
            Sum(W \ {n}, LockAmounts(locks')) + LockAmounts(locks')[n]
      BY <1>3, <2>6, SumRemove
    <3>2. Sum(W \ {n}, LockAmounts(locks')) = Sum(W \ {n}, A)
      BY <2>4, SumAgree
    <3> QED BY <3>1, <3>2, <2>5
  <2>8. Backing(locks', s) = Backing(locks, s) - rest
    <3>1. Backing(locks', s) = Sum(W, LockAmounts(locks')) /\ Backing(locks, s) = Sum(W, A)
      BY <2>3 DEF Backing
    <3> HIDE DEF W, A, rest
    <3> QED BY <3>1, <2>7, <1>4, <1>5
  <2>9. ASSUME NEW a \in Addr \ {s} PROVE Backing(locks', a) = Backing(locks, a)
    <3>1. \A m \in Withheld(locks, a) : LockAmounts(locks')[m] = A[m]
      BY <2>2, <1>3 DEF LockAmounts, Withheld
    <3> QED BY <2>3, <3>1, SumAgree DEF Backing
  <2>10. \A a \in Addr \ {s} : Backing(locks', a) <= Backing(locks, a)
    BY <1>0, <2>9
  <2>11. LockTable(locks')
    <3>1. locks' \in [DOMAIN locks' -> Locks]
      BY <1>1, <2>1, <2>2 DEF LockTable
    <3> QED BY <1>1, <2>2, <3>1 DEF LockTable
  <2> QED BY <2>8, <2>10, <2>11
<1>7. ASSUME ~(locks[n].amount > rest) PROVE Paid
  <2>1. locks' = Without(n) /\ A[n] = rest
    BY <1>2, <1>4, <1>7
  <2>2. Withheld(locks', s) = W \ {n}
    BY <2>1 DEF Without, Withheld
  <2>3. \A m \in W \ {n} : LockAmounts(locks')[m] = A[m]
    BY <2>1 DEF LockAmounts, Without, Withheld
  <2>4. Sum(W \ {n}, LockAmounts(locks')) = Sum(W \ {n}, A)
    BY <2>3, SumAgree
  <2>5. Backing(locks', s) = Sum(W \ {n}, A) /\ Backing(locks, s) = Sum(W, A)
    BY <2>2, <2>4 DEF Backing
  <2>6. Backing(locks', s) = Backing(locks, s) - rest
    <3> HIDE DEF W, A, rest
    <3> QED BY <2>1, <2>5, <1>4, <1>5
  <2>7. \A a : LockTable(locks') /\ Backing(locks', a) <= Backing(locks, a)
    BY <1>1, <2>1, BackingKept DEF Without
  <2> QED BY <2>6, <2>7
<1>8. Paid
  BY <1>6, <1>7
<1>9. \A a \in Addr : Balance(balances, a) \in Nat
  BY LocksAreFinite DEF IInv, Balances, Balance
<1>10. LockTable(locks') /\ \A a : Backing(locks', a) \in Nat
  <2>1. LockTable(locks')
    BY <1>8
  <2> QED BY <2>1, BackingTypes
<1>11. /\ \A a \in Addr \ {s} : Backing(locks, a) <= Balance(balances, a)
       /\ Backing(locks, s) <= Balance(balances, s) + rest
  BY <1>1 DEF UnlockBacked
<1>12. Backing(locks', s) <= Balance(balances, s)
  <2>1. Backing(locks', s) = Backing(locks, s) - rest
    BY <1>8
  <2> HIDE DEF s, rest
  <2> QED BY <2>1, <1>0, <1>4, <1>9, <1>10, <1>11
<1>13. \A a \in Addr \ {s} : Backing(locks', a) <= Balance(balances, a)
  BY <1>0, <1>8, <1>9, <1>10, <1>11
<1> QED BY <1>1, <1>12, <1>13 DEF LocksBacked, UnlockBacked

LEMMA EndBacked ==
  ASSUME IInv, UnlockEnd
  PROVE  (LocksBacked /\ UnlockBacked)'
<1> DEFINE s == unlocking.sender
           r == unlocking.receiver
<1>1. /\ pc = "unlock" /\ pc' = "loop" /\ Stops = {}
      /\ balances' = balances /\ locks' = locks /\ UnlockBacked
  BY DEF UnlockEnd, IInv
<1>2. Others(locks, s, r) = Withheld(locks, s)
  BY <1>1 DEF Others, Withheld, Stops
<1>3. Backing(locks, s) <= Balance(balances, s)
  BY <1>1, <1>2 DEF UnlockBacked, Backing
<1>4. \A a \in Addr : Backing(locks, a) <= Balance(balances, a)
  BY <1>1, <1>3 DEF UnlockBacked
<1> QED BY <1>1, <1>4 DEF LocksBacked, UnlockBacked, Backing, Withheld

(* Nobody loses tokens and no lock appears. *)
LEMMA QuietBacked ==
  ASSUME IInv, pc = "loop", pc' # "unlock", NEW h \in Nat,
         locks' = locks \/ locks' = Live(h),
         \A a \in Addr : Balance(balances, a) <= Balance(balances', a),
         \A a \in Addr : Balance(balances', a) \in Nat
  PROVE  (LocksBacked /\ UnlockBacked)'
<1>1. LockTable(locks) /\ \A a \in Addr : Balance(balances, a) \in Nat
  BY LocksAreFinite DEF IInv, Balances, Balance
<1>2. \A a : LockTable(locks') /\ Backing(locks', a) <= Backing(locks, a)
  <2>1. CASE locks' = locks
    <3>1. \A a : Backing(locks, a) <= Backing(locks, a)
      BY <1>1, BackingTypes
    <3>2. \A a : Backing(locks', a) = Backing(locks, a)
      BY <2>1 DEF Backing, Withheld
    <3> QED BY <1>1, <2>1, <3>1, <3>2
  <2>2. CASE locks' = Live(h)
    BY <1>1, <2>2, BackingKept DEF Live
  <2> QED BY <2>1, <2>2
<1>3. \A a : Backing(locks, a) \in Nat /\ Backing(locks', a) \in Nat
  BY <1>1, <1>2, BackingTypes
<1>4. \A a \in Addr : Backing(locks, a) <= Balance(balances, a)
  BY DEF IInv, LocksBacked
<1>5. \A a \in Addr : Backing(locks', a) <= Balance(balances', a)
  BY <1>1, <1>2, <1>3, <1>4
<1> QED BY <1>5 DEF LocksBacked, UnlockBacked

LEMMA BackedStep ==
  ASSUME IInv, [Next]_vars
  PROVE  IInv'
<1>0. TypeOK' /\ Balances(balances)
  BY TypeStep, LocksAreFinite DEF IInv
<1>1. /\ \A a \in Addr : Balance(balances, a) \in Nat
      /\ \A a \in Addr : Balance(balances, a) <= Balance(balances, a)
  BY <1>0 DEF Balances, Balance
<1>2. ASSUME NEW c \in Card, Step(c)
      PROVE  (LocksBacked /\ UnlockBacked)'
  <2>1. c.blocknum \in Nat /\ c.amount \in Nat /\ c.receiver \in Addr
    BY AmountsAssumption DEF Card
  <2>2. CASE Transfer(c)
    BY <2>2, TransferBacked
  <2>3. CASE Burn(c)
    BY <2>3, BurnBacked
  <2>4. CASE Skip(c) \/ Reject(c)
    <3>1. /\ pc = "loop" /\ pc' # "unlock" /\ balances' = balances
          /\ locks' = locks \/ locks' = Live(c.blocknum)
      BY <2>4 DEF Skip, Reject, NextCard
    <3>2. \A a : Balance(balances', a) = Balance(balances, a)
      BY <3>1 DEF Balance
    <3> QED BY <1>1, <2>1, <3>1, <3>2, QuietBacked
  <2>5. CASE Issue(c)
    <3>1. /\ pc = "loop" /\ pc' # "unlock" /\ locks' = locks
          /\ balances' = Credit(balances, c.receiver, c.amount)
      BY <2>5 DEF Issue, NextCard
    <3>2. /\ Balance(balances', c.receiver) = Balance(balances, c.receiver) + c.amount
          /\ \A a \in Addr \ {c.receiver} : Balance(balances', a) = Balance(balances, a)
      <4> DEFINE r == c.receiver
                 v == c.amount
      <4>1. Balances(balances) /\ r \in Addr /\ v \in Nat
            /\ balances' = Credit(balances, r, v)
        BY <1>0, <2>1, <3>1
      <4> HIDE DEF r, v
      <4>2. /\ Balance(balances', r) = Balance(balances, r) + v
            /\ \A a \in Addr \ {r} : Balance(balances', a) = Balance(balances, a)
        BY <4>1, CreditType, ZenonT(40)
      <4> QED BY <4>2 DEF r, v
    <3>3. \A a \in Addr : /\ Balance(balances, a) <= Balance(balances', a)
                          /\ Balance(balances', a) \in Nat
      BY <1>1, <2>1, <3>2
    <3> QED BY <2>1, <3>1, <3>3, QuietBacked
  <2>6. CASE Raise(c)
    BY <2>6 DEF Raise, LocksBacked, UnlockBacked
  <2> QED BY <1>2, <2>2, <2>3, <2>4, <2>5, <2>6 DEF Step
<1>3. CASE Reread
  BY <1>0, <1>2, <1>3 DEF Reread, IInv, TypeOK
<1>4. CASE ReadNew
  <2>1. cards + 1 \in Nat \ {0}
    BY DEF IInv, TypeOK
  <2> QED BY <1>0, <1>2, <1>4, <2>1, NewCards DEF ReadNew, IInv
<1>5. CASE Unlock
  <2>1. CASE UnlockRaises
    BY <2>1, <1>0 DEF UnlockRaises, LocksBacked, UnlockBacked, IInv
  <2> QED BY <1>0, <1>5, <2>1, WholeBacked, PartBacked, EndBacked DEF Unlock, IInv
<1>6. CASE Finish
  <2>1. /\ pc = "loop" /\ pc' # "unlock" /\ balances' = balances
        /\ locks' = locks \/ locks' = Live(CleanupHeight)
    BY <1>6 DEF Finish
  <2>2. \A a : Balance(balances', a) = Balance(balances, a)
    BY <2>1 DEF Balance
  <2> QED BY <1>0, <1>1, <2>1, <2>2, QuietBacked, BoundsAssumption DEF IInv
<1>7. CASE UNCHANGED vars
  BY <1>0, <1>7 DEF vars, IInv, LocksBacked, UnlockBacked, Backing, Withheld,
                    Others, Balance
<1> QED BY <1>3, <1>4, <1>5, <1>6, <1>7 DEF Next

LEMMA InitBacked == Init => IInv
<1> SUFFICES ASSUME Init PROVE IInv
  OBVIOUS
<1>1. pc = "loop" /\ DOMAIN locks = {} /\ DOMAIN balances = {}
  BY DEF Init
<1>2. \A a : Withheld(locks, a) = {}
  BY <1>1 DEF Withheld
<1>3. \A a : Backing(locks, a) = 0 /\ Balance(balances, a) = 0
  BY <1>1, <1>2, SumEmpty DEF Backing, Balance
<1> QED BY <1>1, <1>3, InitType DEF IInv, LocksBacked, UnlockBacked

(* Locked tokens are always there: between two cards the locks that a      *)
(* burn does not release never exceed their holder's balance, whatever     *)
(* cards, lock types and cleanup height (_check_locks, _add_lock and       *)
(* _unlock_amount together).                                               *)
THEOREM LockedTokensAreThere == Spec => []LocksBacked
<1>1. Init => IInv
  BY InitBacked
<1>2. IInv /\ [Next]_vars => IInv'
  BY BackedStep
<1>3. IInv => LocksBacked
  BY DEF IInv
<1> QED BY <1>1, <1>2, <1>3, PTL DEF Spec

(* Inside _unlock_amount no more is locked than the tokens still there and *)
(* the rest that is about to be unlocked, and the locks the payment does   *)
(* not match are covered already (_add_lock runs before _unlock_amount).   *)
THEOREM UnlockingIsCovered == Spec => []UnlockBacked
<1>1. Init => IInv
  BY InitBacked
<1>2. IInv /\ [Next]_vars => IInv'
  BY BackedStep
<1>3. IInv => UnlockBacked
  BY DEF IInv
<1> QED BY <1>1, <1>2, <1>3, PTL DEF Spec

-----------------------------------------------------------------------------
(* A card that the list holds twice counts once *)

(* The card the list holds once more was read at this height, and it is    *)
(* processed unless the exception ended the walk.                          *)
ReadOnce ==
  \A c \in again : c.blocknum = height /\ (pc = "raised" \/ c.cid \in Processed(c))

OnceInv == TypeOK /\ ReadOnce /\ CountedOnce

(* A card that is not skipped is new ... *)
LEMMA FreshCard ==
  ASSUME TypeOK, ReadOnce, NEW c \in Card, NextCard(c), c.cid \notin Processed(c)
  PROVE  /\ c.cid = cards + 1 /\ c.blocknum >= height /\ height' = c.blocknum
         /\ \A d \in again' : d = c
BY DEF NextCard, ReadOnce

(* ... and one that is skipped was the last one already. *)
LEMMA OldCard ==
  ASSUME TypeOK, ReadOnce, NEW c \in Card, Skip(c)
  PROVE  again' = {} /\ height' = height /\ c \in again
<1>1. c.cid \in 1 .. cards
  BY DEF Skip, Processed, TypeOK
<1>2. c.cid # cards + 1
  BY <1>1 DEF TypeOK
<1> QED BY <1>2 DEF Skip, NextCard, ReadOnce

LEMMA OnceStep ==
  ASSUME OnceInv, [Next]_vars
  PROVE  OnceInv'
<1> USE DEF OnceInv
<1>0. TypeOK'
  BY TypeStep
<1>n. cards \in Nat /\ burned \in Nat /\ burnt \in Nat /\ Balances(balances)
  BY LocksAreFinite DEF TypeOK
<1>b. \A a \in Addr : Balance(balances, a) = flow[a] /\ flow[a] \in Int
  BY DEF TypeOK, CountedOnce
<1>1. ASSUME NEW c \in Card, Step(c)
      PROVE  (ReadOnce /\ CountedOnce)'
  <2>1. /\ c.amount \in Nat /\ c.cid \in Nat
        /\ c.sender \in Addr /\ c.receiver \in Addr
    BY AmountsAssumption DEF Card
  <2>2. CASE Skip(c)
    BY <2>2, OldCard DEF Skip, ReadOnce, CountedOnce, supply
  <2>3. ASSUME c.cid \notin Processed(c), NextCard(c),
               pc' = "raised" \/ c.cid \in Processed(c)'
        PROVE  ReadOnce'
    <3>1. \A d \in again' : d = c
      BY <2>3, FreshCard
    <3>2. height' = c.blocknum
      BY <2>3, FreshCard
    <3> QED BY <2>3, <3>1, <3>2 DEF ReadOnce, Processed
  <2>4. CASE Issue(c)
    <3>1. c.cid = cards + 1
      BY <2>4, FreshCard DEF Issue
    <3>2. \A a \in Addr :
            flow'[a] = flow[a] + (IF a = c.receiver THEN c.amount ELSE 0)
      BY <2>4, <3>1, <2>1, <1>b, FlowType DEF Issue
    <3>3. \A a \in Addr :
            Balance(balances', a)
              = Balance(balances, a) + (IF a = c.receiver THEN c.amount ELSE 0)
      <4>1. balances' = Credit(balances, c.receiver, c.amount)
        BY <2>4 DEF Issue
      <4>2. Balance(balances', c.receiver) = Balance(balances, c.receiver) + c.amount
        BY <4>1, <2>1, <1>n, CreditType
      <4>3. \A a \in Addr \ {c.receiver} : Balance(balances', a) = Balance(balances, a)
        BY <4>1, <2>1, <1>n, CreditType, ZenonT(40)
      <4> QED BY <4>2, <4>3, <2>1, <1>b
    <3>4. CountedOnce'
      BY <2>4, <3>2, <3>3, <1>b DEF CountedOnce, Issue
    <3> QED BY <2>3, <2>4, <3>4 DEF Issue, Processed
  <2>5. CASE Transfer(c)
    <3>1. ReadOnce'
      BY <2>3, <2>5 DEF Transfer, Processed
    <3>2. c.cid = cards + 1
      BY <2>5, FreshCard DEF Transfer
    <3>3. \A a \in Addr :
            flow'[a] = flow[a] + (IF a = c.receiver THEN c.amount ELSE 0)
                         - (IF a = c.sender THEN c.amount ELSE 0)
      BY <2>5, <3>2, FlowType DEF Transfer
    <3>4. c.sender \in DOMAIN balances /\ c.amount <= balances[c.sender]
      BY <2>5, CoveredType DEF Transfer
    <3> DEFINE left == Debit(balances, c.sender, c.amount)
    <3>5. /\ Balances(left)
          /\ \A a \in Addr :
               Balance(left, a)
                 = Balance(balances, a) - (IF a = c.sender THEN c.amount ELSE 0)
      BY <3>4, <2>1, <1>n, <1>b, DebitType
    <3>6. balances' = Credit(left, c.receiver, c.amount)
      BY <2>5 DEF Transfer
    <3> HIDE DEF left
    <3>7. \A a \in Addr : Balance(left, a) \in Int
      BY <3>5, <2>1, <1>b
    <3>8. \A a \in Addr :
            Balance(balances', a)
              = Balance(left, a) + (IF a = c.receiver THEN c.amount ELSE 0)
      <4>1. Balance(balances', c.receiver) = Balance(left, c.receiver) + c.amount
        BY <3>5, <3>6, <2>1, CreditType
      <4>2. \A a \in Addr \ {c.receiver} : Balance(balances', a) = Balance(left, a)
        BY <3>5, <3>6, <2>1, CreditType
      <4> QED BY <4>1, <4>2, <3>7, <2>1
    <3>9. \A a \in Addr : Balance(balances', a) = flow'[a]
      BY <3>3, <3>5, <3>8, <2>1, <1>b
    <3>10. burned' = burned /\ burnt' = burnt
      BY <2>5 DEF Transfer, supply
    <3> QED BY <3>1, <3>9, <3>10 DEF CountedOnce
  <2>6. CASE Burn(c)
    <3>1. c.cid = cards + 1
      BY <2>6, FreshCard DEF Burn
    <3>2. \A a \in Addr :
            flow'[a] = flow[a] - (IF a = c.sender THEN c.amount ELSE 0)
      BY <2>6, <3>1, <2>1, <1>b, FlowType DEF Burn
    <3>3. c.sender \in DOMAIN balances /\ c.amount <= balances[c.sender]
      BY <2>6, CoveredType DEF Burn
    <3>4. \A a \in Addr :
            Balance(balances', a)
              = Balance(balances, a) - (IF a = c.sender THEN c.amount ELSE 0)
      BY <2>6, <3>3, <2>1, <1>n, <1>b, DebitType DEF Burn
    <3>5. burned' = burned + c.amount /\ burnt' = burnt + c.amount
      BY <2>6, <3>1, <1>n DEF Burn, First
    <3>6. CountedOnce'
      BY <3>2, <3>4, <3>5, <1>b DEF CountedOnce
    <3> QED BY <2>3, <2>6, <3>6 DEF Burn, Processed
  <2>7. CASE Reject(c)
    <3>1. ReadOnce'
      BY <2>3, <2>7 DEF Reject, Processed
    <3> QED BY <2>7, <3>1 DEF Reject, CountedOnce, supply
  <2>8. CASE Raise(c)
    <3>1. ReadOnce'
      BY <2>3, <2>8 DEF Raise
    <3> QED BY <2>8, <3>1 DEF Raise, CountedOnce, supply
  <2> QED BY <1>1, <2>2, <2>4, <2>5, <2>6, <2>7, <2>8 DEF Step
<1>2. CASE Reread
  BY <1>0, <1>1, <1>2 DEF Reread, TypeOK
<1>3. CASE ReadNew
  <2>1. cards + 1 \in Nat \ {0}
    BY <1>n
  <2> QED BY <1>0, <1>1, <1>3, <2>1, NewCards DEF ReadNew
<1>4. CASE Unlock \/ Finish \/ UNCHANGED vars
  <2>1. /\ UNCHANGED <<balances, flow, supply, processed, again, height>>
        /\ pc # "raised" \/ pc' = "raised"
    BY <1>4 DEF Unlock, UnlockRaises, UnlockWhole, UnlockPart, UnlockEnd, Finish,
                vars, supply, processed
  <2> QED BY <1>0, <2>1 DEF ReadOnce, Processed, CountedOnce, supply, processed
<1> QED BY <1>2, <1>3, <1>4 DEF Next

(* However often the list of cards repeats a card, it is issued, moved or  *)
(* burned once, and dropped for ever if it is dropped the first time (the  *)
(* sets processed_issues, processed_transfers and processed_burns).        *)
THEOREM RepeatedCardsCountOnce == Spec => []CountedOnce
<1>1. Init => OnceInv
  BY InitType DEF Init, OnceInv, ReadOnce, CountedOnce, Balance
<1>2. OnceInv /\ [Next]_vars => OnceInv'
  BY OnceStep
<1>3. OnceInv => CountedOnce
  BY DEF OnceInv
<1> QED BY <1>1, <1>2, <1>3, PTL DEF Spec

-----------------------------------------------------------------------------
(* DeckState implements TokenLedger. *)

(* Tables of claims, and one row of them. *)
ClaimTable(C) == C \in [Addr -> [Targets -> [LockTimes -> Nat]]]
ClaimRow(f) == f \in [LockTimes -> Nat]

(* Locks whose claim has a place in such a table. *)
Timed(L) == \A n \in DOMAIN L : L[n].locktime \in LockTimes

-----------------------------------------------------------------------------
(* Claims *)

LEMMA LockAddressType ==
  ASSUME NEW l \in Locks
  PROVE  LockAddress(l) \in Targets
BY DEF LockAddress, Targets, Locks

LEMMA LockedForType ==
  ASSUME NEW L, LockTable(L), NEW a, NEW g, NEW t
  PROVE  /\ Numbers(LockedFor(L, a, g, t), LockAmounts(L))
         /\ Sum(LockedFor(L, a, g, t), LockAmounts(L)) \in Nat
BY AmountsOfLocks DEF LockedFor

LEMMA ClaimsType ==
  ASSUME NEW L, LockTable(L)
  PROVE  ClaimTable(ClaimsOf(L))
BY LockedForType DEF ClaimsOf, ClaimTable

LEMMA SameClaims ==
  ASSUME NEW C, ClaimTable(C), NEW D, ClaimTable(D),
         \A a \in Addr, g \in Targets, t \in LockTimes : C[a][g][t] = D[a][g][t]
  PROVE  C = D
<1>1. \A a \in Addr : C[a] \in [Targets -> [LockTimes -> Nat]]
  BY DEF ClaimTable
<1>2. \A a \in Addr : D[a] \in [Targets -> [LockTimes -> Nat]]
  BY DEF ClaimTable
<1>3. \A a \in Addr, g \in Targets : C[a][g] = D[a][g]
  BY <1>1, <1>2
<1>4. \A a \in Addr : C[a] = D[a]
  BY <1>1, <1>2, <1>3
<1> QED BY <1>4 DEF ClaimTable

(* Expiry on the lock table is expiry on the claims. *)
LEMMA LiveClaims ==
  ASSUME LockTable(locks), NEW h \in Nat
  PROVE  ClaimsOf(Live(h)) = Present!Standing(ClaimsOf(locks), h)
<1> DEFINE live == Live(h)
<1>1. LockTable(live)
  BY LiveType
<1>2. \A t \in LockTimes : t \in Nat
  BY LocksAssumption
<1>3. ClaimTable(ClaimsOf(live)) /\ ClaimTable(ClaimsOf(locks))
  BY <1>1, ClaimsType
<1>4. ClaimTable(Present!Standing(ClaimsOf(locks), h))
  <2> HIDE DEF live
  <2> QED BY <1>3 DEF Present!Standing, ClaimTable
<1>5. ASSUME NEW a \in Addr, NEW g \in Targets, NEW t \in LockTimes
      PROVE  ClaimsOf(live)[a][g][t] = Present!Standing(ClaimsOf(locks), h)[a][g][t]
  <2>1. ClaimsOf(live)[a][g][t] = Sum(LockedFor(live, a, g, t), LockAmounts(live))
    BY DEF ClaimsOf
  <2>2. Present!Standing(ClaimsOf(locks), h)[a][g][t] =
          IF t < h THEN 0 ELSE Sum(LockedFor(locks, a, g, t), LockAmounts(locks))
    BY DEF ClaimsOf, Present!Standing
  <2>3. CASE t < h
    <3>1. LockedFor(live, a, g, t) = {}
      BY <1>2, <2>3 DEF LockedFor, Live
    <3> QED BY <2>1, <2>2, <2>3, <3>1, SumEmpty
  <2>4. CASE ~(t < h)
    <3>1. LockedFor(live, a, g, t) = LockedFor(locks, a, g, t)
      BY <1>2, <2>4 DEF LockedFor, Live
    <3>2. \A n \in LockedFor(locks, a, g, t) : LockAmounts(live)[n] = LockAmounts(locks)[n]
      BY <1>2, <2>4 DEF LockedFor, Live, LockAmounts
    <3> QED BY <2>1, <2>2, <2>4, <3>1, <3>2, SumAgree
  <2> QED BY <2>3, <2>4
<1> QED BY <1>3, <1>4, <1>5, SameClaims

LEMMA StandingType ==
  ASSUME NEW C, ClaimTable(C), NEW h \in Nat
  PROVE  /\ ClaimTable(Present!Standing(C, h))
         /\ \A a \in Addr, g \in Targets, t \in LockTimes :
              Present!Standing(C, h)[a][g][t] = IF t < h THEN 0 ELSE C[a][g][t]
BY DEF Present!Standing, ClaimTable

LEMMA StandingTwice ==
  ASSUME NEW C, ClaimTable(C), NEW h \in Nat, NEW k \in Nat, h <= k
  PROVE  Present!Standing(Present!Standing(C, h), k) = Present!Standing(C, k)
<1> DEFINE D == Present!Standing(C, h)
           E == Present!Standing(D, k)
           F == Present!Standing(C, k)
<1>1. /\ ClaimTable(D)
      /\ \A a \in Addr, g \in Targets, t \in LockTimes :
           D[a][g][t] = IF t < h THEN 0 ELSE C[a][g][t]
  BY StandingType
<1>2. /\ ClaimTable(F)
      /\ \A a \in Addr, g \in Targets, t \in LockTimes :
           F[a][g][t] = IF t < k THEN 0 ELSE C[a][g][t]
  BY StandingType
<1> HIDE DEF D, F
<1>3. /\ ClaimTable(E)
      /\ \A a \in Addr, g \in Targets, t \in LockTimes :
           E[a][g][t] = IF t < k THEN 0 ELSE D[a][g][t]
  BY <1>1, StandingType
<1> HIDE DEF E
<1>4. \A t \in LockTimes : t \in Nat
  BY LocksAssumption
<1>5. E = F
  BY <1>1, <1>2, <1>3, <1>4, SameClaims
<1> QED BY <1>5 DEF D, E, F

-----------------------------------------------------------------------------
(* Using claims up *)

(* What the claims that end before t sum up to. *)
Earlier(f, t) == Sum({u \in DOMAIN f : u < t}, f)

LEMMA EarlierType ==
  ASSUME NEW f, ClaimRow(f), NEW t \in LockTimes
  PROVE  Numbers({u \in DOMAIN f : u < t}, f) /\ Earlier(f, t) \in Nat
<1> DEFINE S == {u \in DOMAIN f : u < t}
<1>1. t \in Nat /\ DOMAIN f = LockTimes /\ \A u \in LockTimes : u \in Nat \ {0}
  BY LocksAssumption DEF ClaimRow
<1>2. IsFiniteSet(S)
  <2>1. S \in SUBSET (1 .. t)
    <3>1. \A u \in S : u \in LockTimes /\ u < t
      BY <1>1
    <3> HIDE DEF S
    <3>2. ASSUME NEW u \in S PROVE u \in 1 .. t
      <4>1. u \in Nat /\ u # 0 /\ u < t
        BY <1>1, <3>1
      <4> QED BY <1>1, <4>1
    <3> QED BY <3>2
  <2>2. IsFiniteSet(1 .. t)
    BY <1>1, FS_Interval
  <2> HIDE DEF S
  <2> QED BY <2>1, <2>2, FS_Subset
<1>3. Numbers(S, f)
  BY <1>2 DEF Numbers, ClaimRow
<1> QED BY <1>3, SumType DEF Earlier

(* The sums of the abstract ledger are those of module Sums. *)
LEMMA PresentSum ==
  ASSUME NEW S, NEW f
  PROVE  Present!Sum(S, f) = Sum(S, f)
<1>1. Present!Units(S, f) = Units(S, f)
  BY DEF Present!Units, Units
<1>2. \A T : Present!Cardinality(T) = Cardinality(T)
  BY DEF Present!Cardinality, Cardinality
<1> QED BY <1>1, <1>2 DEF Present!Sum, Sum

LEMMA UsedUpIs ==
  ASSUME NEW f, NEW v, NEW t
  PROVE  Present!UsedUp(f, v, t) =
           IF v <= Earlier(f, t) THEN 0
           ELSE IF v - Earlier(f, t) < f[t] THEN v - Earlier(f, t) ELSE f[t]
<1>1. Earlier(f, t) = Present!Sum({u \in DOMAIN f : u < t}, f)
  BY PresentSum DEF Earlier
<1> QED BY <1>1 DEF Present!UsedUp

LEMMA UsedUpType ==
  ASSUME NEW f, ClaimRow(f), NEW v \in Nat, NEW t \in LockTimes
  PROVE  /\ f[t] - Present!UsedUp(f, v, t) \in Nat
         /\ v = 0 \/ f[t] = 0 => f[t] - Present!UsedUp(f, v, t) = f[t]
<1>1. Earlier(f, t) \in Nat /\ f[t] \in Nat
  BY EarlierType DEF ClaimRow
<1> QED BY <1>1, UsedUpIs

LEMMA ReleaseType ==
  ASSUME NEW C, ClaimTable(C), NEW s \in Addr, NEW r \in Targets, NEW v \in Nat
  PROVE  /\ ClaimTable(Present!Release(C, s, r, v))
         /\ \A a \in Addr, g \in Targets, t \in LockTimes :
              Present!Release(C, s, r, v)[a][g][t] =
                IF a = s /\ g = r THEN C[s][r][t] - Present!UsedUp(C[s][r], v, t)
                ELSE C[a][g][t]
<1> DEFINE f == C[s][r]
           k == [t \in LockTimes |-> f[t] - Present!UsedUp(f, v, t)]
           R == [C EXCEPT ![s] = [C[s] EXCEPT ![r] = k]]
<1>1. C[s] \in [Targets -> [LockTimes -> Nat]] /\ ClaimRow(f)
  BY DEF ClaimTable, ClaimRow
<1>2. k \in [LockTimes -> Nat]
  <2> HIDE DEF f
  <2> QED BY <1>1, UsedUpType
<1>3. Present!Release(C, s, r, v) = R
  BY DEF Present!Release
<1>4. \A t \in LockTimes : k[t] = f[t] - Present!UsedUp(f, v, t)
  OBVIOUS
<1> HIDE DEF k, f
<1>5. R \in [Addr -> [Targets -> [LockTimes -> Nat]]]
  BY <1>1, <1>2 DEF ClaimTable
<1>6. \A a \in Addr, g \in Targets : R[a][g] = IF a = s /\ g = r THEN k ELSE C[a][g]
  BY <1>1 DEF ClaimTable
<1>7. \A a \in Addr, g \in Targets, t \in LockTimes :
        R[a][g][t] = IF a = s /\ g = r THEN f[t] - Present!UsedUp(f, v, t) ELSE C[a][g][t]
  BY <1>4, <1>6
<1> QED BY <1>3, <1>5, <1>7 DEF ClaimTable, f

(* Nothing to release, or nothing to release it from. *)
LEMMA ReleaseNothing ==
  ASSUME NEW C, ClaimTable(C), NEW s \in Addr, NEW r \in Targets, NEW v \in Nat,
         v = 0 \/ \A t \in LockTimes : C[s][r][t] = 0
  PROVE  Present!Release(C, s, r, v) = C
<1> DEFINE R == Present!Release(C, s, r, v)
<1>1. ClaimRow(C[s][r])
  BY DEF ClaimTable, ClaimRow
<1>2. /\ ClaimTable(R)
      /\ \A a \in Addr, g \in Targets, t \in LockTimes :
           R[a][g][t] = IF a = s /\ g = r THEN C[s][r][t] - Present!UsedUp(C[s][r], v, t)
                        ELSE C[a][g][t]
  BY ReleaseType
<1>3. \A t \in LockTimes : C[s][r][t] - Present!UsedUp(C[s][r], v, t) = C[s][r][t]
  BY <1>1, UsedUpType
<1> HIDE DEF R
<1>4. \A a \in Addr, g \in Targets, t \in LockTimes : R[a][g][t] = C[a][g][t]
  BY <1>2, <1>3
<1>5. R = C
  BY <1>2, <1>4, SameClaims
<1> QED BY <1>5 DEF R

(* Releasing v at once, or a part of it from the claim that ends first and *)
(* the others after it, comes to the same.                                 *)
LEMMA ReleaseInParts ==
  ASSUME NEW f, ClaimRow(f), NEW e, ClaimRow(e), NEW x \in LockTimes,
         NEW v \in Nat, NEW w \in Nat, w <= v, w <= f[x],
         e[x] = f[x] - w, \A u \in LockTimes \ {x} : e[u] = f[u],
         \A u \in LockTimes : u < x => f[u] = 0,
         NEW t \in LockTimes
  PROVE  f[t] - Present!UsedUp(f, v, t) = e[t] - Present!UsedUp(e, v - w, t)
<1> DEFINE S == {u \in LockTimes : u < t}
<1>1. /\ DOMAIN f = LockTimes /\ DOMAIN e = LockTimes
      /\ \A u \in LockTimes : f[u] \in Nat /\ e[u] \in Nat
      /\ e[x] = f[x] - w
      /\ \A u \in LockTimes \ {x} : e[u] = f[u]
  BY DEF ClaimRow
<1>2. /\ Earlier(f, t) \in Nat /\ Earlier(e, t) \in Nat
      /\ Numbers(S, f) /\ Numbers(S, e)
      /\ Earlier(f, t) = Sum(S, f) /\ Earlier(e, t) = Sum(S, e)
  BY <1>1, EarlierType DEF Earlier
<1>3. t \in Nat /\ x \in Nat
  BY LocksAssumption
<1>w. v - w \in Nat
  OBVIOUS
<1>f. /\ f[t] - Present!UsedUp(f, v, t) =
           IF v <= Earlier(f, t) THEN f[t]
           ELSE IF v - Earlier(f, t) < f[t] THEN f[t] - (v - Earlier(f, t)) ELSE 0
      /\ f[t] \in Nat
  BY <1>1, <1>2, UsedUpIs
<1>e. /\ e[t] - Present!UsedUp(e, v - w, t) =
           IF v - w <= Earlier(e, t) THEN e[t]
           ELSE IF (v - w) - Earlier(e, t) < e[t] THEN e[t] - ((v - w) - Earlier(e, t)) ELSE 0
      /\ e[t] \in Nat
  <2> DEFINE z == v - w
  <2>1. z \in Nat
    BY <1>w
  <2> HIDE DEF z
  <2>2. Present!UsedUp(e, z, t) =
          IF z <= Earlier(e, t) THEN 0
          ELSE IF z - Earlier(e, t) < e[t] THEN z - Earlier(e, t) ELSE e[t]
    BY UsedUpIs
  <2>3. e[t] - Present!UsedUp(e, z, t) =
          IF z <= Earlier(e, t) THEN e[t]
          ELSE IF z - Earlier(e, t) < e[t] THEN e[t] - (z - Earlier(e, t)) ELSE 0
    BY <1>1, <1>2, <2>1, <2>2
  <2> QED BY <1>1, <2>3 DEF z
<1>4. CASE t < x
  <2>1. f[t] = 0 /\ e[t] = 0
    BY <1>1, <1>3, <1>4
  <2> QED BY <1>2, <1>f, <1>e, <1>w, <2>1
<1>5. CASE t = x
  <2>1. \A u \in S : u \in LockTimes /\ u < x
    BY <1>5
  <2>2. \A u \in S : f[u] = 0 /\ e[u] = 0
    BY <1>1, <1>3, <2>1
  <2> HIDE DEF S
  <2>3. Sum(S, f) = 0 /\ Sum(S, e) = 0
    <3>1. Units(S, f) = {} /\ Units(S, e) = {}
      BY <2>2 DEF Units
    <3> QED BY <3>1, FS_EmptySet DEF Sum
  <2>4. Earlier(f, t) = 0 /\ Earlier(e, t) = 0
    BY <1>2, <2>3
  <2>5. e[t] = f[t] - w /\ w <= f[t]
    BY <1>1, <1>5
  <2> HIDE <1>5
  <2> QED BY <1>f, <1>e, <1>w, <2>4, <2>5
<1>6. CASE t > x
  <2>1. x \in S
    BY <1>3, <1>6
  <2>2. \A u \in S \ {x} : e[u] = f[u]
    BY <1>1
  <2> HIDE DEF S
  <2>3. Sum(S \ {x}, e) = Sum(S \ {x}, f)
    BY <2>2, SumAgree
  <2>4. Sum(S, f) = Sum(S \ {x}, f) + f[x]
    <3>1. Numbers(S, f)
      BY <1>2
    <3> QED BY <2>1, <3>1, SumRemove, ZenonT(40)
  <2>5. Sum(S, e) = Sum(S \ {x}, e) + e[x]
    BY <1>2, <2>1, SumRemove, ZenonT(40)
  <2>6. Sum(S \ {x}, f) \in Nat
    <3>1. Numbers(S \ {x}, f)
      BY <1>2, SumSubset
    <3> QED BY <3>1, SumType
  <2>7. f[x] \in Nat /\ e[x] = f[x] - w
    BY <1>1
  <2>8. Earlier(e, t) = Earlier(f, t) - w
    BY <1>2, <2>3, <2>4, <2>5, <2>6, <2>7
  <2>9. e[t] = f[t]
    BY <1>1, <1>3, <1>6
  <2> QED BY <1>2, <1>f, <1>e, <1>w, <2>8, <2>9
<1> QED BY <1>3, <1>4, <1>5, <1>6

-----------------------------------------------------------------------------
(* What the changes to the lock table do to the claims *)

(* The place of a lock in the table of claims. *)
At(l, a, g, t) ==
  l.holder = a /\ l.locktime = t /\ l.lockhash_type \in 0 .. 5 /\ LockAddress(l) = g

(* A lock is deleted, or lowered by v. *)
LEMMA LoweredClaims ==
  ASSUME NEW L, LockTable(L), NEW n \in DOMAIN L, NEW v \in Nat, v <= L[n].amount,
         NEW K,
         \/ K = [m \in DOMAIN L \ {n} |-> L[m]] /\ v = L[n].amount
         \/ K = [L EXCEPT ![n].amount = @ - v],
         NEW a \in Addr, NEW g \in Targets, NEW t \in LockTimes
  PROVE  /\ LockTable(K)
         /\ At(L[n], a, g, t) => /\ v <= ClaimsOf(L)[a][g][t]
                                /\ ClaimsOf(K)[a][g][t] = ClaimsOf(L)[a][g][t] - v
         /\ ~At(L[n], a, g, t) => ClaimsOf(K)[a][g][t] = ClaimsOf(L)[a][g][t]
<1> DEFINE A == LockAmounts(L)
           B == LockAmounts(K)
           S == LockedFor(L, a, g, t)
           T == LockedFor(K, a, g, t)
           R == S \ {n}
<1>1. /\ ClaimsOf(L)[a][g][t] = Sum(S, A)
      /\ ClaimsOf(K)[a][g][t] = Sum(T, B)
  BY DEF ClaimsOf
<1>2. S = {m \in DOMAIN L : At(L[m], a, g, t)} /\ T = {m \in DOMAIN K : At(K[m], a, g, t)}
  BY DEF LockedFor, At
<1>3. /\ L[n] \in Locks /\ L[n].amount \in Nat /\ A[n] = L[n].amount
      /\ IsFiniteSet(DOMAIN L)
  BY DEF LockTable, Locks, LockAmounts
<1>4. Numbers(S, A) /\ Sum(S, A) \in Nat /\ Numbers(R, A) /\ Sum(R, A) \in Nat
  <2>1. S \in SUBSET DOMAIN L /\ R \in SUBSET DOMAIN L
    BY DEF LockedFor
  <2> HIDE DEF S, R, A
  <2> QED BY <2>1, AmountsOfLocks DEF A
<1>5. n \in S => Sum(S, A) = Sum(R, A) + L[n].amount
  <2> SUFFICES ASSUME n \in S PROVE Sum(S, A) = Sum(R, A) + L[n].amount
    OBVIOUS
  <2> HIDE DEF S, A, R
  <2>1. Sum(S, A) = Sum(S \ {n}, A) + A[n]
    BY <1>4, SumRemove
  <2> QED BY <1>3, <2>1 DEF R
<1>6. n \in S <=> At(L[n], a, g, t)
  BY <1>2
<1>7. n \notin S => R = S
  OBVIOUS
<1>8. CASE K = [m \in DOMAIN L \ {n} |-> L[m]] /\ v = L[n].amount
  <2>1. LockTable(K)
    BY <1>8, <1>3, FS_RemoveElement DEF LockTable
  <2>2. T = R /\ \A m \in R : B[m] = A[m]
    BY <1>2, <1>8 DEF LockAmounts
  <2> HIDE DEF S, T, R, A, B
  <2>3. Sum(T, B) = Sum(R, A)
    BY <2>2, SumAgree
  <2> QED BY <1>1, <1>3, <1>4, <1>5, <1>6, <1>7, <1>8, <2>1, <2>3
<1>9. CASE K = [L EXCEPT ![n].amount = @ - v]
  <2> DEFINE l == [L[n] EXCEPT !.amount = L[n].amount - v]
  <2>1. K = [L EXCEPT ![n] = l]
    BY <1>9
  <2>2. /\ l \in Locks /\ l.amount = L[n].amount - v /\ l.holder = L[n].holder
        /\ l.locktime = L[n].locktime /\ l.lockhash_type = L[n].lockhash_type
        /\ l.lockhash = L[n].lockhash
    BY <1>3 DEF Locks
  <2> HIDE DEF l
  <2>3. /\ DOMAIN K = DOMAIN L /\ K[n] = l
        /\ \A m \in DOMAIN L : m # n => K[m] = L[m]
    BY <2>1
  <2>4. LockTable(K)
    BY <2>1, <2>2, <2>3 DEF LockTable
  <2>5. At(l, a, g, t) <=> At(L[n], a, g, t)
    BY <2>2 DEF At, LockAddress
  <2>6. T = S
    BY <1>2, <2>3, <2>5
  <2>7. B[n] = A[n] - v /\ \A m \in R : B[m] = A[m]
    <3>1. R \subseteq DOMAIN L
      BY <1>2
    <3> QED BY <1>3, <2>2, <2>3, <3>1 DEF LockAmounts
  <2>8. Numbers(S, B)
    BY <2>4, <2>6, LockedForType
  <2> HIDE DEF S, T, R, A, B
  <2>9. Sum(R, B) = Sum(R, A)
    BY <2>7, SumAgree
  <2>10. ASSUME n \in S PROVE Sum(S, B) = Sum(R, B) + (L[n].amount - v)
    <3>1. Sum(S, B) = Sum(S \ {n}, B) + B[n]
      BY <2>8, <2>10, SumRemove
    <3> QED BY <1>3, <2>7, <3>1 DEF R
  <2>11. n \in S => Sum(T, B) = Sum(S, A) - v /\ v <= Sum(S, A)
    BY <1>3, <1>4, <1>5, <2>6, <2>9, <2>10
  <2>12. n \notin S => Sum(T, B) = Sum(S, A)
    BY <1>7, <2>6, <2>9
  <2> QED BY <1>1, <1>6, <2>4, <2>11, <2>12
<1> QED BY <1>8, <1>9

(* A lock is added: a claim, unless its type is above 5. *)
LEMMA AddedClaims ==
  ASSUME NEW L, LockTable(L), NEW k, k \notin DOMAIN L, NEW l \in Locks,
         l.locktime \in LockTimes
  PROVE  LET K == [n \in DOMAIN L \cup {k} |-> IF n = k THEN l ELSE L[n]]
         IN  /\ LockTable(K)
             /\ ClaimsOf(K) =
                  IF l.lockhash_type \in 0 .. 5
                  THEN Present!AddClaim(ClaimsOf(L), l.holder, LockAddress(l),
                                        l.locktime, l.amount)
                  ELSE ClaimsOf(L)
<1> DEFINE K == [n \in DOMAIN L \cup {k} |-> IF n = k THEN l ELSE L[n]]
           x == l.holder
           y == LockAddress(l)
           z == l.locktime
           C == ClaimsOf(L)
           D == Present!AddClaim(C, x, y, z, l.amount)
<1>1. /\ LockTable(K) /\ x \in Addr /\ y \in Targets /\ z \in LockTimes
      /\ l.amount \in Nat
  <2>1. LockTable(K)
    BY FS_AddElement DEF LockTable
  <2> QED BY <2>1, LockAddressType DEF Locks
<1>2. ClaimTable(ClaimsOf(K)) /\ ClaimTable(C)
  BY <1>1, ClaimsType
<1>3. ASSUME NEW a \in Addr, NEW g \in Targets, NEW t \in LockTimes
      PROVE  ClaimsOf(K)[a][g][t] =
               IF At(l, a, g, t) THEN C[a][g][t] + l.amount ELSE C[a][g][t]
  <2> DEFINE S == LockedFor(L, a, g, t)
             T == LockedFor(K, a, g, t)
             A == LockAmounts(L)
             B == LockAmounts(K)
  <2>1. ClaimsOf(K)[a][g][t] = Sum(T, B) /\ C[a][g][t] = Sum(S, A)
    BY DEF ClaimsOf
  <2>2. T = IF At(l, a, g, t) THEN S \cup {k} ELSE S
    BY DEF LockedFor, At
  <2>3. B[k] = l.amount /\ \A n \in S : B[n] = A[n]
    BY DEF LockAmounts, LockedFor
  <2>4. k \notin S
    BY DEF LockedFor
  <2>5. Numbers(T, B)
    <3> HIDE DEF K
    <3> QED BY <1>1, LockedForType
  <2>6. Numbers(S, A)
    BY LockedForType
  <2> HIDE DEF S, T, A, B, K
  <2>7. Sum(S, B) = Sum(S, A) /\ Numbers(S, B)
    BY <2>3, <2>6, SumAgree DEF Numbers
  <2>8. Sum(S \cup {k}, B) = Sum(S, B) + B[k]
    <3>1. B[k] \in Nat
      BY <1>1, <2>3
    <3> QED BY <2>4, <2>7, <3>1, SumAdd
  <2> QED BY <2>1, <2>2, <2>3, <2>7, <2>8
<1>4. /\ ClaimTable(D)
      /\ \A a \in Addr, g \in Targets, t \in LockTimes :
           D[a][g][t] = IF a = x /\ g = y /\ t = z THEN C[a][g][t] + l.amount
                        ELSE C[a][g][t]
  <2> HIDE DEF C, x, y, z
  <2>1. /\ C[x] \in [Targets -> [LockTimes -> Nat]]
        /\ C[x][y] \in [LockTimes -> Nat] /\ C[x][y][z] \in Nat
    BY <1>1, <1>2 DEF ClaimTable
  <2> DEFINE row == [C[x][y] EXCEPT ![z] = C[x][y][z] + l.amount]
             part == [C[x] EXCEPT ![y] = row]
  <2>2. D = [C EXCEPT ![x] = part]
    BY DEF Present!AddClaim
  <2>3. /\ row \in [LockTimes -> Nat]
        /\ \A t \in LockTimes :
             row[t] = IF t = z THEN C[x][y][t] + l.amount ELSE C[x][y][t]
    BY <1>1, <2>1
  <2> HIDE DEF row
  <2>4. /\ part \in [Targets -> [LockTimes -> Nat]]
        /\ \A g \in Targets : part[g] = IF g = y THEN row ELSE C[x][g]
    BY <1>1, <2>1, <2>3
  <2> HIDE DEF part
  <2>5. ClaimTable(D) /\ \A a \in Addr : D[a] = IF a = x THEN part ELSE C[a]
    BY <1>1, <1>2, <2>2, <2>4 DEF ClaimTable
  <2> HIDE DEF D
  <2> QED BY <2>3, <2>4, <2>5
<1>5. CASE l.lockhash_type \in 0 .. 5
  <2>1. \A a \in Addr, g \in Targets, t \in LockTimes :
          At(l, a, g, t) <=> (a = x /\ g = y /\ t = z)
    BY <1>5 DEF At
  <2> HIDE DEF C, D, K, x, y, z
  <2>2. \A a \in Addr, g \in Targets, t \in LockTimes : ClaimsOf(K)[a][g][t] = D[a][g][t]
    BY <1>3, <1>4, <2>1
  <2>3. ClaimsOf(K) = D
    BY <1>2, <1>4, <2>2, SameClaims
  <2> QED BY <1>1, <1>5, <2>3 DEF D, K, C, x, y, z
<1>6. CASE l.lockhash_type \notin 0 .. 5
  <2>1. \A a \in Addr, g \in Targets, t \in LockTimes : ~At(l, a, g, t)
    BY <1>6 DEF At
  <2> HIDE DEF C, K
  <2>2. \A a \in Addr, g \in Targets, t \in LockTimes : ClaimsOf(K)[a][g][t] = C[a][g][t]
    BY <1>3, <2>1
  <2>3. ClaimsOf(K) = C
    BY <1>2, <2>2, SameClaims
  <2> QED BY <1>1, <1>6, <2>3 DEF K, C
<1> QED BY <1>5, <1>6

(* What _check_locks withholds is what the ledger counts as claimed for    *)
(* someone else.                                                           *)
LEMMA LockedIsClaimed ==
  ASSUME NEW L, LockTable(L), Timed(L), NEW s \in Addr, NEW r \in Addr
  PROVE  Present!Total([g \in Targets \ {r} |-> Present!Claimed(ClaimsOf(L), s, g)])
           = Locked(L, s, r)
<1> DEFINE A == LockAmounts(L)
           W == {n \in DOMAIN L : Withholds(L[n], s, r)}
           K == Targets \ {r}
           row(g) == ClaimsOf(L)[s][g]
           sent == [g \in K |-> Present!Claimed(ClaimsOf(L), s, g)]
           target == [n \in W |-> LockAddress(L[n])]
           time == [n \in W |-> L[n].locktime]
<1>1. Numbers(W, A)
  <2>1. W \in SUBSET DOMAIN L
    OBVIOUS
  <2> HIDE DEF W
  <2> QED BY <2>1, AmountsOfLocks
<1>2. ASSUME NEW g \in K
      PROVE  sent[g] = Sum(WithKey(W, target, g), A)
  <2> DEFINE P == WithKey(W, target, g)
  <2>1. Numbers(P, A)
    <3>1. P \in SUBSET W
      BY DEF WithKey
    <3> HIDE DEF P, W
    <3> QED BY <1>1, <3>1, SumSubset
  <2>2. \A n \in P : time[n] \in LockTimes
    BY DEF Timed, WithKey
  <2>3. ASSUME NEW t \in LockTimes
        PROVE  row(g)[t] = Sum(WithKey(P, time, t), A)
    <3>1. \A n \in DOMAIN L : n \in P /\ time[n] = t <=> n \in LockedFor(L, s, g, t)
      BY IssuerAssumption DEF WithKey, LockedFor, Withholds, AddressLock, LockAddress, LockTable,
                              Locks, Targets
    <3>2. WithKey(P, time, t) = LockedFor(L, s, g, t)
      BY <3>1 DEF LockedFor, WithKey
    <3>3. row(g)[t] = Sum(LockedFor(L, s, g, t), A)
      BY DEF ClaimsOf
    <3> QED BY <3>2, <3>3
  <2>4. sent[g] = Present!Sum(DOMAIN row(g), row(g)) /\ DOMAIN row(g) = LockTimes
    BY DEF Present!Claimed, Present!Total, ClaimsOf
  <2>5. sent[g] = Sum(LockTimes, row(g))
    BY <2>4, PresentSum
  <2> HIDE DEF sent, P, time, row
  <2>6. Sum(LockTimes, row(g)) = Sum(P, A)
    BY <2>1, <2>2, <2>3, SumByKey
  <2> QED BY <2>5, <2>6 DEF P
<1>3. \A n \in W : target[n] \in K
  <2> SUFFICES ASSUME NEW n \in W PROVE LockAddress(L[n]) \in Targets \ {r}
    OBVIOUS
  <2>1. L[n] \in Locks
    BY DEF LockTable
  <2> QED BY <2>1, LockAddressType, IssuerAssumption
          DEF Withholds, LockAddress
<1>4. Present!Total(sent) = Sum(K, sent)
  BY PresentSum DEF Present!Total
<1>5. Locked(L, s, r) = Sum(W, A)
  BY DEF Locked
<1>6. \A g \in K : sent[g] = Sum(WithKey(W, target, g), A)
  BY <1>2
<1> HIDE DEF sent, K, W, A, target
<1>7. Sum(K, sent) = Sum(W, A)
  BY <1>1, <1>3, <1>6, SumByKey
<1> QED BY <1>4, <1>5, <1>7 DEF sent, K

-----------------------------------------------------------------------------
(* The invariant of the walk that the refinement needs *)

(* Heights and lock times stay within the ledger's, and a release is under *)
(* way in the loop of _unlock_amount only.                                 *)
WalkOK ==
  /\ height \in 0 .. MaxBlock
  /\ CleanupHeight # 0 => height <= CleanupHeight
  /\ Timed(locks)
  /\ pc \in {"loop", "done"} => unlocking = NoUnlocking

RefInv == TypeOK /\ ReadOnce /\ WalkOK

(* The list's second copy of a card is always skipped. *)
LEMMA RereadSkips ==
  ASSUME RefInv, NEW c \in again, Step(c)
  PROVE  c \in Card /\ Skip(c) /\ height' = height
<1>1. c \in Card
  BY DEF RefInv, TypeOK
<1>2. NextCard(c)
  BY DEF Step, Skip, Issue, Transfer, Burn, Reject, Raise
<1>3. pc = "loop" /\ c.cid \in Processed(c)
  BY <1>2 DEF RefInv, ReadOnce, NextCard
<1>4. Skip(c)
  BY <1>3 DEF Step, Issue, Transfer, Burn, Reject, Raise
<1> QED BY <1>1, <1>4, OldCard DEF RefInv

LEMMA ReadsNew ==
  ASSUME RefInv, ReadNew
  PROVE  \E c \in Card : /\ Step(c) /\ c.blocknum \in 1 .. MaxBlock /\ c.cid = cards + 1
                         /\ again = {} /\ pc = "loop"
<1>1. cards + 1 \in Nat \ {0}
  BY DEF RefInv, TypeOK
<1> QED BY <1>1, NewCards DEF ReadNew

LEMMA WalkStep ==
  ASSUME RefInv, [Next]_vars
  PROVE  RefInv'
<1> USE DEF RefInv
<1>0. TypeOK' /\ LockTable(locks)
  BY TypeStep, LocksAreFinite
<1>1. ASSUME NEW h \in Nat PROVE Timed(Live(h))
  BY DEF WalkOK, Timed, Live
<1>2. CASE Reread
  <2>1. PICK c \in again : Step(c)
    BY <1>2 DEF Reread
  <2>2. c \in Card /\ Skip(c) /\ height' = height /\ again' = {}
    BY <2>1, RereadSkips, OldCard
  <2> QED BY <1>0, <2>2 DEF Skip, WalkOK, ReadOnce
<1>3. CASE ReadNew
  <2>1. PICK c \in Card : /\ Step(c) /\ c.blocknum \in 1 .. MaxBlock /\ c.cid = cards + 1
                         /\ again = {} /\ pc = "loop"
    BY <1>3, ReadsNew
  <2>2. NextCard(c)
    BY <2>1 DEF Step, Skip, Issue, Transfer, Burn, Reject, Raise
  <2>3. /\ height' = c.blocknum /\ height' \in 0 .. MaxBlock
        /\ CleanupHeight # 0 => height' <= CleanupHeight
        /\ \A d \in again' : d = c
    BY <2>1, <2>2, BoundsAssumption DEF NextCard
  <2>4. unlocking = NoUnlocking /\ c.blocknum \in Nat
    BY <2>1 DEF WalkOK, Card
  <2>5. CASE Skip(c)
    BY <1>0, <2>2, <2>3, <2>4, <2>5 DEF Skip, WalkOK, ReadOnce, Processed, processed
  <2>6. CASE Issue(c)
    BY <1>0, <2>2, <2>3, <2>4, <2>6 DEF Issue, WalkOK, ReadOnce, Processed
  <2>7. CASE Transfer(c)
    <3>1. Timed(Live(c.blocknum))
      BY <1>1, <2>4
    <3>2. c.lock.locktime # 0 => c.lock.locktime \in LockTimes
      BY DEF Card, LockFields, NoLock
    <3>3. Timed(locks')
      BY <2>7, <3>1, <3>2 DEF Transfer, Timed, Lock
    <3>4. pc' = "unlock" \/ (pc' = "loop" /\ unlocking' = NoUnlocking)
      BY <2>1, <2>4, <2>7 DEF Transfer
    <3>5. ReadOnce'
      BY <2>3, <2>7 DEF Transfer, ReadOnce, Processed
    <3> QED BY <1>0, <2>3, <3>3, <3>4, <3>5 DEF WalkOK
  <2>8. CASE Burn(c)
    <3>1. Timed(Live(c.blocknum))
      BY <1>1, <2>4
    <3> QED BY <1>0, <2>2, <2>3, <2>4, <2>8, <3>1 DEF Burn, WalkOK, ReadOnce, Processed
  <2>9. CASE Reject(c)
    <3>1. Timed(Live(c.blocknum))
      BY <1>1, <2>4
    <3>2. ReadOnce'
      BY <2>3, <2>9 DEF Reject, ReadOnce, Processed
    <3> QED BY <1>0, <2>2, <2>3, <2>4, <2>9, <3>1, <3>2 DEF Reject, WalkOK
  <2>10. CASE Raise(c)
    BY <1>0, <2>2, <2>3, <2>4, <2>10 DEF Raise, WalkOK, ReadOnce
  <2> QED BY <2>1, <2>5, <2>6, <2>7, <2>8, <2>9, <2>10 DEF Step
<1>4. CASE UnlockRaises
  BY <1>0, <1>4 DEF UnlockRaises, WalkOK, ReadOnce
<1>5. CASE UnlockWhole
  <2>1. Timed(locks')
    BY <1>5 DEF UnlockWhole, WalkOK, Timed, Without
  <2> QED BY <1>0, <1>5, <2>1 DEF UnlockWhole, WalkOK, ReadOnce, Processed, processed
<1>6. CASE UnlockPart
  <2>1. PICK n \in DOMAIN locks :
          locks' = IF locks[n].amount > unlocking.rest
                   THEN [locks EXCEPT ![n].amount = @ - unlocking.rest]
                   ELSE Without(n)
    BY <1>6 DEF UnlockPart
  <2>2. /\ DOMAIN locks' \subseteq DOMAIN locks
        /\ \A m \in DOMAIN locks' : locks'[m].locktime = locks[m].locktime
    <3>1. locks[n] \in Locks
      BY <1>0 DEF LockTable
    <3> QED BY <2>1, <3>1 DEF Without, Locks
  <2>3. Timed(locks')
    BY <2>2 DEF WalkOK, Timed
  <2> QED BY <1>0, <1>6, <2>3 DEF UnlockPart, WalkOK, ReadOnce, Processed, processed
<1>7. CASE UnlockEnd
  BY <1>0, <1>7 DEF UnlockEnd, WalkOK, ReadOnce, Processed, processed
<1>8. CASE Finish
  <2>1. Timed(locks')
    BY <1>1, <1>8, BoundsAssumption DEF Finish, WalkOK
  <2> QED BY <1>0, <1>8, <2>1 DEF Finish, WalkOK, ReadOnce
<1>9. CASE UNCHANGED vars
  BY <1>0, <1>9 DEF vars, WalkOK, ReadOnce, Processed
<1> QED BY <1>2, <1>3, <1>4, <1>5, <1>6, <1>7, <1>8, <1>9 DEF Next, Unlock

-----------------------------------------------------------------------------
(* The steps *)

(* The operators of the two instances of TokenLedger are the same. *)
LEMMA SameOperators ==
  ASSUME NEW C, NEW a, NEW g, NEW t, NEW v
  PROVE  /\ Ledger!Standing(C, v) = Present!Standing(C, v)
         /\ Ledger!AddClaim(C, a, g, t, v) = Present!AddClaim(C, a, g, t, v)
         /\ Ledger!Release(C, a, g, v) = Present!Release(C, a, g, v)
         /\ Ledger!Claimed(C, a, g) = Present!Claimed(C, a, g)
         /\ Ledger!Total(C) = Present!Total(C)
<1>1. \A S, f : Ledger!Sum(S, f) = Present!Sum(S, f)
  BY DEF Ledger!Sum, Present!Sum, Ledger!Units, Present!Units,
         Ledger!Cardinality, Present!Cardinality
<1>2. \A f, w, u : Ledger!UsedUp(f, w, u) = Present!UsedUp(f, w, u)
  BY <1>1 DEF Ledger!UsedUp, Present!UsedUp
<1>3. Ledger!Release(C, a, g, v) = Present!Release(C, a, g, v)
  BY <1>2 DEF Ledger!Release, Present!Release
<1>4. \A f : Ledger!Total(f) = Present!Total(f)
  BY <1>1 DEF Ledger!Total, Present!Total
<1>5. Ledger!Claimed(C, a, g) = Present!Claimed(C, a, g)
  BY <1>4 DEF Ledger!Claimed, Present!Claimed
<1> QED BY <1>3, <1>4, <1>5 DEF Ledger!Standing, Present!Standing,
                                Ledger!AddClaim, Present!AddClaim

(* With nothing under way the ledger's claims are the locks that stand. *)
LEMMA QuietClaims ==
  ASSUME NEW L, LockTable(L), NEW h
  PROVE  Present!Standing(Present!Release(ClaimsOf(L), NoUnlocking.sender,
                                          NoUnlocking.receiver, NoUnlocking.rest), h)
           = Present!Standing(ClaimsOf(L), h)
<1>1. /\ NoUnlocking.sender \in Addr /\ NoUnlocking.receiver \in Targets
      /\ NoUnlocking.rest = 0
  BY IssuerAssumption DEF NoUnlocking, Targets
<1>2. ClaimTable(ClaimsOf(L)) /\ 0 \in Nat
  BY ClaimsType
<1> QED BY <1>1, <1>2, ReleaseNothing

LEMMA LoopClaims ==
  ASSUME RefInv, pc = "loop"
  PROVE  /\ LedgerHeight = height /\ height \in Nat
         /\ unlocking = NoUnlocking /\ LockTable(locks)
         /\ LedgerClaims = Present!Standing(ClaimsOf(locks), height)
<1>1. LockTable(locks) /\ unlocking = NoUnlocking /\ height \in Nat
  BY LocksAreFinite DEF RefInv, WalkOK, TypeOK
<1> QED BY <1>1, QuietClaims DEF LedgerClaims, LedgerHeight

(* What the ledger makes of the height of the next card. *)
LEMMA ClaimsAt ==
  ASSUME RefInv, pc = "loop", NEW h \in Nat, h >= height
  PROVE  /\ Ledger!Standing(LedgerClaims, h) = Present!Standing(ClaimsOf(locks), h)
         /\ Ledger!Standing(LedgerClaims, h) = ClaimsOf(Live(h))
<1>1. /\ LockTable(locks) /\ height \in Nat /\ ClaimTable(ClaimsOf(locks))
      /\ LedgerClaims = Present!Standing(ClaimsOf(locks), height)
  BY LoopClaims, ClaimsType
<1> QED BY <1>1, SameOperators, StandingTwice, LiveClaims

(* Time passes, or nothing happens at all. *)
LEMMA TimePasses ==
  ASSUME RefInv, pc = "loop", NEW h \in Heights, h \in Nat, h >= height,
         LedgerHeight' = h, unlocking' = NoUnlocking, balances' = balances,
         locks' = locks \/ locks' = Live(h)
  PROVE  [Ledger!Next]_(Ledger!ledgerVars)
<1>1. /\ LockTable(locks) /\ height \in Nat /\ LedgerHeight = height
      /\ LedgerClaims = Present!Standing(ClaimsOf(locks), height)
      /\ ClaimTable(ClaimsOf(locks))
  BY LoopClaims, ClaimsType
<1>2. LockTable(locks')
  BY <1>1, LiveType
<1>3. LedgerClaims' = Present!Standing(ClaimsOf(locks'), h)
  BY <1>2, QuietClaims DEF LedgerClaims
<1>4. Present!Standing(ClaimsOf(locks'), h) = Present!Standing(ClaimsOf(locks), h)
  <2>1. CASE locks' = Live(h)
    BY <1>1, <2>1, LiveClaims, StandingTwice
  <2> QED BY <2>1
<1>5. LedgerClaims' = Ledger!Standing(LedgerClaims, h)
  BY <1>3, <1>4, ClaimsAt
<1>6. LedgerBalance' = LedgerBalance
  BY DEF LedgerBalance, Balance
<1>7. CASE h > height
  <2>1. Ledger!Pass(h)
    BY <1>1, <1>5, <1>6, <1>7 DEF Ledger!Pass
  <2> QED BY <2>1 DEF Ledger!Next
<1>8. CASE h = height
  BY <1>1, <1>3, <1>4, <1>6, <1>8 DEF Ledger!ledgerVars
<1> QED BY <1>1, <1>7, <1>8

(* Crediting and debiting the map of known addresses does the same to the  *)
(* ledger's total function.                                                *)
AllBalances(b) == [a \in Addr |-> Balance(b, a)]

LEMMA CreditedBalance ==
  ASSUME NEW b, Balances(b), NEW r \in Addr, NEW v \in Nat
  PROVE  AllBalances(Credit(b, r, v)) = [AllBalances(b) EXCEPT ![r] = @ + v]
<1>1. /\ Balance(Credit(b, r, v), r) = Balance(b, r) + v
      /\ \A x \in Addr \ {r} : Balance(Credit(b, r, v), x) = Balance(b, x)
  BY CreditType
<1> QED BY <1>1 DEF AllBalances

LEMMA DebitedBalance ==
  ASSUME NEW b, Balances(b), NEW s \in DOMAIN b, NEW v \in Nat, v <= b[s]
  PROVE  AllBalances(Debit(b, s, v)) = [AllBalances(b) EXCEPT ![s] = @ - v]
<1>1. /\ Balance(Debit(b, s, v), s) = Balance(b, s) - v
      /\ \A x \in Addr \ {s} : Balance(Debit(b, s, v), x) = Balance(b, x)
  BY DebitType
<1>2. s \in Addr
  BY DEF Balances
<1> QED BY <1>1, <1>2 DEF AllBalances

(* The ledger's balances are those of the map, before and after a step. *)
LEMMA LedgerBalances ==
  LedgerBalance = AllBalances(balances) /\ LedgerBalance' = AllBalances(balances')
BY DEF LedgerBalance, AllBalances

(* A covered card is one the ledger can pay. *)
LEMMA CoveredIsSpendable ==
  ASSUME RefInv, pc = "loop", NEW c \in Card, Covered(c), c.blocknum >= height
  PROVE  Ledger!Spendable(Ledger!Standing(LedgerClaims, c.blocknum), c.sender, c.receiver)
           >= c.amount
<1> DEFINE live == Live(c.blocknum)
           s == c.sender
           r == c.receiver
<1>1. c.blocknum \in Nat /\ s \in Addr /\ r \in Addr
  BY DEF Card
<1>2. LockTable(locks)
  BY LoopClaims
<1>3. LockTable(live) /\ Timed(live)
  BY <1>1, <1>2, LiveType DEF RefInv, WalkOK, Timed
<1>4. Ledger!Standing(LedgerClaims, c.blocknum) = ClaimsOf(live)
  BY <1>1, ClaimsAt
<1>5. balances[s] - Locked(live, s, r) >= c.amount /\ s \in DOMAIN balances
  BY DEF Covered
<1>6. LedgerBalance[s] = balances[s]
  BY <1>1, <1>5 DEF LedgerBalance, Balance
<1> HIDE DEF live, s, r
<1>7. Present!Total([g \in Targets \ {r} |-> Present!Claimed(ClaimsOf(live), s, g)])
        = Locked(live, s, r)
  BY <1>1, <1>3, LockedIsClaimed
<1>8. Ledger!Spendable(ClaimsOf(live), s, r) = LedgerBalance[s] - Locked(live, s, r)
  <2>1. [g \in Targets \ {r} |-> Ledger!Claimed(ClaimsOf(live), s, g)] =
          [g \in Targets \ {r} |-> Present!Claimed(ClaimsOf(live), s, g)]
    BY SameOperators
  <2>2. Ledger!Total([g \in Targets \ {r} |-> Ledger!Claimed(ClaimsOf(live), s, g)])
          = Locked(live, s, r)
    BY <1>7, <2>1, SameOperators
  <2> QED BY <2>2 DEF Ledger!Spendable
<1> QED BY <1>4, <1>5, <1>6, <1>8 DEF s, r

(* What a new card tells the ledger: its block. *)
LEMMA CardHeight ==
  ASSUME RefInv, NEW c \in Card, NextCard(c), c.cid = cards + 1, c.blocknum \in 1 .. MaxBlock
  PROVE  /\ pc = "loop" /\ c.blocknum \in Heights /\ c.blocknum \in Nat
         /\ c.blocknum >= height /\ height' = c.blocknum
         /\ c.sender \in Addr /\ c.receiver \in Addr
         /\ c.amount \in Amounts /\ c.amount \in Nat
<1>1. c.blocknum >= height
  <2>1. CASE c \in again
    <3>1. c.cid = cards
      BY <2>1 DEF RefInv, TypeOK
    <3> QED BY <3>1 DEF RefInv, TypeOK
  <2>2. CASE c \notin again
    BY <2>2 DEF NextCard
  <2> QED BY <2>1, <2>2
<1> QED BY <1>1, AmountsAssumption DEF NextCard, Heights, Card

LEMMA IssueSimulated ==
  ASSUME RefInv, NEW c \in Card, Issue(c), c.cid = cards + 1, c.blocknum \in 1 .. MaxBlock
  PROVE  Ledger!Next
<1> DEFINE h == c.blocknum
           r == c.receiver
           v == c.amount
<1>1. /\ pc = "loop" /\ h \in Heights /\ h \in Nat /\ h >= height /\ height' = h
      /\ r \in Addr /\ v \in Amounts /\ v \in Nat
  BY CardHeight DEF Issue
<1>2. /\ balances' = Credit(balances, r, v) /\ locks' = locks
      /\ pc' = "loop" /\ unlocking' = unlocking
  BY <1>1 DEF Issue
<1> HIDE DEF h, r, v
<1>3. /\ LockTable(locks) /\ height \in Nat /\ LedgerHeight = height
      /\ unlocking = NoUnlocking
  BY <1>1, LoopClaims
<1>4. Balances(balances)
  BY LocksAreFinite DEF RefInv
<1>5. LedgerBalance' = [LedgerBalance EXCEPT ![r] = @ + v]
  BY <1>1, <1>2, <1>4, CreditedBalance, LedgerBalances
<1>6. LedgerHeight' = h
  BY <1>1, <1>2 DEF LedgerHeight
<1>7. LedgerClaims' = Present!Standing(ClaimsOf(locks), h)
  BY <1>2, <1>3, <1>6, QuietClaims DEF LedgerClaims
<1>8. LedgerClaims' = Ledger!Standing(LedgerClaims, h)
  BY <1>1, <1>7, ClaimsAt
<1>9. Ledger!Issue(r, v, h)
  BY <1>1, <1>3, <1>5, <1>6, <1>8 DEF Ledger!Issue
<1> QED BY <1>1, <1>9 DEF Ledger!Next

LEMMA BurnSimulated ==
  ASSUME RefInv, NEW c \in Card, Burn(c), c.cid = cards + 1, c.blocknum \in 1 .. MaxBlock
  PROVE  Ledger!Next
<1> DEFINE h == c.blocknum
           s == c.sender
           r == c.receiver
           v == c.amount
<1>1. /\ pc = "loop" /\ h \in Heights /\ h \in Nat /\ h >= height /\ height' = h
      /\ s \in Addr /\ r \in Addr /\ v \in Amounts /\ v \in Nat
  BY CardHeight DEF Burn
<1>2. /\ balances' = Debit(balances, s, v) /\ locks' = Live(h)
      /\ pc' = "loop" /\ unlocking' = unlocking
  BY <1>1 DEF Burn
<1>3. s \in DOMAIN balances /\ v <= balances[s]
  BY CoveredType DEF Burn, RefInv
<1>4. Ledger!Spendable(Ledger!Standing(LedgerClaims, h), s, r) >= v
  BY <1>1, CoveredIsSpendable DEF Burn
<1> HIDE DEF h, s, r, v
<1>5. /\ LockTable(locks) /\ height \in Nat /\ LedgerHeight = height
      /\ unlocking = NoUnlocking /\ ClaimTable(ClaimsOf(locks))
  BY <1>1, LoopClaims, ClaimsType
<1>6. Balances(balances) /\ LockTable(Live(h))
  BY <1>1, <1>5, LocksAreFinite, LiveType DEF RefInv
<1>7. LedgerBalance' = [LedgerBalance EXCEPT ![s] = @ - v]
  BY <1>1, <1>2, <1>3, <1>6, DebitedBalance, LedgerBalances
<1>8. LedgerHeight' = h
  BY <1>1, <1>2 DEF LedgerHeight
<1>9. LedgerClaims' = Present!Standing(ClaimsOf(Live(h)), h)
  BY <1>2, <1>5, <1>6, <1>8, QuietClaims DEF LedgerClaims
<1>10. Present!Standing(ClaimsOf(Live(h)), h) = Present!Standing(ClaimsOf(locks), h)
  BY <1>1, <1>5, LiveClaims, StandingTwice
<1>11. LedgerClaims' = Ledger!Standing(LedgerClaims, h)
  BY <1>1, <1>9, <1>10, ClaimsAt
<1>12. Ledger!Burn(s, r, v, h)
  BY <1>1, <1>4, <1>5, <1>7, <1>8, <1>11 DEF Ledger!Burn
<1> QED BY <1>1, <1>12 DEF Ledger!Next

(* Nothing is claimed from a holder without locks. *)
LEMMA NoLockNoClaim ==
  ASSUME NEW L, NEW s \in Addr, NEW g \in Targets, NEW t \in LockTimes,
         \A n \in DOMAIN L : ~At(L[n], s, g, t)
  PROVE  ClaimsOf(L)[s][g][t] = 0
<1>1. LockedFor(L, s, g, t) = {}
  BY DEF LockedFor, At
<1>2. ClaimsOf(L)[s][g][t] = Sum(LockedFor(L, s, g, t), LockAmounts(L))
  BY DEF ClaimsOf
<1> QED BY <1>1, <1>2, SumEmpty

LEMMA TransferSimulated ==
  ASSUME RefInv, NEW c \in Card, Transfer(c), c.cid = cards + 1,
         c.blocknum \in 1 .. MaxBlock
  PROVE  Ledger!Next
<1> DEFINE h == c.blocknum
           s == c.sender
           r == c.receiver
           v == c.amount
           C == Ledger!Standing(LedgerClaims, h)
           D == ClaimsOf(locks')
<1>1. /\ pc = "loop" /\ h \in Heights /\ h \in Nat /\ h >= height /\ height' = h
      /\ s \in Addr /\ r \in Addr /\ v \in Amounts /\ v \in Nat
  BY CardHeight DEF Transfer
<1>2. s \in DOMAIN balances /\ v <= balances[s]
  BY CoveredType DEF Transfer, RefInv
<1>3. Ledger!Spendable(C, s, r) >= v
  BY <1>1, CoveredIsSpendable DEF Transfer
<1>4. /\ LockTable(locks) /\ height \in Nat /\ LedgerHeight = height
      /\ unlocking = NoUnlocking
  BY <1>1, LoopClaims
<1>5. /\ Balances(balances) /\ LockTable(Live(h)) /\ DOMAIN Live(h) \subseteq DOMAIN locks
  BY <1>1, <1>4, LocksAreFinite, LiveType DEF RefInv
<1>6. C = ClaimsOf(Live(h))
  BY <1>1, ClaimsAt
<1>7. LedgerBalance' = [[LedgerBalance EXCEPT ![s] = @ - v] EXCEPT ![r] = @ + v]
  <2>1. balances' = Credit(Debit(balances, s, v), r, v)
    BY DEF Transfer
  <2> HIDE DEF s, r, v
  <2>2. Balances(Debit(balances, s, v))
    BY <1>1, <1>2, <1>5, DebitType
  <2>3. AllBalances(Debit(balances, s, v)) = [AllBalances(balances) EXCEPT ![s] = @ - v]
    BY <1>1, <1>2, <1>5, DebitedBalance
  <2>4. AllBalances(Credit(Debit(balances, s, v), r, v)) =
          [AllBalances(Debit(balances, s, v)) EXCEPT ![r] = @ + v]
    BY <1>1, <2>2, CreditedBalance
  <2> QED BY <2>1, <2>3, <2>4, LedgerBalances
<1>8. /\ LockTable(locks')
      /\ D \in {C} \cup {Ledger!AddClaim(C, r, g, t, v) : g \in Targets, t \in LockTimes}
  <2>1. CASE c.lock.locktime = 0
    <3>1. locks' = Live(h)
      BY <2>1 DEF Transfer
    <3> QED BY <1>5, <1>6, <3>1
  <2>2. CASE c.lock.locktime # 0
    <3>1. locks' = [n \in DOMAIN Live(h) \cup {c.cid} |->
                      IF n = c.cid THEN Lock(c) ELSE Live(h)[n]]
      BY <2>2 DEF Transfer
    <3>2. c.cid \notin DOMAIN Live(h)
      <4>1. DOMAIN locks \subseteq 1 .. cards /\ cards \in Nat
        BY DEF RefInv, TypeOK
      <4> QED BY <1>5, <4>1
    <3>3. /\ Lock(c) \in Locks /\ Lock(c).locktime \in LockTimes
          /\ Lock(c).holder = r /\ Lock(c).amount = v
      BY <2>2, LockType DEF Lock, Card, LockFields, NoLock
    <3> DEFINE L == Live(h)
               k == c.cid
               l == Lock(c)
               K == [n \in DOMAIN L \cup {k} |-> IF n = k THEN l ELSE L[n]]
    <3>4. locks' = K /\ LockTable(L) /\ k \notin DOMAIN L /\ C = ClaimsOf(L)
          /\ l \in Locks /\ l.locktime \in LockTimes /\ l.holder = r /\ l.amount = v
      BY <1>5, <1>6, <3>1, <3>2, <3>3
    <3> HIDE DEF L, k, l, C, r, v
    <3>5. /\ LockTable(K)
          /\ ClaimsOf(K) = IF l.lockhash_type \in 0 .. 5
                           THEN Present!AddClaim(C, r, LockAddress(l), l.locktime, v)
                           ELSE C
      BY <3>4, AddedClaims
    <3>6. LockAddress(l) \in Targets
      BY <3>4, LockAddressType
    <3>7. Present!AddClaim(C, r, LockAddress(l), l.locktime, v) =
            Ledger!AddClaim(C, r, LockAddress(l), l.locktime, v)
      BY SameOperators
    <3> HIDE DEF K
    <3> QED BY <3>4, <3>5, <3>6, <3>7
  <2> QED BY <2>1, <2>2
<1>9. LedgerClaims' = Ledger!Standing(Ledger!Release(D, s, r, v), h) /\ LedgerHeight' = h
  <2>1. CASE \E n \in DOMAIN locks' : locks'[n].holder = s
    <3>1. /\ pc' = "unlock"
          /\ unlocking' = [sender |-> s, receiver |-> r, rest |-> v]
      BY <2>1 DEF Transfer
    <3>2. LedgerHeight' = h
      BY <1>1, <3>1 DEF LedgerHeight
    <3>3. LedgerClaims' = Present!Standing(Present!Release(D, s, r, v), h)
      BY <3>1, <3>2 DEF LedgerClaims
    <3> QED BY <3>2, <3>3, SameOperators
  <2>2. CASE ~\E n \in DOMAIN locks' : locks'[n].holder = s
    <3>1. pc' = pc /\ unlocking' = unlocking
      BY <2>2 DEF Transfer
    <3>2. LedgerHeight' = h
      BY <1>1, <3>1 DEF LedgerHeight
    <3>3. LedgerClaims' = Present!Standing(D, h)
      BY <1>4, <1>8, <3>1, <3>2, QuietClaims DEF LedgerClaims
    <3>4. r \in Targets
      BY <1>1 DEF Targets
    <3>5. \A t \in LockTimes : D[s][r][t] = 0
      BY <1>1, <2>2, <3>4, NoLockNoClaim DEF At
    <3>6. ClaimTable(D)
      BY <1>8, ClaimsType
    <3> HIDE DEF D, s, r, v, h
    <3>7. Present!Release(D, s, r, v) = D
      BY <1>1, <3>4, <3>5, <3>6, ReleaseNothing
    <3>8. Ledger!Standing(Ledger!Release(D, s, r, v), h) = Present!Standing(D, h)
      BY <3>7, SameOperators
    <3> QED BY <3>2, <3>3, <3>8
  <2> QED BY <2>1, <2>2
<1> HIDE DEF h, s, r, v, D
<1>10. Ledger!Pay(s, r, v, h)
  BY <1>1, <1>3, <1>4, <1>7, <1>8, <1>9 DEF Ledger!Pay
<1> QED BY <1>1, <1>10 DEF Ledger!Next

(* A table that lacks w of the claims of s for r that end first, and a     *)
(* release that is less by w.                                              *)
LEMMA ReleaseTwice ==
  ASSUME NEW C, ClaimTable(C), NEW D, ClaimTable(D),
         NEW s \in Addr, NEW r \in Targets, NEW x \in LockTimes,
         NEW v \in Nat, NEW w \in Nat, w <= v, w <= C[s][r][x],
         D[s][r][x] = C[s][r][x] - w,
         \A a \in Addr, g \in Targets, t \in LockTimes :
           ~(a = s /\ g = r /\ t = x) => D[a][g][t] = C[a][g][t],
         \A t \in LockTimes : t < x => C[s][r][t] = 0
  PROVE  Present!Release(C, s, r, v) = Present!Release(D, s, r, v - w)
<1> DEFINE z == v - w
           f == C[s][r]
           e == D[s][r]
           R == Present!Release(C, s, r, v)
           Q == Present!Release(D, s, r, z)
<1>1. z \in Nat
  OBVIOUS
<1>2. ClaimRow(f) /\ ClaimRow(e)
  BY DEF ClaimTable, ClaimRow
<1> HIDE DEF z
<1>3. /\ ClaimTable(R)
      /\ \A a \in Addr, g \in Targets, t \in LockTimes :
           R[a][g][t] = IF a = s /\ g = r THEN C[s][r][t] - Present!UsedUp(C[s][r], v, t)
                        ELSE C[a][g][t]
  BY ReleaseType
<1>4. /\ ClaimTable(Q)
      /\ \A a \in Addr, g \in Targets, t \in LockTimes :
           Q[a][g][t] = IF a = s /\ g = r THEN D[s][r][t] - Present!UsedUp(D[s][r], z, t)
                        ELSE D[a][g][t]
  BY <1>1, ReleaseType
<1>5. /\ w <= f[x] /\ \A t \in LockTimes : t < x => f[t] = 0
      /\ e[x] = f[x] - w /\ \A t \in LockTimes \ {x} : e[t] = f[t]
  OBVIOUS
<1>6. ASSUME NEW t \in LockTimes
      PROVE  f[t] - Present!UsedUp(f, v, t) = e[t] - Present!UsedUp(e, v - w, t)
  <2> HIDE DEF e, f
  <2> QED BY <1>2, <1>5, ReleaseInParts
<1> HIDE DEF R, Q
<1>7. ASSUME NEW a \in Addr, NEW g \in Targets, NEW t \in LockTimes
      PROVE  R[a][g][t] = Q[a][g][t]
  <2>1. CASE a = s /\ g = r
    BY <1>3, <1>4, <1>6, <2>1 DEF z
  <2>2. CASE ~(a = s /\ g = r)
    BY <1>3, <1>4, <2>2
  <2> QED BY <2>1, <2>2
<1>8. R = Q
  BY <1>3, <1>4, <1>7, SameClaims
<1> QED BY <1>8 DEF R, Q, z

(* A lock from the sender to the receiver of the transfer is a stop of the *)
(* loop.                                                                   *)
LEMMA ClaimStops ==
  ASSUME RefInv, NEW n \in DOMAIN locks, NEW t,
         At(locks[n], unlocking.sender, unlocking.receiver, t)
  PROVE  n \in Stops /\ locks[n].locktime = t
<1>1. unlocking.receiver # NoAddress
  BY IssuerAssumption DEF RefInv, TypeOK
<1> QED BY <1>1 DEF At, Stops, Matches, AddressLock, LockAddress

(* One turn of the loop releases w of the rest, and the ledger does not    *)
(* notice: the first lock in the loop's order is the claim that ends first.*)
LEMMA LoopReleases ==
  ASSUME RefInv, pc = "unlock",
         NEW n \in DOMAIN locks, IsFirst(n), ~Unsupported(locks[n]),
         NEW w \in Nat, w <= locks[n].amount, w <= unlocking.rest,
         NEW K,
         \/ K = [m \in DOMAIN locks \ {n} |-> locks[m]] /\ w = locks[n].amount
         \/ K = [locks EXCEPT ![n].amount = @ - w]
  PROVE  /\ LockTable(K)
         /\ Present!Release(ClaimsOf(locks), unlocking.sender, unlocking.receiver,
                            unlocking.rest)
              = Present!Release(ClaimsOf(K), unlocking.sender, unlocking.receiver,
                                unlocking.rest - w)
<1> DEFINE s == unlocking.sender
           r == unlocking.receiver
           v == unlocking.rest
           x == locks[n].locktime
           C == ClaimsOf(locks)
           D == ClaimsOf(K)
<1>1. /\ LockTable(locks) /\ s \in Addr /\ r \in Addr /\ r \in Targets /\ v \in Nat
      /\ x \in LockTimes
  BY LocksAreFinite DEF RefInv, TypeOK, WalkOK, Timed, Targets
<1>2. At(locks[n], s, r, x)
  BY <1>1 DEF IsFirst, Stops, Matches, AddressLock, At
<1>3. ASSUME NEW a \in Addr, NEW g \in Targets, NEW t \in LockTimes
      PROVE  /\ LockTable(K)
             /\ At(locks[n], a, g, t) => w <= C[a][g][t] /\ D[a][g][t] = C[a][g][t] - w
             /\ ~At(locks[n], a, g, t) => D[a][g][t] = C[a][g][t]
  BY <1>1, LoweredClaims
<1>4. LockTable(K)
  BY <1>1, <1>3
<1>5. ClaimTable(C) /\ ClaimTable(D)
  BY <1>1, <1>4, ClaimsType
<1>6. \A t \in LockTimes : t < x => C[s][r][t] = 0
  <2> SUFFICES ASSUME NEW t \in LockTimes, t < x PROVE C[s][r][t] = 0
    OBVIOUS
  <2>1. ASSUME NEW m \in DOMAIN locks, At(locks[m], s, r, t) PROVE FALSE
    <3>1. m \in Stops /\ locks[m].locktime = t
      BY <2>1, ClaimStops
    <3>2. x <= t
      BY <3>1, <1>1, LocksAssumption DEF IsFirst, Before
    <3> QED BY <3>2, <1>1, LocksAssumption
  <2> QED BY <1>1, <2>1, NoLockNoClaim
<1>7. \A a \in Addr, g \in Targets, t \in LockTimes :
        At(locks[n], a, g, t) <=> a = s /\ g = r /\ t = x
  BY <1>2 DEF At
<1> HIDE DEF s, r, v, x, C, D
<1>8. w <= C[s][r][x] /\ D[s][r][x] = C[s][r][x] - w
  BY <1>1, <1>2, <1>3
<1>9. \A a \in Addr, g \in Targets, t \in LockTimes :
        ~(a = s /\ g = r /\ t = x) => D[a][g][t] = C[a][g][t]
  BY <1>3, <1>7
<1>10. w <= v
  BY DEF v
<1>11. Present!Release(C, s, r, v) = Present!Release(D, s, r, v - w)
  BY <1>1, <1>5, <1>6, <1>8, <1>9, <1>10, ReleaseTwice
<1> QED BY <1>4, <1>11 DEF s, r, v, C, D

LEMMA UnlockSimulated ==
  ASSUME RefInv, Unlock
  PROVE  UNCHANGED Ledger!ledgerVars
<1> DEFINE s == unlocking.sender
           r == unlocking.receiver
           rest == unlocking.rest
<1>1. /\ pc = "unlock" /\ balances' = balances /\ height' = height
      /\ pc' \in {"unlock", "raised", "loop"}
  BY DEF Unlock, UnlockRaises, UnlockWhole, UnlockPart, UnlockEnd
<1>2. /\ LedgerHeight = height /\ LedgerHeight' = height
      /\ LedgerBalance' = LedgerBalance
  BY <1>1 DEF LedgerHeight, LedgerBalance, Balance
<1>3. /\ LockTable(locks) /\ s \in Addr /\ r \in Targets /\ rest \in Nat
      /\ ClaimTable(ClaimsOf(locks))
  BY LocksAreFinite, ClaimsType DEF RefInv, TypeOK, Targets
<1>4. CASE UnlockRaises
  <2>1. locks' = locks /\ unlocking' = unlocking
    BY <1>4 DEF UnlockRaises
  <2> QED BY <1>2, <2>1 DEF Ledger!ledgerVars, LedgerClaims
<1>5. CASE UnlockWhole
  <2>1. PICK n \in DOMAIN locks :
          /\ IsFirst(n) /\ ~Unsupported(locks[n])
          /\ rest > locks[n].amount
          /\ locks' = Without(n)
          /\ unlocking' = [unlocking EXCEPT !.rest = @ - locks[n].amount]
    BY <1>5 DEF UnlockWhole
  <2>2. locks[n].amount \in Nat /\ locks[n].amount <= rest
    BY <1>3, <2>1 DEF LockTable, Locks
  <2>3. Present!Release(ClaimsOf(locks), s, r, rest) =
          Present!Release(ClaimsOf(locks'), s, r, rest - locks[n].amount)
    <3>1. locks' = [m \in DOMAIN locks \ {n} |-> locks[m]]
      BY <2>1 DEF Without
    <3> QED BY <1>1, <2>1, <2>2, <3>1, LoopReleases
  <2>4. /\ unlocking'.sender = s /\ unlocking'.receiver = r
        /\ unlocking'.rest = rest - locks[n].amount
    BY <2>1 DEF RefInv, TypeOK
  <2> QED BY <1>2, <2>3, <2>4 DEF Ledger!ledgerVars, LedgerClaims
<1>6. CASE UnlockPart
  <2>1. PICK n \in DOMAIN locks :
          /\ IsFirst(n) /\ ~Unsupported(locks[n])
          /\ rest <= locks[n].amount
          /\ locks' = IF locks[n].amount > rest
                      THEN [locks EXCEPT ![n].amount = @ - rest]
                      ELSE Without(n)
    BY <1>6 DEF UnlockPart
  <2>2. locks[n].amount \in Nat
    BY <1>3, <2>1 DEF LockTable, Locks
  <2>3. \/ locks' = [m \in DOMAIN locks \ {n} |-> locks[m]] /\ rest = locks[n].amount
        \/ locks' = [locks EXCEPT ![n].amount = @ - rest]
    BY <1>3, <2>1, <2>2 DEF Without
  <2>4. /\ LockTable(locks')
        /\ Present!Release(ClaimsOf(locks), s, r, rest) =
             Present!Release(ClaimsOf(locks'), s, r, rest - rest)
    BY <1>1, <1>3, <2>1, <2>3, LoopReleases
  <2>5. Present!Release(ClaimsOf(locks), s, r, rest) = ClaimsOf(locks')
    <3>1. rest - rest = 0
      BY <1>3
    <3>2. ClaimTable(ClaimsOf(locks'))
      BY <2>4, ClaimsType
    <3> QED BY <1>3, <2>4, <3>1, <3>2, ReleaseNothing
  <2>6. unlocking' = NoUnlocking
    BY <1>6 DEF UnlockPart
  <2>7. LedgerClaims' = Present!Standing(ClaimsOf(locks'), height)
    BY <1>2, <2>4, <2>6, QuietClaims DEF LedgerClaims
  <2>8. LedgerClaims = Present!Standing(ClaimsOf(locks'), height)
    BY <1>2, <2>5 DEF LedgerClaims
  <2> QED BY <1>2, <2>7, <2>8 DEF Ledger!ledgerVars
<1>7. CASE UnlockEnd
  <2>1. Stops = {} /\ locks' = locks /\ unlocking' = NoUnlocking
    BY <1>7 DEF UnlockEnd
  <2>2. \A t \in LockTimes : ClaimsOf(locks)[s][r][t] = 0
    BY <1>3, <2>1, ClaimStops, NoLockNoClaim
  <2>3. Present!Release(ClaimsOf(locks), s, r, rest) = ClaimsOf(locks)
    BY <1>3, <2>2, ReleaseNothing
  <2>4. LedgerClaims' = Present!Standing(ClaimsOf(locks), height)
    BY <1>2, <1>3, <2>1, QuietClaims DEF LedgerClaims
  <2>5. LedgerClaims = Present!Standing(ClaimsOf(locks), height)
    BY <1>2, <2>3 DEF LedgerClaims
  <2> QED BY <1>2, <2>4, <2>5 DEF Ledger!ledgerVars
<1> QED BY <1>4, <1>5, <1>6, <1>7 DEF Unlock

LEMMA StepSimulated ==
  ASSUME RefInv, [Next]_vars
  PROVE  [Ledger!Next]_(Ledger!ledgerVars)
<1>1. CASE Reread
  <2>1. PICK c \in again : Step(c)
    BY <1>1 DEF Reread
  <2>2. Skip(c) /\ height' = height
    BY <2>1, RereadSkips
  <2>3. UNCHANGED <<balances, locks, unlocking, pc, height>>
    BY <2>2 DEF Skip
  <2> QED BY <2>3 DEF Ledger!ledgerVars, LedgerBalance, LedgerClaims, LedgerHeight, Balance
<1>2. CASE ReadNew
  <2>1. PICK c \in Card : /\ Step(c) /\ c.blocknum \in 1 .. MaxBlock /\ c.cid = cards + 1
                         /\ again = {} /\ pc = "loop"
    BY <1>2, ReadsNew
  <2>2. CASE Issue(c)
    BY <2>1, <2>2, IssueSimulated
  <2>3. CASE Burn(c)
    BY <2>1, <2>3, BurnSimulated
  <2>4. CASE Transfer(c)
    BY <2>1, <2>4, TransferSimulated
  <2>5. CASE Skip(c) \/ Reject(c) \/ Raise(c)
    <3>1. /\ NextCard(c) /\ balances' = balances /\ unlocking' = unlocking
          /\ locks' = locks \/ locks' = Live(c.blocknum)
          /\ pc' \in {pc, "raised"}
      BY <2>5 DEF Skip, Reject, Raise
    <3>2. /\ c.blocknum \in Heights /\ c.blocknum \in Nat /\ c.blocknum >= height
          /\ height' = c.blocknum
      BY <2>1, <3>1, CardHeight
    <3>3. LedgerHeight' = c.blocknum
      BY <2>1, <3>1, <3>2 DEF LedgerHeight
    <3>4. unlocking' = NoUnlocking
      BY <2>1, <3>1, LoopClaims
    <3> QED BY <2>1, <3>1, <3>2, <3>3, <3>4, TimePasses
  <2> QED BY <2>1, <2>2, <2>3, <2>4, <2>5 DEF Step
<1>3. CASE Unlock
  BY <1>3, UnlockSimulated
<1>4. CASE Finish
  <2>1. /\ pc = "loop" /\ pc' = "done" /\ height' = height /\ balances' = balances
        /\ unlocking' = unlocking
        /\ locks' = IF CleanupHeight = 0 THEN locks ELSE Live(CleanupHeight)
    BY <1>4 DEF Finish
  <2>2. /\ height \in Nat /\ LedgerHeight = height /\ unlocking = NoUnlocking
        /\ CleanupHeight \in Nat
        /\ CleanupHeight # 0 => height <= CleanupHeight
    BY <2>1, LoopClaims, BoundsAssumption DEF RefInv, WalkOK
  <2>3. CASE CleanupHeight = 0
    <3>1. LedgerHeight' = height /\ locks' = locks
      BY <2>1, <2>2, <2>3 DEF LedgerHeight
    <3> QED BY <2>1, <2>2, <3>1
            DEF Ledger!ledgerVars, LedgerBalance, LedgerClaims, Balance
  <2>4. CASE CleanupHeight # 0
    <3>1. LedgerHeight' = CleanupHeight /\ CleanupHeight >= height
      BY <2>1, <2>2, <2>4 DEF LedgerHeight
    <3>2. CleanupHeight \in Heights
      BY DEF Heights
    <3> QED BY <2>1, <2>2, <2>4, <3>1, <3>2, TimePasses
  <2> QED BY <2>3, <2>4
<1>5. CASE UNCHANGED vars
  BY <1>5 DEF vars, Ledger!ledgerVars, LedgerBalance, LedgerClaims, LedgerHeight, Balance
<1> QED BY <1>1, <1>2, <1>3, <1>4, <1>5 DEF Next

LEMMA InitSimulated ==
  ASSUME Init
  PROVE  RefInv /\ Ledger!Init
<1>1. /\ pc = "loop" /\ DOMAIN locks = {} /\ DOMAIN balances = {} /\ height = 0
      /\ unlocking = NoUnlocking /\ again = {}
  BY DEF Init
<1>2. RefInv
  BY <1>1, InitType, BoundsAssumption DEF RefInv, ReadOnce, WalkOK, Timed
<1>3. LedgerHeight = 0 /\ LedgerBalance = [a \in Addr |-> 0]
  BY <1>1 DEF LedgerHeight, LedgerBalance, Balance
<1>4. LockTable(locks) /\ LedgerClaims = Present!Standing(ClaimsOf(locks), 0)
  BY <1>1, <1>2, LoopClaims
<1>5. \A a \in Addr, g \in Targets, t \in LockTimes : ClaimsOf(locks)[a][g][t] = 0
  BY <1>1, NoLockNoClaim
<1>6. /\ ClaimTable(LedgerClaims)
      /\ \A a \in Addr, g \in Targets, t \in LockTimes : LedgerClaims[a][g][t] = 0
  BY <1>4, <1>5, ClaimsType, StandingType
<1>7. ClaimTable(Ledger!NoClaims)
      /\ \A a \in Addr, g \in Targets, t \in LockTimes : Ledger!NoClaims[a][g][t] = 0
  BY DEF Ledger!NoClaims, ClaimTable
<1>8. LedgerClaims = Ledger!NoClaims
  BY <1>6, <1>7, SameClaims
<1> QED BY <1>2, <1>3, <1>8 DEF Ledger!Init

(* DeckState implements TokenLedger: whatever cards, locks and cleanup     *)
(* height, the sorted walk with its lazy removal of expired locks and the  *)
(* loop of _unlock_amount gives the balances and claims an account ledger  *)
(* gives at once (calc_state, _process, _check_locks, _add_lock,           *)
(* _unlock_amount and _cleanup_locks of protocol.py).                      *)
THEOREM DeckStateImplementsLedger == Spec => ImplementsTokenLedger
<1>1. Init => RefInv /\ Ledger!Init
  BY InitSimulated
<1>2. RefInv /\ [Next]_vars => RefInv'
  BY WalkStep
<1>3. RefInv /\ [Next]_vars => [Ledger!Next]_(Ledger!ledgerVars)
  BY StepSimulated
<1> QED BY <1>1, <1>2, <1>3, PTL DEF Spec, ImplementsTokenLedger, Ledger!Spec

=============================================================================
