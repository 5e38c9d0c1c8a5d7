-------------------------- MODULE DonationsProofs ---------------------------
(***************************************************************************)
(* Proofs about Donations for all values of its constants: no slot and no  *)
(* reward exceeds what is requested, a donor has one DonationState in each *)
(* phase, and reserve transactions are served first.                       *)
(***************************************************************************)
EXTENDS Donations, CollectionsTheorems

(* The positions, amounts and reserved amounts of a list of transactions.  *)
LEMMA ChainType ==
  ASSUME chain \in Seq(Tx)
  PROVE  /\ \A n \in DOMAIN chain : n \in Nat \ {0} /\ n <= Len(chain) /\ chain[n] \in Tx
         /\ \A S \in SUBSET DOMAIN chain :
              /\ Numbers(S, [n \in S |-> chain[n].amount])
              /\ Numbers(S, [n \in S |-> chain[n].reserved])
<1>1. \A n \in DOMAIN chain : n \in Nat \ {0} /\ n <= Len(chain) /\ chain[n] \in Tx
  OBVIOUS
<1>2. \A n \in DOMAIN chain : chain[n].amount \in Nat /\ chain[n].reserved \in Nat
  BY <1>1 DEF Tx
<1>3. IsFiniteSet(DOMAIN chain)
  <2>1. Len(chain) \in Nat /\ DOMAIN chain = 1 .. Len(chain)
    OBVIOUS
  <2> QED BY <2>1, FS_Interval
<1>4. \A S \in SUBSET DOMAIN chain : IsFiniteSet(S)
  BY <1>3, FS_Subset
<1> QED BY <1>1, <1>2, <1>4 DEF Numbers

-----------------------------------------------------------------------------
(* Slots *)

LEMMA Division ==
  ASSUME NEW a \in Nat, NEW b \in Nat \ {0}
  PROVE  a \div b \in Nat /\ b * (a \div b) <= a /\ a < b * (a \div b) + b
OBVIOUS

(* A share is never more than what it is asked for, nor than its part of   *)
(* what is available; with enough for all it is at most one unit short.    *)
LEMMA RawSlotBounds ==
  ASSUME NEW t \in Nat, NEW av \in Nat, NEW T \in Nat \ {0}
  PROVE  /\ RawSlot(t, av, T) \in Nat
         /\ RawSlot(t, av, T) <= t
         /\ T * RawSlot(t, av, T) <= av * t
         /\ av >= T => RawSlot(t, av, T) >= t - 1
<1> DEFINE q == (av * t) \div T
           loss == IF <<t, T, av>> \in Lossy THEN 1 ELSE 0
           share == q - loss
<1>1. av * t \in Nat
  OBVIOUS
<1>2. q \in Nat /\ T * q <= av * t /\ av * t < T * q + T
  BY <1>1, Division
<1>3. loss = 1 => av * t >= T
  <2>1. ASSUME <<t, T, av>> \in Lossy
        PROVE  av * t >= T
    <3>1. t * av >= T
      BY <2>1, LossyAssumption
    <3> QED BY <3>1
  <2> QED BY <2>1
<1>4. loss = 1 => q >= 1
  <2>1. ASSUME q = 0
        PROVE  av * t < T
    BY <1>2, <2>1
  <2> QED BY <1>1, <1>2, <1>3, <2>1
<1>5. share \in Nat /\ share <= q
  BY <1>2, <1>4
<1>6. T * share <= T * q
  <2> HIDE DEF share, q
  <2> QED BY <1>2, <1>5
<1>7. ASSUME av >= T
      PROVE  q >= t
  <2>1. av * t >= T * t
    BY <1>7
  <2>2. ASSUME q < t
        PROVE  FALSE
    <3>1. q + 1 <= t
      BY <1>2, <2>2
    <3>2. T * (q + 1) <= T * t
      <4> HIDE DEF q
      <4> QED BY <1>2, <3>1
    <3>3. T * (q + 1) = T * q + T
      <4> HIDE DEF q
      <4> QED BY <1>2
    <3> QED BY <1>1, <1>2, <2>1, <3>2, <3>3
  <2> QED BY <1>2, <2>2
<1>8. RawSlot(t, av, T) = IF t < share THEN t ELSE share
  BY DEF RawSlot
<1>9. T * RawSlot(t, av, T) <= T * share
  <2> HIDE DEF share
  <2> QED BY <1>5, <1>8
<1>10. T * RawSlot(t, av, T) <= av * t
  <2>1. RawSlot(t, av, T) \in Nat
    BY <1>5, <1>8
  <2> HIDE DEF share, q
  <2> QED BY <1>1, <1>2, <1>5, <1>6, <1>9, <2>1
<1>11. av >= T => RawSlot(t, av, T) >= t - 1
  BY <1>2, <1>5, <1>7, <1>8
<1> QED BY <1>5, <1>8, <1>10, <1>11

(* All shares together are not more than what is available, nor than what  *)
(* is asked for.                                                           *)
LEMMA SharesFit ==
  ASSUME NEW S, NEW f, Numbers(S, f), \A x \in S : f[x] > 0,
         NEW av \in Nat, NEW g, \A x \in S : g[x] = RawSlot(f[x], av, Sum(S, f))
  PROVE  /\ Numbers(S, g)
         /\ Sum(S, g) <= av
         /\ Sum(S, g) <= Sum(S, f)
<1> DEFINE T == Sum(S, f)
<1>1. CASE S = {}
  BY <1>1, SumEmpty DEF Numbers
<1>2. CASE S # {}
  <2>1. T \in Nat \ {0}
    <3>1. T \in Nat
      BY SumType
    <3>2. PICK x \in S : TRUE
      BY <1>2
    <3>3. f[x] <= T /\ f[x] \in Nat
      BY SumMember DEF Numbers
    <3> QED BY <3>1, <3>3
  <2>2. \A x \in S : f[x] \in Nat
    BY DEF Numbers
  <2>3. \A x \in S : /\ g[x] \in Nat
                     /\ g[x] <= f[x]
                     /\ T * g[x] <= av * f[x]
    <3> HIDE DEF T
    <3> SUFFICES ASSUME NEW x \in S
                 PROVE  /\ g[x] \in Nat
                        /\ g[x] <= f[x]
                        /\ T * g[x] <= av * f[x]
      OBVIOUS
    <3>1. g[x] = RawSlot(f[x], av, T) /\ f[x] \in Nat
      BY <2>2 DEF T
    <3> QED BY <2>1, <3>1, RawSlotBounds
  <2>4. Numbers(S, g)
    BY <2>3 DEF Numbers
  <2> DEFINE h == [x \in S |-> T * g[x]]
             e == [x \in S |-> av * f[x]]
  <2>5. Sum(S, h) = T * Sum(S, g)
    <3>1. \A x \in S : h[x] = T * g[x]
      OBVIOUS
    <3> HIDE DEF h, T
    <3> QED BY <2>1, <2>4, <3>1, SumScaled
  <2>6. Sum(S, e) = av * T
    <3>1. \A x \in S : e[x] = av * f[x]
      OBVIOUS
    <3> HIDE DEF e
    <3> QED BY <3>1, SumScaled
  <2>7. Numbers(S, h) /\ Numbers(S, e) /\ \A x \in S : h[x] <= e[x]
    <3> HIDE DEF T
    <3>1. \A x \in S : T * g[x] \in Nat /\ av * f[x] \in Nat
      BY <2>1, <2>2, <2>3
    <3> QED BY <2>3, <3>1 DEF Numbers
  <2>8. Sum(S, h) <= Sum(S, e)
    <3> HIDE DEF h, e
    <3> QED BY <2>7, SumMonotone
  <2>9. Sum(S, g) \in Nat
    BY <2>4, SumType
  <2>10. Sum(S, g) <= av
    <3> DEFINE G == Sum(S, g)
    <3> HIDE DEF T, G
    <3>1. T * G <= av * T
      BY <2>5, <2>6, <2>8 DEF G
    <3>2. ASSUME G > av
          PROVE  FALSE
      <4>1. T * G >= T * (av + 1) /\ T * (av + 1) = av * T + T
        BY <2>1, <2>9, <3>2 DEF G
      <4>2. av * T \in Nat /\ T * G \in Nat /\ T * (av + 1) \in Nat
        BY <2>1, <2>9 DEF G
      <4> QED BY <2>1, <3>1, <4>1, <4>2
    <3> QED BY <2>9, <3>2 DEF G
  <2> QED BY <2>3, <2>4, <2>10, SumMonotone
<1> QED BY <1>1, <1>2

EarlierIn(S, n) == {y \in S : y < n}

LEMMA Below ==
  ASSUME NEW S \in SUBSET Nat
  PROVE  /\ {y \in S : y < 0} = {}
         /\ \A n \in S : {y \in S : y < n + 1} = {y \in S : y < n} \cup {n}
         /\ \A n \in Nat \ S : {y \in S : y < n + 1} = {y \in S : y < n}
<1>1. \A y \in S : ~ (y < 0)
  OBVIOUS
<1>2. \A y \in S, n \in Nat : y < n + 1 <=> y < n \/ y = n
  OBVIOUS
<1> QED BY <1>1, <1>2

FirstServed(S, f, b, g, av) ==
  \A x \in S : /\ b[x] = Sum(EarlierIn(S, x), f)
              /\ g[x] = IF b[x] >= av THEN 0 ELSE IF f[x] < av - b[x] THEN f[x] ELSE av - b[x]

(* First come, first served: what is before x in the list is subtracted. *)
LEMMA FirstServedFits ==
  ASSUME NEW S \in SUBSET Nat, NEW N \in Nat, \A x \in S : x < N,
         NEW f, Numbers(S, f), NEW av \in Nat,
         NEW b, NEW g, FirstServed(S, f, b, g, av)
  PROVE  /\ Numbers(S, g)
         /\ Sum(S, g) <= av
<1>a. \A x \in S : b[x] = Sum(EarlierIn(S, x), f)
  BY DEF FirstServed
<1>b. \A x \in S : g[x] = IF b[x] >= av THEN 0 ELSE IF f[x] < av - b[x] THEN f[x] ELSE av - b[x]
  BY DEF FirstServed
<1> USE DEF EarlierIn
<1> DEFINE P(n) == EarlierIn(S, n)
<1>1. \A n \in Nat : Numbers(P(n), f) /\ Sum(P(n), f) \in Nat
  <2>1. \A n \in Nat : P(n) \in SUBSET S
    OBVIOUS
  <2> HIDE DEF P
  <2> QED BY <2>1, SumSubset, SumType
<1>2. \A x \in S : f[x] \in Nat /\ b[x] \in Nat
  BY <1>1, <1>a DEF Numbers
<1>3. \A x \in S : /\ g[x] \in Nat /\ g[x] <= f[x]
                   /\ g[x] = 0 \/ b[x] + g[x] <= av
  BY <1>2, <1>b
<1>4. Numbers(S, g)
  BY <1>3 DEF Numbers
<1>5. \A n \in Nat : Numbers(P(n), g) /\ Sum(P(n), g) \in Nat /\ Sum(P(n), g) <= Sum(P(n), f)
  <2>1. \A n \in Nat : P(n) \in SUBSET S
    OBVIOUS
  <2>2. \A n \in Nat : \A x \in P(n) : g[x] <= f[x]
    BY <1>3
  <2> HIDE DEF P
  <2> QED BY <1>1, <1>4, <2>1, <2>2, SumSubset, SumType, SumMonotone
<1>6. \A n \in Nat : Sum(P(n), g) <= av
  <2> DEFINE Bad == {n \in Nat : Sum(P(n), g) > av}
  <2>1. SUFFICES ASSUME Bad # {}
                 PROVE  FALSE
    <3>1. ASSUME NEW n \in Nat, n \notin Bad
          PROVE  Sum(P(n), g) <= av
      <4>1. Sum(P(n), g) \in Nat /\ ~ (Sum(P(n), g) > av)
        BY <1>5, <3>1
      <4> HIDE DEF P
      <4> QED BY <4>1
    <3> HIDE DEF Bad
    <3> QED BY <3>1
  <2>2. PICK n \in Nat : /\ Sum(P(n), g) > av
                         /\ \A m \in Nat : m < n => ~ (Sum(P(m), g) > av)
    <3>1. PICK n \in Bad : \A m \in Bad : n <= m
      <4>1. Bad \in SUBSET Nat
        OBVIOUS
      <4> HIDE DEF Bad
      <4> QED BY <2>1, <4>1, SmallestNumber
    <3>2. n \in Nat /\ Sum(P(n), g) > av
      OBVIOUS
    <3>3. ASSUME NEW m \in Nat, m < n, Sum(P(m), g) > av
          PROVE  FALSE
      <4>1. m \in Bad
        BY <3>3
      <4> HIDE DEF Bad
      <4> QED BY <3>1, <3>2, <3>3, <4>1
    <3> QED BY <3>2, <3>3
  <2>3. n # 0
    <3>1. P(0) = {}
      BY Below
    <3>2. ~ (Sum({}, g) > av)
      BY SumEmpty
    <3> HIDE DEF P
    <3> QED BY <3>1, <3>2, <2>2
  <2> DEFINE x == n - 1
  <2>4. x \in Nat /\ x < n
    BY <2>3
  <2>5. Sum(P(x), g) <= av /\ Sum(P(x), g) \in Nat
    <3> HIDE DEF P, x
    <3> QED BY <1>5, <2>2, <2>4
  <2>6. CASE x \in S
    <3>1. P(n) = P(x) \cup {x} /\ x \notin P(x)
      <4>1. P(x + 1) = P(x) \cup {x} /\ x \notin P(x)
        <5> HIDE DEF x
        <5> QED BY <2>4, <2>6, Below
      <4> QED BY <4>1
    <3>2. Numbers(P(x), g) /\ g[x] \in Nat /\ b[x] \in Nat /\ (g[x] = 0 \/ b[x] + g[x] <= av)
      <4> HIDE DEF P, x
      <4> QED BY <1>2, <1>3, <1>5, <2>4, <2>6
    <3>3. Sum(P(x), g) <= b[x]
      <4>1. b[x] = Sum(P(x), f)
        BY <1>a, <2>6
      <4> HIDE DEF P, x
      <4> QED BY <1>5, <2>4, <4>1
    <3> DEFINE A == P(x)
    <3> HIDE DEF A, P, x
    <3>4. Sum(P(n), g) = Sum(P(x), g) + g[x]
      <4>1. Numbers(A, g) /\ g[x] \in Nat /\ x \notin A /\ P(n) = A \cup {x}
        BY <3>1, <3>2 DEF A
      <4>2. Sum(A \cup {x}, g) = Sum(A, g) + g[x]
        BY <4>1, SumAdd
      <4> QED BY <4>1, <4>2 DEF A
    <3> QED BY <2>2, <2>5, <3>2, <3>3, <3>4
  <2>7. CASE x \notin S
    <3>1. P(n) = P(x)
      <4>1. P(x + 1) = P(x)
        <5> HIDE DEF x
        <5> QED BY <2>4, <2>7, Below
      <4> QED BY <4>1
    <3> HIDE DEF P, x
    <3> QED BY <2>2, <2>5, <3>1
  <2> QED BY <2>6, <2>7
<1>7. P(N) = S
  OBVIOUS
<1>8. Sum(P(N), g) <= av
  BY <1>6
<1> HIDE DEF P
<1> QED BY <1>4, <1>7, <1>8


(* Who is in the lists of a round: reserve transactions, with what they    *)
(* reserve, and signalling transactions.                                   *)
Reserves(n) == IsReserve(n) /\ chain[n].reserved > 0
Participating(r) == reserve_txes[r] \cup signalling_txes[r]
Slots(r) == [n \in Participating(r) |-> SlotIn(r, n)]

Participants ==
  \A r \in Rounds :
    /\ \A n \in reserve_txes[r] : Reserves(n)
    /\ \A n \in signalling_txes[r] : ~IsReserve(n)
    /\ r \notin PriorityRounds => reserve_txes[r] = {}
    /\ r > rd => reserve_txes[r] = {} /\ signalling_txes[r] = {}

LEMMA ListsType ==
  ASSUME TypeOK, NEW r \in Rounds
  PROVE  /\ reserve_txes[r] \in SUBSET DOMAIN chain
         /\ signalling_txes[r] \in SUBSET DOMAIN chain
         /\ available_slot_amount[r] \in Nat
         /\ chain \in Seq(Tx)
BY DEF TypeOK

LEMMA Ranges ==
  ASSUME TypeOK
  PROVE  /\ chain \in Seq(Tx) /\ place \in 0 .. 17 /\ stage \in Stages
         /\ rd \in -1 .. 7 /\ (stage \in Validating => rd \in Rounds)
         /\ Rounds = 0 .. 7 /\ \A r \in 0 .. rd : r \in Rounds
         /\ rd < 7 => rd + 1 \in Rounds
<1>1. /\ chain \in Seq(Tx) /\ place \in 0 .. 17 /\ stage \in Stages
      /\ rd \in -1 .. 7 /\ (stage \in Validating => rd # -1)
  BY DEF TypeOK
<1> QED BY <1>1 DEF Rounds

LEMMA AmountsPositive ==
  ASSUME chain \in Seq(Tx), NEW S \in SUBSET DOMAIN chain
  PROVE  \A n \in S : chain[n].amount > 0
<1>1. \A n \in DOMAIN chain : chain[n].amount \in Nat \ {0}
  BY ChainType DEF Tx
<1> QED BY <1>1

(* The three ways to compute a slot. *)
LEMMA SlotOf ==
  ASSUME NEW r, NEW n
  PROVE  /\ r \in {0, 6} => SlotIn(r, n) = RawSlot(chain[n].amount, available_slot_amount[r],
                                                  Amount(signalling_txes[r]))
         /\ r \in {3, 7} => SlotIn(r, n) = FirstServeSlot(r, n, available_slot_amount[r])
         /\ r \in PriorityRounds => SlotIn(r, n) = PrioritySlot(r, n, available_slot_amount[r])
<1>1. CASE r \in {0, 6}
  BY <1>1 DEF SlotIn, PriorityRounds
<1>2. CASE r \in {3, 7}
  BY <1>2 DEF SlotIn, PriorityRounds
<1>3. CASE r \in PriorityRounds
  BY <1>3 DEF SlotIn, PriorityRounds
<1> QED BY <1>1, <1>2, <1>3 DEF PriorityRounds

(* The slots of all participants of a round are not more than what is      *)
(* available in it.                                                        *)
LEMMA SlotsFit ==
  ASSUME TypeOK, Participants, NEW r \in Rounds
  PROVE  /\ Numbers(Participating(r), Slots(r))
         /\ Sum(Participating(r), Slots(r)) <= available_slot_amount[r]
<1> DEFINE R == reserve_txes[r]
           S == signalling_txes[r]
           av == available_slot_amount[r]
           fr == [n \in R |-> chain[n].reserved]
           fs == [n \in S |-> chain[n].amount]
           s == Slots(r)
<1>1. /\ R \in SUBSET DOMAIN chain /\ S \in SUBSET DOMAIN chain /\ av \in Nat
      /\ chain \in Seq(Tx)
  BY ListsType
<1>2. Numbers(R, fr) /\ Numbers(S, fs)
  BY <1>1, ChainType
<1>3. (\A n \in R : fr[n] > 0) /\ (\A n \in S : fs[n] > 0)
  BY <1>1, AmountsPositive DEF Participants, Reserves
<1>4. Reserved(R) = Sum(R, fr) /\ Amount(S) = Sum(S, fs)
  BY DEF Reserved, Amount
<1>5. R \cap S = {} /\ Participating(r) = R \cup S
  BY DEF Participants, Reserves, Participating
<1>6. \A n \in Participating(r) : s[n] = SlotIn(r, n)
  BY DEF Slots
<1>7. r \in 0 .. 7
  BY DEF Rounds
<1>8. CASE r \in {0, 6}
  <2>1. R = {} /\ Participating(r) = S
    BY <1>5, <1>8 DEF Participants, PriorityRounds
  <2>2. \A n \in S : s[n] = RawSlot(fs[n], av, Sum(S, fs))
    BY <1>4, <1>6, <1>8, <2>1, SlotOf
  <2> HIDE DEF fs, s, av, S, R
  <2>3. Numbers(S, s) /\ Sum(S, s) <= av
    BY <1>1, <1>2, <1>3, <2>2, SharesFit
  <2> QED BY <2>1, <2>3 DEF s, av
<1>9. CASE r \in {3, 7}
  <2>1. R = {} /\ Participating(r) = S
    BY <1>5, <1>9 DEF Participants, PriorityRounds
  <2> DEFINE b == [n \in S |-> Sum(EarlierIn(S, n), fs)]
  <2>2. \A n \in S : Amount({m \in S : m < n}) = b[n]
    <3>1. ASSUME NEW n \in S
          PROVE  Amount({m \in S : m < n}) = Sum(EarlierIn(S, n), fs)
      <4> DEFINE B == {m \in S : m < n}
                 fb == [m \in B |-> chain[m].amount]
      <4>1. \A x \in B : fb[x] = fs[x]
        OBVIOUS
      <4>2. Amount({m \in S : m < n}) = Sum(B, fb) /\ B = EarlierIn(S, n)
        BY DEF Amount, EarlierIn
      <4> HIDE DEF B, fs, fb
      <4> QED BY <4>1, <4>2, SumAgree
    <3> QED BY <3>1
  <2>3. ASSUME NEW n \in S
        PROVE  s[n] = IF b[n] >= av THEN 0 ELSE IF fs[n] < av - b[n] THEN fs[n] ELSE av - b[n]
    <3>1. s[n] = FirstServeSlot(r, n, av)
      BY <1>6, <1>9, <2>1, SlotOf
    <3>2. FirstServeSlot(r, n, av) =
            IF Amount({m \in S : m < n}) >= av THEN 0
            ELSE IF chain[n].amount < av - Amount({m \in S : m < n}) THEN chain[n].amount
            ELSE av - Amount({m \in S : m < n})
      BY DEF FirstServeSlot
    <3>3. Amount({m \in S : m < n}) = b[n] /\ fs[n] = chain[n].amount
      BY <2>2
    <3> HIDE DEF s, b, fs, av, S
    <3> QED BY <3>1, <3>2, <3>3
  <2>4. \A n \in S : b[n] = Sum(EarlierIn(S, n), fs)
    OBVIOUS
  <2>5. S \in SUBSET Nat /\ Len(chain) + 1 \in Nat /\ \A n \in S : n < Len(chain) + 1
    BY <1>1, ChainType
  <2> HIDE DEF fs, s, av, S, R, b
  <2> DEFINE N == Len(chain) + 1
  <2>6. Numbers(S, s) /\ Sum(S, s) <= av
    <3> HIDE DEF N
    <3>1. N \in Nat /\ (\A n \in S : n < N) /\ S \in SUBSET Nat /\ av \in Nat /\ Numbers(S, fs)
      BY <1>1, <1>2, <2>5 DEF N
    <3>2. FirstServed(S, fs, b, s, av)
      BY <2>3, <2>4 DEF FirstServed
    <3> QED BY <3>1, <3>2, FirstServedFits
  <2> QED BY <2>1, <2>6 DEF s, av
<1>10. CASE r \in PriorityRounds
  <2>1. \A n \in R : s[n] = RawSlot(fr[n], av, Sum(R, fr))
    BY <1>4, <1>5, <1>6, <1>10, SlotOf DEF PrioritySlot
  <2>2. \A n \in S : s[n] = IF av > Sum(R, fr) THEN RawSlot(fs[n], av - Sum(R, fr), Sum(S, fs))
                            ELSE 0
    BY <1>4, <1>5, <1>6, <1>10, SlotOf DEF PrioritySlot
  <2> DEFINE ram == Sum(R, fr)
  <2> HIDE DEF fs, fr, s, av, S, R, ram
  <2>3. Numbers(R, s) /\ Sum(R, s) <= av /\ Sum(R, s) <= ram
    BY <1>1, <1>2, <1>3, <2>1, SharesFit DEF ram
  <2>4. ram \in Nat
    BY <1>2, SumType DEF ram
  <2>5. Numbers(S, s) /\ Sum(S, s) <= IF av > ram THEN av - ram ELSE 0
    <3>1. CASE av > ram
      <4> DEFINE rest == av - ram
      <4>1. rest \in Nat
        BY <1>1, <2>4, <3>1
      <4>2. \A n \in S : s[n] = RawSlot(fs[n], rest, Sum(S, fs))
        BY <2>2, <3>1 DEF ram
      <4> HIDE DEF rest
      <4>3. Numbers(S, s) /\ Sum(S, s) <= rest
        BY <1>2, <1>3, <4>1, <4>2, SharesFit
      <4> QED BY <3>1, <4>3 DEF rest
    <3>2. CASE ~ (av > ram)
      <4>1. \A n \in S : s[n] = 0 * fs[n]
        BY <1>2, <2>2, <3>2 DEF ram, Numbers
      <4>2. Numbers(S, s)
        BY <1>2, <2>2, <3>2 DEF ram, Numbers
      <4>3. Sum(S, s) = 0 * Sum(S, fs) /\ Sum(S, fs) \in Nat
        BY <1>2, <4>1, SumScaled, SumType
      <4> QED BY <3>2, <4>2, <4>3
    <3> QED BY <3>1, <3>2
  <2>6. Sum(R \cup S, s) = Sum(R, s) + Sum(S, s)
    BY <1>5, <2>3, <2>5, SumUnion
  <2>7. Sum(R, s) \in Nat /\ Sum(S, s) \in Nat
    BY <2>3, <2>5, SumType
  <2>8. Sum(R \cup S, s) <= av
    BY <1>1, <2>3, <2>4, <2>5, <2>6, <2>7
  <2>9. Numbers(R \cup S, s)
    BY <2>3, <2>5, FS_Union DEF Numbers
  <2> QED BY <1>5, <2>8, <2>9 DEF s, av
<1> QED BY <1>7, <1>8, <1>9, <1>10 DEF PriorityRounds

-----------------------------------------------------------------------------
(* Rewards *)

(* A state belongs to a participant of its round and has its slot. *)
StatesHaveSlots ==
  \A k \in DOMAIN dstates :
    /\ k[1] <= rd /\ (stage \in Validating => k[1] < rd)
    /\ k[2] \in Participating(k[1])
    /\ dstates[k].slot = SlotIn(k[1], k[2])

(* What is locked is part of the slot, what is rewarded is part of that.   *)
EffectiveBounds ==
  \A k \in DOMAIN dstates :
    /\ dstates[k].effective_locking_slot <= IF k[1] < 4 THEN dstates[k].slot ELSE 0
    /\ dstates[k].effective_slot
         <= IF k[1] < 4 THEN dstates[k].effective_locking_slot ELSE dstates[k].slot

(* The available amounts are those that follow from the states so far.     *)
Accounts == \A r \in 0 .. rd : available_slot_amount[r] = Available(r)

LEMMA StatesType ==
  ASSUME TypeOK
  PROVE  /\ IsFiniteSet(DOMAIN dstates)
         /\ \A k \in DOMAIN dstates :
              /\ k = <<k[1], k[2]>> /\ k[1] \in Rounds /\ k[2] \in DOMAIN chain
              /\ dstates[k].slot \in Nat /\ dstates[k].slot > 0
              /\ dstates[k].effective_locking_slot \in Nat
              /\ dstates[k].effective_slot \in Nat
<1>1. DOMAIN dstates \subseteq Rounds \X DOMAIN chain
  BY DEF TypeOK
<1>2. IsFiniteSet(DOMAIN chain)
  <2>1. Len(chain) \in Nat /\ DOMAIN chain = 1 .. Len(chain)
    BY DEF TypeOK
  <2> QED BY <2>1, FS_Interval
<1>3. IsFiniteSet(Rounds)
  <2>1. 0 \in Int /\ 7 \in Int /\ Rounds = 0 .. 7
    BY DEF Rounds
  <2> QED BY <2>1, FS_Interval
<1>4. IsFiniteSet(DOMAIN dstates)
  BY <1>1, <1>2, <1>3, FS_Product, FS_Subset
<1>5. \A k \in DOMAIN dstates : dstates[k] \in DonationState
  BY DEF TypeOK
<1> QED BY <1>1, <1>4, <1>5 DEF DonationState

(* Parts of the slots of a round are together not more than is available.  *)
LEMMA PartsFit ==
  ASSUME TypeOK, Participants, StatesHaveSlots, NEW r \in Rounds,
         NEW f, \A k \in OfRound(r) : f[k] \in Nat /\ f[k] <= dstates[k].slot
  PROVE  /\ Numbers(OfRound(r), f)
         /\ Sum(OfRound(r), f) <= available_slot_amount[r]
<1> DEFINE K == OfRound(r)
           P == Participating(r)
           s == Slots(r)
           key == [k \in K |-> k[2]]
           g == [n \in P |-> Sum(WithKey(K, key, n), f)]
<1>1. \A k \in K : k = <<r, k[2]>> /\ key[k] \in P /\ f[k] \in Nat /\ f[k] <= s[key[k]]
  BY StatesType DEF OfRound, StatesHaveSlots, Slots
<1>2. Numbers(K, f)
  <2>1. K \in SUBSET DOMAIN dstates
    BY DEF OfRound
  <2> QED BY <2>1, StatesType, FS_Subset DEF Numbers
<1>3. Numbers(P, s) /\ Sum(P, s) <= available_slot_amount[r]
  BY SlotsFit
<1>4. \A n \in P : g[n] = Sum(WithKey(K, key, n), f)
  OBVIOUS
<1>5. \A n \in P : g[n] \in Nat /\ g[n] <= s[n]
  <2> SUFFICES ASSUME NEW n \in P
               PROVE  g[n] \in Nat /\ g[n] <= s[n]
    OBVIOUS
  <2>1. s[n] \in Nat
    BY <1>3 DEF Numbers
  <2>2. WithKey(K, key, n) \in SUBSET {<<r, n>>}
    BY <1>1 DEF WithKey
  <2>3. CASE WithKey(K, key, n) = {}
    <3> HIDE DEF K, P, s, key, g
    <3> QED BY <1>4, <2>1, <2>3, SumEmpty
  <2>4. CASE WithKey(K, key, n) = {<<r, n>>}
    <3>1. <<r, n>> \in K /\ key[<<r, n>>] = n
      BY <2>4 DEF WithKey
    <3>2. f[<<r, n>>] \in Nat /\ f[<<r, n>>] <= s[n]
      BY <1>1, <3>1
    <3> HIDE DEF K, P, s, key, g
    <3>3. g[n] = f[<<r, n>>]
      BY <1>4, <2>4, <3>2, SumOne
    <3> QED BY <3>2, <3>3
  <2> QED BY <2>2, <2>3, <2>4
<1>6. Numbers(P, g)
  BY <1>3, <1>5 DEF Numbers
<1>7. \A k \in K : key[k] \in P
  BY <1>1
<1> HIDE DEF K, P, s, key, g
<1>8. Sum(P, g) = Sum(K, f)
  BY <1>2, <1>4, <1>7, SumByKey
<1>9. Sum(P, g) <= Sum(P, s)
  BY <1>3, <1>5, <1>6, SumMonotone
<1>10. Sum(P, g) \in Nat /\ Sum(P, s) \in Nat /\ available_slot_amount[r] \in Nat
  BY <1>3, <1>6, SumType, ListsType
<1> QED BY <1>2, <1>3, <1>8, <1>9, <1>10 DEF K

LEMMA RoundTotals ==
  ASSUME TypeOK, Participants, StatesHaveSlots, EffectiveBounds, NEW r \in Rounds
  PROVE  /\ Locked(r) \in Nat /\ Effective(r) \in Nat
         /\ Locked(r) <= available_slot_amount[r]
         /\ r < 4 => Effective(r) <= Locked(r)
         /\ r >= 4 => Effective(r) <= available_slot_amount[r] /\ Locked(r) = 0
         /\ r > rd => Effective(r) = 0 /\ Locked(r) = 0
<1> DEFINE K == OfRound(r)
           l == [k \in K |-> dstates[k].effective_locking_slot]
           e == [k \in K |-> dstates[k].effective_slot]
<1>1. Locked(r) = Sum(K, l) /\ Effective(r) = Sum(K, e)
  BY DEF Locked, Effective
<1>2. \A k \in K : /\ l[k] \in Nat /\ l[k] <= dstates[k].slot
                   /\ e[k] \in Nat /\ e[k] <= dstates[k].slot
                   /\ r < 4 => e[k] <= l[k]
                   /\ r >= 4 => l[k] = 0 * e[k]
  <2> SUFFICES ASSUME NEW k \in K
               PROVE  /\ l[k] \in Nat /\ l[k] <= dstates[k].slot
                      /\ e[k] \in Nat /\ e[k] <= dstates[k].slot
                      /\ r < 4 => e[k] <= l[k]
                      /\ r >= 4 => l[k] = 0 * e[k]
    OBVIOUS
  <2>1. k \in DOMAIN dstates /\ k[1] = r
    BY DEF OfRound
  <2>2. /\ l[k] \in Nat /\ e[k] \in Nat /\ dstates[k].slot \in Nat
        /\ l[k] = dstates[k].effective_locking_slot /\ e[k] = dstates[k].effective_slot
    BY <2>1, StatesType
  <2>3. /\ l[k] <= IF r < 4 THEN dstates[k].slot ELSE 0
        /\ e[k] <= IF r < 4 THEN l[k] ELSE dstates[k].slot
    BY <2>1, <2>2 DEF EffectiveBounds
  <2> HIDE DEF l, e
  <2> QED BY <2>2, <2>3 DEF Rounds
<1> HIDE DEF l, e
<1>3. /\ Numbers(K, l) /\ Sum(K, l) <= available_slot_amount[r]
      /\ Numbers(K, e) /\ Sum(K, e) <= available_slot_amount[r]
  BY <1>2, PartsFit
<1>4. r < 4 => Sum(K, e) <= Sum(K, l)
  BY <1>2, <1>3, SumMonotone
<1>5. Sum(K, l) \in Nat /\ Sum(K, e) \in Nat
  BY <1>3, SumType
<1>6. r >= 4 => Sum(K, l) = 0
  <2>1. ASSUME r >= 4
        PROVE  Sum(K, l) = 0 * Sum(K, e)
    <3>1. \A k \in K : l[k] = 0 * e[k]
      BY <1>2, <2>1
    <3> HIDE DEF K
    <3> QED BY <1>3, <3>1, SumScaled
  <2> QED BY <1>5, <2>1
<1>7. ASSUME r > rd
      PROVE  K = {}
  <2>1. \A k \in DOMAIN dstates : k[1] <= rd /\ k[1] \in Rounds
    BY StatesType DEF StatesHaveSlots
  <2>2. rd \in Int /\ r \in Int
    BY DEF TypeOK, Rounds
  <2> QED BY <1>7, <2>1, <2>2 DEF OfRound, Rounds
<1>8. r > rd => Sum(K, l) = 0 /\ Sum(K, e) = 0
  BY <1>7, SumEmpty
<1> QED BY <1>1, <1>3, <1>4, <1>5, <1>6, <1>8 DEF Rounds

LEMMA SumOfRounds ==
  ASSUME NEW g, Numbers(Rounds, g)
  PROVE  Sum(Rounds, g) = g[0] + g[1] + g[2] + g[3] + g[4] + g[5] + g[6] + g[7]
<1> DEFINE B(n) == 0 .. n
<1>1. \A n \in 0 .. 7 : g[n] \in Nat /\ B(n) \in SUBSET Rounds
  BY DEF Numbers, Rounds
<1>2. \A n \in 0 .. 7 : Numbers(B(n), g)
  <2> HIDE DEF B
  <2> QED BY <1>1, SumSubset
<1>3. \A n \in 0 .. 6 : B(n + 1) = B(n) \cup {n + 1} /\ n + 1 \notin B(n)
  OBVIOUS
<1>4. \A n \in 0 .. 6 : Sum(B(n + 1), g) = Sum(B(n), g) + g[n + 1]
  <2> HIDE DEF B
  <2>1. ASSUME NEW n \in 0 .. 6
        PROVE  Sum(B(n + 1), g) = Sum(B(n), g) + g[n + 1]
    <3>1. n \in 0 .. 7 /\ n + 1 \in 0 .. 7
      OBVIOUS
    <3>2. Numbers(B(n), g) /\ g[n + 1] \in Nat /\ n + 1 \notin B(n)
      BY <1>1, <1>2, <1>3, <3>1
    <3>3. B(n + 1) = B(n) \cup {n + 1}
      BY <1>3
    <3> DEFINE A == B(n)
               x == n + 1
    <3> HIDE DEF A, x
    <3>4. Sum(A \cup {x}, g) = Sum(A, g) + g[x]
      BY <3>2, SumAdd DEF A, x
    <3> QED BY <3>3, <3>4 DEF A, x
  <2> QED BY <2>1
<1>5. Sum(B(0), g) = g[0]
  <2>1. B(0) = {0} /\ g[0] \in Nat
    BY <1>1
  <2> HIDE DEF B
  <2> QED BY <2>1, SumOne
<1>6. B(7) = Rounds
  BY DEF Rounds
<1> HIDE DEF B
<1>7. /\ Sum(B(1), g) = Sum(B(0), g) + g[1]
      /\ Sum(B(2), g) = Sum(B(1), g) + g[2]
      /\ Sum(B(3), g) = Sum(B(2), g) + g[3]
      /\ Sum(B(4), g) = Sum(B(3), g) + g[4]
      /\ Sum(B(5), g) = Sum(B(4), g) + g[5]
      /\ Sum(B(6), g) = Sum(B(5), g) + g[6]
      /\ Sum(B(7), g) = Sum(B(6), g) + g[7]
  <2>1. /\ Sum(B(0 + 1), g) = Sum(B(0), g) + g[0 + 1]
        /\ Sum(B(1 + 1), g) = Sum(B(1), g) + g[1 + 1]
        /\ Sum(B(2 + 1), g) = Sum(B(2), g) + g[2 + 1]
        /\ Sum(B(3 + 1), g) = Sum(B(3), g) + g[3 + 1]
        /\ Sum(B(4 + 1), g) = Sum(B(4), g) + g[4 + 1]
        /\ Sum(B(5 + 1), g) = Sum(B(5), g) + g[5 + 1]
        /\ Sum(B(6 + 1), g) = Sum(B(6), g) + g[6 + 1]
    BY <1>4
  <2> QED BY <2>1
<1> QED BY <1>1, <1>5, <1>6, <1>7

(* Rounds 1 to 3 have what the round before has not locked, round 4 what   *)
(* the first four have not donated, the others what the round before has   *)
(* not donated.                                                            *)
RoundByRound(q, rd0, a, l, e) ==
  /\ \A r \in 0 .. 7 : /\ a[r] \in Nat /\ l[r] \in Nat /\ e[r] \in Nat
                       /\ l[r] <= a[r]
                       /\ r < 4 => e[r] <= l[r]
                       /\ r >= 4 => e[r] <= a[r] /\ l[r] = 0
                       /\ r > rd0 => e[r] = 0 /\ l[r] = 0
  /\ rd0 >= 0 => a[0] = q
  /\ \A r \in 1 .. 3 : r <= rd0 => a[r] = a[r - 1] - l[r - 1]
  /\ rd0 >= 4 => a[4] = q - (e[0] + e[1] + e[2] + e[3])
  /\ \A r \in 5 .. 7 : r <= rd0 => a[r] = a[r - 1] - e[r - 1]

LEMMA Divided ==
  ASSUME NEW q \in Nat, NEW rd0 \in -1 .. 7, NEW a, NEW l, NEW e,
         RoundByRound(q, rd0, a, l, e)
  PROVE  /\ l[0] + l[1] + l[2] + l[3] + l[4] + l[5] + l[6] + l[7] <= q
         /\ e[0] + e[1] + e[2] + e[3] + e[4] + e[5] + e[6] + e[7] <= q
<1>1. /\ a[0] \in Nat /\ a[1] \in Nat /\ a[2] \in Nat /\ a[3] \in Nat
      /\ a[4] \in Nat /\ a[5] \in Nat /\ a[6] \in Nat /\ a[7] \in Nat
      /\ l[0] \in Nat /\ l[1] \in Nat /\ l[2] \in Nat /\ l[3] \in Nat
      /\ e[0] \in Nat /\ e[1] \in Nat /\ e[2] \in Nat /\ e[3] \in Nat
      /\ e[4] \in Nat /\ e[5] \in Nat /\ e[6] \in Nat /\ e[7] \in Nat
  BY DEF RoundByRound
<1>2. /\ l[0] <= a[0] /\ l[1] <= a[1] /\ l[2] <= a[2] /\ l[3] <= a[3]
      /\ l[4] = 0 /\ l[5] = 0 /\ l[6] = 0 /\ l[7] = 0
      /\ e[0] <= l[0] /\ e[1] <= l[1] /\ e[2] <= l[2] /\ e[3] <= l[3]
      /\ e[4] <= a[4] /\ e[5] <= a[5] /\ e[6] <= a[6] /\ e[7] <= a[7]
  BY DEF RoundByRound
<1>3. /\ 0 > rd0 => e[0] = 0 /\ l[0] = 0
      /\ 1 > rd0 => e[1] = 0 /\ l[1] = 0
      /\ 2 > rd0 => e[2] = 0 /\ l[2] = 0
      /\ 3 > rd0 => e[3] = 0 /\ l[3] = 0
      /\ 4 > rd0 => e[4] = 0
      /\ 5 > rd0 => e[5] = 0
      /\ 6 > rd0 => e[6] = 0
      /\ 7 > rd0 => e[7] = 0
  BY DEF RoundByRound
<1>4. /\ 1 <= rd0 => a[1] = a[0] - l[0]
      /\ 2 <= rd0 => a[2] = a[1] - l[1]
      /\ 3 <= rd0 => a[3] = a[2] - l[2]
      /\ 5 <= rd0 => a[5] = a[4] - e[4]
      /\ 6 <= rd0 => a[6] = a[5] - e[5]
      /\ 7 <= rd0 => a[7] = a[6] - e[6]
  <2>1. /\ 1 <= rd0 => a[1] = a[1 - 1] - l[1 - 1]
        /\ 2 <= rd0 => a[2] = a[2 - 1] - l[2 - 1]
        /\ 3 <= rd0 => a[3] = a[3 - 1] - l[3 - 1]
        /\ 5 <= rd0 => a[5] = a[5 - 1] - e[5 - 1]
        /\ 6 <= rd0 => a[6] = a[6 - 1] - e[6 - 1]
        /\ 7 <= rd0 => a[7] = a[7 - 1] - e[7 - 1]
    <3>1. /\ 1 \in 1 .. 3 /\ 2 \in 1 .. 3 /\ 3 \in 1 .. 3
          /\ 5 \in 5 .. 7 /\ 6 \in 5 .. 7 /\ 7 \in 5 .. 7
      OBVIOUS
    <3> QED BY <3>1 DEF RoundByRound
  <2> QED BY <2>1
<1> DEFINE L == l[0] + l[1] + l[2] + l[3]
           E == e[0] + e[1] + e[2] + e[3]
<1>5. L <= q /\ L \in Nat
  <2>1. rd0 \in Int
    OBVIOUS
  <2>2. CASE rd0 < 0
    <3>1. l[0] = 0 /\ l[1] = 0 /\ l[2] = 0 /\ l[3] = 0
      BY <1>3, <2>1, <2>2 DEF RoundByRound
    <3> QED BY <3>1
  <2>3. CASE rd0 >= 0
    <3>1. a[0] = q
      BY <2>3 DEF RoundByRound
    <3>2. l[1] = 0 \/ a[1] = a[0] - l[0]
      BY <1>3, <1>4, <2>1, <2>3
    <3>3. (l[2] = 0 \/ a[2] = a[1] - l[1]) /\ ((l[1] = 0 /\ l[2] = 0) \/ a[1] = a[0] - l[0])
      BY <1>3, <1>4, <2>1, <2>3
    <3>4. (l[3] = 0 \/ (a[3] = a[2] - l[2] /\ a[2] = a[1] - l[1] /\ a[1] = a[0] - l[0]))
      BY <1>3, <1>4, <2>1, <2>3
    <3>5. l[0] + l[1] <= q
      BY <1>1, <1>2, <3>1, <3>2
    <3>6. l[0] + l[1] + l[2] <= q
      BY <1>1, <1>2, <3>1, <3>3, <3>5
    <3>7. l[0] + l[1] + l[2] + l[3] <= q
      BY <1>1, <1>2, <3>1, <3>4, <3>6
    <3> QED BY <1>1, <3>7
  <2> QED BY <2>1, <2>2, <2>3
<1>6. E <= q /\ E \in Nat
  BY <1>1, <1>2, <1>5
<1>7. E + e[4] + e[5] + e[6] + e[7] <= q
  <2>1. rd0 \in Int
    OBVIOUS
  <2>2. CASE rd0 < 4
    <3>1. e[4] = 0 /\ e[5] = 0 /\ e[6] = 0 /\ e[7] = 0
      BY <1>3, <2>1, <2>2
    <3> HIDE DEF E
    <3> QED BY <1>6, <3>1
  <2>3. CASE rd0 >= 4
    <3>1. a[4] = q - E
      BY <2>3 DEF RoundByRound
    <3>2. e[5] = 0 \/ a[5] = a[4] - e[4]
      BY <1>3, <1>4, <2>1
    <3>3. e[6] = 0 \/ (a[6] = a[5] - e[5] /\ a[5] = a[4] - e[4])
      BY <1>3, <1>4, <2>1
    <3>4. e[7] = 0 \/ (a[7] = a[6] - e[6] /\ a[6] = a[5] - e[5] /\ a[5] = a[4] - e[4])
      BY <1>3, <1>4, <2>1
    <3> HIDE DEF E
    <3>5. E + e[4] <= q
      BY <1>1, <1>2, <1>6, <3>1
    <3>6. E + e[4] + e[5] <= q
      BY <1>1, <1>2, <1>6, <3>1, <3>2, <3>5
    <3>7. E + e[4] + e[5] + e[6] <= q
      BY <1>1, <1>2, <1>6, <3>1, <3>3, <3>6
    <3> QED BY <1>1, <1>2, <1>6, <3>1, <3>4, <3>7
  <2> QED BY <2>1, <2>2, <2>3
<1>8. L + l[4] + l[5] + l[6] + l[7] <= q
  <2> HIDE DEF L
  <2> QED BY <1>2, <1>5
<1> QED BY <1>7, <1>8

(* The rounds together. *)
LEMMA AllRounds ==
  ASSUME TypeOK, Participants, StatesHaveSlots, EffectiveBounds, Accounts
  PROVE  /\ Locked(0) + Locked(1) + Locked(2) + Locked(3) + Locked(4) + Locked(5) + Locked(6)
              + Locked(7) <= ReqAmount
         /\ Effective(0) + Effective(1) + Effective(2) + Effective(3) + Effective(4)
              + Effective(5) + Effective(6) + Effective(7) <= ReqAmount
<1> DEFINE a == available_slot_amount
           l == [r \in Rounds |-> Locked(r)]
           e == [r \in Rounds |-> Effective(r)]
<1>0. Rounds = 0 .. 7 /\ ReqAmount \in Nat /\ rd \in -1 .. 7
  BY ProposalAssumption DEF Rounds, TypeOK
<1>1. \A r \in 0 .. 7 : l[r] = Locked(r) /\ e[r] = Effective(r)
  BY <1>0
<1>2. \A r \in 0 .. 7 : /\ a[r] \in Nat /\ l[r] \in Nat /\ e[r] \in Nat
                        /\ l[r] <= a[r]
                        /\ r < 4 => e[r] <= l[r]
                        /\ r >= 4 => e[r] <= a[r] /\ l[r] = 0
                        /\ r > rd => e[r] = 0 /\ l[r] = 0
  BY <1>0, <1>1, RoundTotals, ListsType
<1>3. \A r \in 0 .. 7 : r <= rd => a[r] = Available(r)
  BY <1>0 DEF Accounts
<1>4. rd >= 0 => a[0] = ReqAmount
  BY <1>0, <1>3 DEF Available
<1>5. \A r \in 1 .. 3 : r <= rd => a[r] = a[r - 1] - l[r - 1]
  <2>1. \A r \in 1 .. 3 : Available(r) = a[r - 1] - Locked(r - 1)
    BY DEF Available
  <2>2. \A r \in 1 .. 3 : r \in 0 .. 7 /\ r - 1 \in 0 .. 7
    OBVIOUS
  <2> HIDE DEF a, l
  <2> QED BY <1>1, <1>3, <2>1, <2>2
<1>6. rd >= 4 => a[4] = ReqAmount - (e[0] + e[1] + e[2] + e[3])
  <2>1. Available(4) = ReqAmount - (Effective(0) + Effective(1) + Effective(2) + Effective(3))
    BY DEF Available
  <2> HIDE DEF a, e
  <2> QED BY <1>0, <1>1, <1>3, <2>1
<1>7. \A r \in 5 .. 7 : r <= rd => a[r] = a[r - 1] - e[r - 1]
  <2>1. \A r \in 5 .. 7 : Available(r) = a[r - 1] - Effective(r - 1)
    BY DEF Available
  <2>2. \A r \in 5 .. 7 : r \in 0 .. 7 /\ r - 1 \in 0 .. 7
    OBVIOUS
  <2> HIDE DEF a, e
  <2> QED BY <1>1, <1>3, <2>1, <2>2
<1> HIDE DEF a, l, e
<1>8. RoundByRound(ReqAmount, rd, a, l, e)
  BY <1>2, <1>4, <1>5, <1>6, <1>7 DEF RoundByRound
<1>9. /\ l[0] + l[1] + l[2] + l[3] + l[4] + l[5] + l[6] + l[7] <= ReqAmount
      /\ e[0] + e[1] + e[2] + e[3] + e[4] + e[5] + e[6] + e[7] <= ReqAmount
  BY <1>0, <1>8, Divided
<1> QED BY <1>1, <1>9

LEMMA RewardsFit ==
  ASSUME TypeOK, Participants, StatesHaveSlots, EffectiveBounds, Accounts
  PROVE  WithinRequest
<1> DEFINE D == DOMAIN dstates
           fl == [k \in D |-> dstates[k].effective_locking_slot]
           fe == [k \in D |-> dstates[k].effective_slot]
           key == [k \in D |-> k[1]]
           l == [r \in Rounds |-> Locked(r)]
           e == [r \in Rounds |-> Effective(r)]
<1>1. Numbers(D, fl) /\ Numbers(D, fe) /\ \A k \in D : key[k] \in Rounds
  BY StatesType DEF Numbers
<1>2. \A r \in Rounds : OfRound(r) = WithKey(D, key, r)
  BY DEF OfRound, WithKey
<1>3. \A r \in Rounds : l[r] = Sum(WithKey(D, key, r), fl)
  <2> SUFFICES ASSUME NEW r \in Rounds
               PROVE  l[r] = Sum(WithKey(D, key, r), fl)
    OBVIOUS
  <2> DEFINE K == OfRound(r)
             f == [k \in K |-> dstates[k].effective_locking_slot]
  <2>1. l[r] = Sum(K, f)
    BY DEF Locked
  <2>2. \A k \in K : f[k] = fl[k]
    BY DEF OfRound
  <2>3. K = WithKey(D, key, r)
    BY <1>2
  <2> HIDE DEF K, f, fl, key, D, l
  <2> QED BY <2>1, <2>2, <2>3, SumAgree
<1>4. \A r \in Rounds : e[r] = Sum(WithKey(D, key, r), fe)
  <2> SUFFICES ASSUME NEW r \in Rounds
               PROVE  e[r] = Sum(WithKey(D, key, r), fe)
    OBVIOUS
  <2> DEFINE K == OfRound(r)
             f == [k \in K |-> dstates[k].effective_slot]
  <2>1. e[r] = Sum(K, f)
    BY DEF Effective
  <2>2. \A k \in K : f[k] = fe[k]
    BY DEF OfRound
  <2>3. K = WithKey(D, key, r)
    BY <1>2
  <2> HIDE DEF K, f, fe, key, D, e
  <2> QED BY <2>1, <2>2, <2>3, SumAgree
<1>5. Numbers(Rounds, l) /\ Numbers(Rounds, e)
  <2>1. 0 \in Int /\ 7 \in Int /\ Rounds = 0 .. 7
    BY DEF Rounds
  <2>2. IsFiniteSet(Rounds)
    BY <2>1, FS_Interval
  <2> QED BY <2>2, RoundTotals DEF Numbers
<1>6. \A r \in 0 .. 7 : l[r] = Locked(r) /\ e[r] = Effective(r)
  BY DEF Rounds
<1>7. WithinRequest <=> Sum(D, fe) <= ReqAmount /\ Sum(D, fl) <= ReqAmount
  BY DEF WithinRequest
<1> HIDE DEF D, fl, fe, key, l, e
<1>8. Sum(Rounds, l) = Sum(D, fl) /\ Sum(Rounds, e) = Sum(D, fe)
  BY <1>1, <1>3, <1>4, SumByKey
<1>9. Sum(Rounds, l) <= ReqAmount /\ Sum(Rounds, e) <= ReqAmount
  BY <1>5, <1>6, AllRounds, SumOfRounds
<1> QED BY <1>7, <1>8, <1>9

(* The next round never has less than nothing. *)
LEMMA NextAvailable ==
  ASSUME TypeOK, Participants, StatesHaveSlots, EffectiveBounds, Accounts, rd < 7
  PROVE  Available(rd + 1) \in Nat
<1>0. ReqAmount \in Nat /\ rd \in -1 .. 6
  BY ProposalAssumption DEF TypeOK
<1>1. ASSUME NEW r \in 0 .. 7
      PROVE  /\ Locked(r) \in Nat /\ Effective(r) \in Nat
             /\ available_slot_amount[r] \in Nat
             /\ Locked(r) <= available_slot_amount[r]
             /\ r >= 4 => Effective(r) <= available_slot_amount[r]
             /\ r >= 4 => Locked(r) = 0
  BY <1>1, RoundTotals, ListsType DEF Rounds
<1>2. CASE rd = -1
  BY <1>0, <1>2 DEF Available
<1>3. CASE rd \in 0 .. 2
  <2>1. rd + 1 \in 1 .. 3 /\ (rd + 1) - 1 = rd /\ rd \in 0 .. 7
    BY <1>3
  <2>2. Available(rd + 1) = available_slot_amount[rd] - Locked(rd)
    BY <2>1 DEF Available
  <2> QED BY <1>1, <2>1, <2>2
<1>4. CASE rd = 3
  <2>1. Available(rd + 1) = ReqAmount - (Effective(0) + Effective(1) + Effective(2) + Effective(3))
    BY <1>4 DEF Available
  <2>2. \A r \in 0 .. 7 : Effective(r) \in Nat
    BY <1>1
  <2>3. Effective(0) + Effective(1) + Effective(2) + Effective(3) <= ReqAmount
    BY <1>0, <2>2, AllRounds
  <2> QED BY <1>0, <2>1, <2>2, <2>3
<1>5. CASE rd \in 4 .. 6
  <2>1. rd + 1 \in 5 .. 7 /\ (rd + 1) - 1 = rd /\ rd \in 0 .. 7
    BY <1>5
  <2>2. Available(rd + 1) = available_slot_amount[rd] - Effective(rd)
    BY <2>1 DEF Available
  <2> QED BY <1>1, <1>5, <2>1, <2>2
<1> QED BY <1>0, <1>2, <1>3, <1>4, <1>5

-----------------------------------------------------------------------------
(* The transactions that are handled *)

LEMMA EarliestType ==
  ASSUME chain \in Seq(Tx), NEW S \in SUBSET DOMAIN chain
  PROVE  /\ Earliest(S) \in {None} \cup DOMAIN chain
         /\ S # {} => Earliest(S) \in S
         /\ S = {} => Earliest(S) = None
         /\ Earliest(S) # None => Earliest(S) \in S
<1>1. S # {} => \E n \in S : \A m \in S : n <= m
  <2>1. S \in SUBSET Nat
    BY ChainType
  <2> QED BY <2>1, SmallestNumber
<1>2. S # {} => Earliest(S) \in S
  BY <1>1 DEF Earliest
<1> QED BY <1>2 DEF Earliest

LEMMA KindsType ==
  ASSUME chain \in Seq(Tx), NEW n \in DOMAIN chain
  PROVE  /\ chain[n].kind \in Kinds /\ (IsReserve(n) <=> chain[n].kind \in {"locking", "donation"})
         /\ chain[n].address \in Addr /\ chain[n].sender \in Addr /\ Claimant(n) \in Addr
         /\ chain[n].amount \in Nat /\ chain[n].reserved \in Nat
BY ChainType DEF Tx, Kinds, IsReserve, Claimant

(* The successor of a transaction is of the kind that comes next.          *)
LEMMA SuccessorsType ==
  ASSUME chain \in Seq(Tx), NEW n \in DOMAIN chain
  PROVE  /\ Direct(n) \in SUBSET DOMAIN chain /\ Reserve(n) \in SUBSET DOMAIN chain
         /\ Successor(n) \in SUBSET DOMAIN chain
         /\ \A m \in Reserve(n) : chain[m].kind = chain[n].kind
         /\ chain[n].kind = "locking" => \A m \in Direct(n) : chain[m].kind = "donation"
         /\ \A r \in Rounds : chain[n].kind = "signalling" /\ InRound(n, r) =>
              \A m \in Direct(n) : chain[m].kind = IF r < 4 THEN "locking" ELSE "donation"
<1>1. chain[n].kind \in Kinds
  BY KindsType
<1>2. Direct(n) \in SUBSET DOMAIN chain /\ Reserve(n) \in SUBSET DOMAIN chain
  BY DEF Direct, Reserve, Spending
<1>3. \A m \in Reserve(n) : chain[m].kind = chain[n].kind
  BY DEF Reserve
<1>4. chain[n].kind = "locking" => \A m \in Direct(n) : chain[m].kind = "donation"
  BY DEF Direct
<1>5. ASSUME NEW r \in Rounds, chain[n].kind = "signalling", InRound(n, r), NEW m \in Direct(n)
      PROVE  chain[m].kind = IF r < 4 THEN "locking" ELSE "donation"
  <2>1. PICK q \in Rounds : InRound(n, q) /\ chain[m].kind = IF q < 4 THEN "locking" ELSE "donation"
    BY <1>5 DEF Direct
  <2>2. chain[n].place = Signalling(r) /\ chain[n].place = Signalling(q)
    BY <1>5, <2>1 DEF InRound
  <2>3. r = q
    BY <2>2 DEF Signalling, Rounds
  <2> QED BY <2>1, <2>3
<1> QED BY <1>2, <1>3, <1>4, <1>5 DEF Successor

(* What a candidate of the current round can be.                           *)
Proper(c) ==
  \/ chain[c.tx].kind = "signalling" /\ InRound(c.tx, rd)
  \/ chain[c.tx].kind = "locking" /\ rd \in {1, 2}
  \/ chain[c.tx].kind = "donation" /\ rd \in {4, 5} /\ Object(c.tx, c.copy) \in DOMAIN donor_address

ListKinds ==
  \A r \in Rounds :
    /\ \A i \in DOMAIN locking_txes[r] : chain[locking_txes[r][i].tx].kind = "locking"
    /\ \A i \in DOMAIN donation_txes[r] : /\ chain[donation_txes[r][i].tx].kind = "donation"
                                         /\ donation_txes[r][i] \in DOMAIN donor_address

(* The lists of candidates in each stage.                                  *)
InTurn ==
  /\ \A c \in todo \cup origins : Proper(c)
  /\ stage \in Validating \cup {"parsing"} /\ todo \cup origins # {} => rd \in Rounds
  /\ stage = "basic" =>
       /\ reserve_txes[rd] = {} /\ signalling_txes[rd] = {}
       /\ \A c \in todo : IsReserve(c.tx) <=> rd \in PriorityRounds
       /\ \A c \in origins : IF rd \in PriorityRounds THEN Reserves(c.tx) ELSE ~IsReserve(c.tx)
  /\ stage = "reserves" => /\ rd \in PriorityRounds
                           /\ reserve_txes[rd] = {} /\ signalling_txes[rd] = {}
                           /\ \A c \in todo \cup origins : Reserves(c.tx)
  /\ stage = "signals" => /\ rd \in PriorityRounds /\ signalling_txes[rd] = {}
                          /\ reserve_txes[rd] \subseteq Ids(origins)
                          /\ \A c \in todo : ~IsReserve(c.tx)
                          /\ \A c \in origins : IsReserve(c.tx) => c.tx \in reserve_txes[rd]
  /\ stage = "parsing" => /\ todo = {}
                          /\ \A c \in origins : c.tx \in Participating(rd)

(* Who has reserved and gets a slot has a state, or its turn will come.    *)
Served ==
  stage \in {"parsing", "parsed"} =>
    \A r \in 0 .. rd : \A n \in reserve_txes[r] :
      SlotIn(r, n) > 0 => <<r, n>> \in DOMAIN dstates \/ (r = rd /\ n \in Ids(origins))

ServedBefore ==
  stage \in Validating =>
    \A r \in 0 .. rd : r # rd => \A n \in reserve_txes[r] :
      SlotIn(r, n) > 0 => <<r, n>> \in DOMAIN dstates

Parts == ListKinds /\ InTurn /\ Participants /\ StatesHaveSlots /\ Accounts /\ Served /\ ServedBefore

SlotInv ==
  /\ TypeOK /\ EffectiveBounds /\ WithinRequest
  /\ stage # "changed" => Parts
  /\ stage = "parsed" => origins = {}

-----------------------------------------------------------------------------
(* What stays as it is *)

LEMMA SlotFrame ==
  ASSUME chain' = chain, NEW r,
         available_slot_amount'[r] = available_slot_amount[r],
         reserve_txes'[r] = reserve_txes[r], signalling_txes'[r] = signalling_txes[r]
  PROVE  \A n : SlotIn(r, n)' = SlotIn(r, n)
BY DEF SlotIn, PrioritySlot, FirstServeSlot, Amount, Reserved

LEMMA TotalsFrame ==
  ASSUME NEW r, OfRound(r)' = OfRound(r), \A k \in OfRound(r) : dstates'[k] = dstates[k]
  PROVE  Locked(r)' = Locked(r) /\ Effective(r)' = Effective(r)
<1> DEFINE K == OfRound(r)
           l == [k \in K |-> dstates[k].effective_locking_slot]
           e == [k \in K |-> dstates[k].effective_slot]
           m == [k \in K |-> dstates'[k].effective_locking_slot]
           f == [k \in K |-> dstates'[k].effective_slot]
<1>1. \A k \in K : l[k] = m[k] /\ e[k] = f[k]
  OBVIOUS
<1>2. Locked(r) = Sum(K, l) /\ Effective(r) = Sum(K, e)
  BY DEF Locked, Effective
<1>3. Locked(r)' = Sum(K, m) /\ Effective(r)' = Sum(K, f)
  BY DEF Locked, Effective
<1> HIDE DEF K, l, e, m, f
<1> QED BY <1>1, <1>2, <1>3, SumAgree

(* The available amount of a round depends on the rounds before.           *)
LEMMA AvailableFrame ==
  ASSUME NEW r \in Rounds,
         \A q \in Rounds : q < r =>
            /\ available_slot_amount'[q] = available_slot_amount[q]
            /\ OfRound(q)' = OfRound(q) /\ \A k \in OfRound(q) : dstates'[k] = dstates[k]
  PROVE  Available(r)' = Available(r)
<1>1. \A q \in Rounds : q < r => Locked(q)' = Locked(q) /\ Effective(q)' = Effective(q)
  <2> SUFFICES ASSUME NEW q \in Rounds, q < r
               PROVE  Locked(q)' = Locked(q) /\ Effective(q)' = Effective(q)
    OBVIOUS
  <2>1. OfRound(q)' = OfRound(q) /\ \A k \in OfRound(q) : dstates'[k] = dstates[k]
    OBVIOUS
  <2> QED BY <2>1, TotalsFrame
<1>2. CASE r = 0
  BY <1>2 DEF Available
<1>3. CASE r \in 1 .. 3
  <2>1. r - 1 \in Rounds /\ r - 1 < r
    BY <1>3 DEF Rounds
  <2>2. Available(r) = available_slot_amount[r - 1] - Locked(r - 1)
    BY <1>3 DEF Available
  <2>3. Available(r)' = available_slot_amount'[r - 1] - Locked(r - 1)'
    BY <1>3 DEF Available
  <2> QED BY <1>1, <2>1, <2>2, <2>3
<1>4. CASE r = 4
  <2>1. Available(r) = ReqAmount - (Effective(0) + Effective(1) + Effective(2) + Effective(3))
    BY <1>4 DEF Available
  <2>2. Available(r)' = ReqAmount - (Effective(0)' + Effective(1)' + Effective(2)' + Effective(3)')
    BY <1>4 DEF Available
  <2>3. /\ 0 \in Rounds /\ 1 \in Rounds /\ 2 \in Rounds /\ 3 \in Rounds
        /\ 0 < r /\ 1 < r /\ 2 < r /\ 3 < r
    BY <1>4 DEF Rounds
  <2> QED BY <1>1, <2>1, <2>2, <2>3
<1>5. CASE r \in 5 .. 7
  <2>1. r - 1 \in Rounds /\ r - 1 < r
    BY <1>5 DEF Rounds
  <2>2. Available(r) = available_slot_amount[r - 1] - Effective(r - 1)
    BY <1>5 DEF Available
  <2>3. Available(r)' = available_slot_amount'[r - 1] - Effective(r - 1)'
    BY <1>5 DEF Available
  <2> QED BY <1>1, <2>1, <2>2, <2>3
<1> QED BY <1>2, <1>3, <1>4, <1>5 DEF Rounds

-----------------------------------------------------------------------------
(* The chain *)

LEMMA MineKeeps ==
  ASSUME SlotInv, Mine
  PROVE  SlotInv'
<1>1. TypeOK
  BY DEF SlotInv
<1>2. PICK tx \in Txs, out \in {NoOutput} \cup [tx : DOMAIN chain, output : {2, 3}] :
        tx.place = place /\ chain' = Append(chain, [tx EXCEPT !.spends = out])
  BY DEF Mine
<1>3. /\ place' = place /\ stage' = "changed"
      /\ UNCHANGED <<rd, todo, origins, setup, choice, earlier>>
  BY DEF Mine, Changed
<1> DEFINE new == [tx EXCEPT !.spends = out]
<1>4. tx \in Tx /\ tx.place = place
  BY <1>2, TxsAssumption
<1>5. new \in Tx /\ new.place = place /\ new.spends = out
  <2>1. out \in [tx : Nat, output : {0, 2, 3}]
    BY <1>1, ChainType DEF NoOutput, None, TypeOK
  <2> QED BY <1>4, <2>1 DEF Tx
<1>6. /\ chain' \in Seq(Tx) /\ Len(chain') = Len(chain) + 1 /\ Len(chain) \in Nat
      /\ \A n \in DOMAIN chain : n \in DOMAIN chain' /\ chain'[n] = chain[n]
      /\ chain'[Len(chain) + 1] = new
      /\ DOMAIN chain' = DOMAIN chain \cup {Len(chain) + 1}
  <2> HIDE DEF new
  <2> QED BY <1>1, <1>2, <1>5 DEF TypeOK, new
<1>7. \A n \in DOMAIN chain' : chain'[n].spends.tx < n /\ chain'[n].place <= place'
  <2>1. \A n \in DOMAIN chain : chain'[n].spends.tx < n /\ chain'[n].place <= place'
    BY <1>1, <1>3, <1>6 DEF TypeOK
  <2>2. out.tx < Len(chain) + 1
    <3>1. CASE out = NoOutput
      BY <1>6, <3>1 DEF NoOutput, None
    <3>2. CASE out \in [tx : DOMAIN chain, output : {2, 3}]
      BY <1>1, <1>6, <3>2, ChainType DEF TypeOK
    <3> QED BY <3>1, <3>2
  <2>3. new.place <= place'
    BY <1>1, <1>3, <1>5 DEF TypeOK
  <2> HIDE DEF new
  <2> QED BY <1>5, <1>6, <2>1, <2>2, <2>3
<1>8. DOMAIN chain \subseteq DOMAIN chain'
  BY <1>6
<1>9. TypeOK'
  <2>1. /\ todo' \subseteq Candidates' /\ origins' \subseteq Candidates'
        /\ DOMAIN donor_address' \subseteq Objects'
        /\ \A d \in DOMAIN donor_address' : donor_address'[d] \in Addr
    BY <1>1, <1>3, <1>8 DEF TypeOK, Candidates, Objects, choice
  <2>2. locking_txes' \in [Rounds -> Seq(Objects')] /\ donation_txes' \in [Rounds -> Seq(Objects')]
    <3>1. Objects \subseteq Objects'
      BY <1>8 DEF Objects
    <3>2. Seq(Objects) \subseteq Seq(Objects')
      BY <3>1
    <3> QED BY <1>1, <1>3, <3>2 DEF TypeOK, choice
  <2>3. /\ reserve_txes' \in [Rounds -> SUBSET DOMAIN chain']
        /\ signalling_txes' \in [Rounds -> SUBSET DOMAIN chain']
        /\ available_slot_amount' \in [Rounds -> Nat]
        /\ donor_addresses' \subseteq Addr \X {0, 1}
    BY <1>1, <1>3, <1>8 DEF TypeOK, setup
  <2>4. /\ DOMAIN dstates' \subseteq Rounds \X DOMAIN chain'
        /\ selected_successors' \subseteq DOMAIN chain'
    BY <1>1, <1>3, <1>8 DEF TypeOK, choice
  <2>5. \A k \in DOMAIN dstates' : dstates'[k] \in DonationState'
    BY <1>1, <1>3, <1>8 DEF TypeOK, choice, DonationState
  <2>6. stage' \in Stages /\ rd' \in -1 .. 7 /\ (stage' \in Validating => rd' # -1) /\ place' \in 0 .. 17
    BY <1>1, <1>3 DEF TypeOK, Stages, Validating
  <2> QED BY <1>6, <1>7, <2>1, <2>2, <2>3, <2>4, <2>5, <2>6 DEF TypeOK
<1>10. (EffectiveBounds /\ WithinRequest)'
  BY <1>3 DEF SlotInv, EffectiveBounds, WithinRequest, choice
<1> QED BY <1>3, <1>9, <1>10 DEF SlotInv

LEMMA PassKeeps ==
  ASSUME SlotInv, Pass
  PROVE  SlotInv'
<1>1. TypeOK
  BY DEF SlotInv
<1>2. /\ chain' = chain /\ stage' = "changed"
      /\ UNCHANGED <<rd, todo, origins, setup, choice, earlier>>
      /\ place' \in 0 .. 17 /\ place' > place
  BY BoundsAssumption DEF Pass, Changed
<1>3. \A n \in DOMAIN chain' : chain'[n].spends.tx < n /\ chain'[n].place <= place'
  <2>1. chain \in Seq(Tx) /\ place \in Nat
    BY <1>1 DEF TypeOK
  <2>2. \A n \in DOMAIN chain : chain[n] \in Tx
    BY <2>1, ChainType
  <2>3. \A n \in DOMAIN chain : chain[n].place \in Nat
    BY <2>2 DEF Tx
  <2>4. \A n \in DOMAIN chain : chain[n].spends.tx < n /\ chain[n].place <= place
    BY <1>1 DEF TypeOK
  <2> QED BY <1>2, <2>1, <2>3, <2>4
<1>4. TypeOK'
  BY <1>1, <1>2, <1>3
     DEF TypeOK, setup, choice, Candidates, Objects, DonationState, Stages, Validating
<1>5. (EffectiveBounds /\ WithinRequest)'
  BY <1>2 DEF SlotInv, EffectiveBounds, WithinRequest, choice
<1> QED BY <1>2, <1>4, <1>5 DEF SlotInv

(* WithinRequest follows from the rest, in the next state as well.         *)
RewardBasis == /\ TypeOK /\ Participants /\ StatesHaveSlots /\ EffectiveBounds /\ Accounts

LEMMA BasisFits == RewardBasis => WithinRequest
BY RewardsFit DEF RewardBasis

LEMMA BasisFitsNext == RewardBasis' => WithinRequest'
BY BasisFits, PTL

-----------------------------------------------------------------------------
(* The beginning and the rounds *)

(* Before the first round nothing is left of the parse before.             *)
Cleared ==
  /\ stage \in {"changed", "parsing"} /\ rd = -1 /\ todo = {} /\ origins = {}
  /\ donor_addresses = {} /\ selected_successors = {} /\ donor_address = <<>>
  /\ available_slot_amount = [r \in Rounds |-> 0]
  /\ reserve_txes = [r \in Rounds |-> {}] /\ signalling_txes = [r \in Rounds |-> {}]
  /\ locking_txes = [r \in Rounds |-> <<>>] /\ donation_txes = [r \in Rounds |-> <<>>]
  /\ dstates = <<>>
  /\ chain \in Seq(Tx) /\ place \in 0 .. 17
  /\ \A n \in DOMAIN chain : chain[n].spends.tx < n /\ chain[n].place <= place

LEMMA ClearedIsSafe == Cleared => SlotInv
<1> SUFFICES ASSUME Cleared
             PROVE  SlotInv
  OBVIOUS
<1>1. DOMAIN dstates = {} /\ DOMAIN donor_address = {}
  BY DEF Cleared
<1>2. TypeOK
  <2>1. locking_txes \in [Rounds -> Seq(Objects)] /\ donation_txes \in [Rounds -> Seq(Objects)]
    BY DEF Cleared
  <2>2. stage \in Stages /\ stage \notin Validating /\ rd \in -1 .. 7
    BY DEF Cleared, Stages, Validating
  <2>3. available_slot_amount \in [Rounds -> Nat]
    BY DEF Cleared
  <2> QED BY <1>1, <2>1, <2>2, <2>3 DEF Cleared, TypeOK
<1>3. EffectiveBounds /\ StatesHaveSlots
  BY <1>1 DEF EffectiveBounds, StatesHaveSlots
<1>4. WithinRequest
  <2>1. ReqAmount \in Nat
    BY ProposalAssumption
  <2> QED BY <1>1, <2>1, SumEmpty DEF WithinRequest
<1>5. ListKinds /\ Participants
  BY DEF Cleared, ListKinds, Participants
<1>6. InTurn /\ ServedBefore
  BY DEF Cleared, InTurn, ServedBefore, Validating
<1>7. Accounts /\ Served
  BY DEF Cleared, Accounts, Served
<1> QED BY <1>2, <1>3, <1>4, <1>5, <1>6, <1>7 DEF SlotInv, Parts, Cleared

LEMMA ClearedNext == Cleared' => SlotInv'
BY ClearedIsSafe, PTL

LEMMA InitClears ==
  ASSUME Init
  PROVE  SlotInv
<1>1. chain \in Seq(Tx) /\ DOMAIN chain = {}
  BY DEF Init
<1> QED BY <1>1, ClearedIsSafe DEF Init, Cleared

LEMMA BeginKeeps ==
  ASSUME SlotInv, Begin
  PROVE  SlotInv'
<1>1. chain' = chain /\ place' = place
  BY DEF Begin, env
<1>2. Cleared'
  BY <1>1 DEF SlotInv, TypeOK, Begin, Cleared
<1> QED BY <1>2, ClearedNext


LEMMA OpenKeeps ==
  ASSUME SlotInv, RoundDone, NEW r \in Rounds, r = rd + 1, NEW txes, Open(r, txes),
         txes \subseteq Candidates, \A c \in txes : Proper(c)',
         \A c \in txes : IsReserve(c.tx) <=> r \in PriorityRounds
  PROVE  SlotInv'
<1>1. TypeOK /\ EffectiveBounds /\ WithinRequest /\ Parts
  BY DEF SlotInv, RoundDone
<1>2. /\ stage = "parsing" /\ origins = {} /\ stage' = "basic" /\ rd' = r /\ todo' = txes
      /\ chain' = chain /\ place' = place /\ origins' = {}
      /\ available_slot_amount' = [available_slot_amount EXCEPT ![r] = Available(r)]
      /\ donor_addresses' = donor_addresses /\ reserve_txes' = reserve_txes
      /\ signalling_txes' = signalling_txes /\ selected_successors' = selected_successors
      /\ donor_address' = donor_address /\ locking_txes' = locking_txes
      /\ donation_txes' = donation_txes /\ dstates' = dstates
  BY DEF Open, RoundDone, env, choice
<1>3. rd \in -1 .. 7 /\ rd' = rd + 1 /\ rd < 7
  BY <1>1, <1>2, Ranges
<1>4. Available(r) \in Nat
  BY <1>1, <1>3, NextAvailable DEF Parts
<1>5. /\ available_slot_amount' \in [Rounds -> Nat]
      /\ \A q \in Rounds : q # r => available_slot_amount'[q] = available_slot_amount[q]
      /\ available_slot_amount'[r] = Available(r)
  <2>1. available_slot_amount \in [Rounds -> Nat]
    BY <1>1 DEF TypeOK
  <2> QED BY <1>2, <1>4, <2>1
<1>6. TypeOK'
  <2>1. stage' \in Stages /\ rd' \in -1 .. 7 /\ rd' # -1
    BY <1>2, <1>3 DEF Stages, Validating
  <2> QED BY <1>1, <1>2, <1>5, <2>1 DEF TypeOK, Candidates, Objects, DonationState
<1>7. (EffectiveBounds /\ WithinRequest)'
  BY <1>1, <1>2 DEF EffectiveBounds, WithinRequest
<1>8. \A q \in Rounds : q # r => \A n : SlotIn(q, n)' = SlotIn(q, n)
  <2> SUFFICES ASSUME NEW q \in Rounds, q # r
               PROVE  \A n : SlotIn(q, n)' = SlotIn(q, n)
    OBVIOUS
  <2>1. /\ available_slot_amount'[q] = available_slot_amount[q]
        /\ reserve_txes'[q] = reserve_txes[q] /\ signalling_txes'[q] = signalling_txes[q]
    BY <1>2, <1>5
  <2> QED BY <1>2, <2>1, SlotFrame
<1>9. \A q \in Rounds : q <= r => Available(q)' = Available(q)
  <2> SUFFICES ASSUME NEW q \in Rounds, q <= r
               PROVE  Available(q)' = Available(q)
    OBVIOUS
  <2>1. \A p \in Rounds : p < q =>
          /\ available_slot_amount'[p] = available_slot_amount[p]
          /\ OfRound(p)' = OfRound(p) /\ \A k \in OfRound(p) : dstates'[k] = dstates[k]
    BY <1>2, <1>5 DEF OfRound, Rounds
  <2> QED BY <2>1, AvailableFrame
<1>10. Accounts'
  <2>1. \A q \in 0 .. r : q \in Rounds /\ q <= r /\ (q # r => q \in 0 .. rd)
    BY <1>2, <1>3 DEF Rounds
  <2>2. \A q \in 0 .. rd : available_slot_amount[q] = Available(q)
    BY <1>1 DEF Parts, Accounts
  <2> QED BY <1>2, <1>5, <1>9, <2>1, <2>2 DEF Accounts
<1>11. StatesHaveSlots'
  <2>1. ASSUME NEW k \in DOMAIN dstates
        PROVE  /\ k[1] < r /\ k[2] \in Participating(k[1])'
               /\ dstates[k].slot = SlotIn(k[1], k[2])'
    <3>1. /\ k[1] <= rd /\ k[2] \in Participating(k[1])
          /\ dstates[k].slot = SlotIn(k[1], k[2]) /\ k[1] \in Rounds
      BY <1>1, StatesType DEF Parts, StatesHaveSlots
    <3>2. k[1] < r /\ k[1] # r
      BY <1>2, <1>3, <3>1 DEF Rounds
    <3>3. SlotIn(k[1], k[2])' = SlotIn(k[1], k[2])
      BY <1>8, <3>1, <3>2
    <3> QED BY <1>2, <3>1, <3>2, <3>3 DEF Participating
  <2>2. \A k \in DOMAIN dstates : k[1] \in Rounds /\ (k[1] < r => k[1] <= r)
    BY <1>1, StatesType DEF Rounds
  <2> QED BY <1>2, <2>1, <2>2 DEF StatesHaveSlots
<1>12. Participants'
  <2>1. \A q \in Rounds : q > r => q > rd
    BY <1>3, <1>2 DEF Rounds
  <2> QED BY <1>1, <1>2, <2>1 DEF Parts, Participants, Reserves, IsReserve
<1>13. ListKinds'
  BY <1>1, <1>2 DEF Parts, ListKinds
<1>14. InTurn'
  <2>1. r > rd
    BY <1>3, <1>2
  <2>2. reserve_txes[r] = {} /\ signalling_txes[r] = {}
    BY <1>1, <2>1 DEF Parts, Participants
  <2> QED BY <1>2, <2>2 DEF InTurn, IsReserve, Validating
<1>15. Served' /\ ServedBefore'
  <2>1. ASSUME NEW q \in 0 .. r, q # r, NEW n \in reserve_txes'[q], SlotIn(q, n)' > 0
        PROVE  <<q, n>> \in DOMAIN dstates'
    <3>1. q \in Rounds /\ q \in 0 .. rd
      BY <1>3, <1>2, <2>1 DEF Rounds
    <3>2. SlotIn(q, n) > 0 /\ n \in reserve_txes[q]
      BY <1>2, <1>8, <2>1, <3>1
    <3>3. Ids(origins) = {}
      BY <1>2 DEF Ids
    <3> QED BY <1>1, <1>2, <3>1, <3>2, <3>3 DEF Parts, Served
  <2> QED BY <1>2, <2>1 DEF Served, ServedBefore
<1> QED BY <1>2, <1>6, <1>7, <1>10, <1>11, <1>12, <1>13, <1>14, <1>15 DEF SlotInv, Parts


(* The candidates of a round *)
LEMMA SignalsType ==
  ASSUME chain \in Seq(Tx), NEW r \in Rounds
  PROVE  /\ Signals(r) \subseteq Candidates
         /\ \A c \in Signals(r) : /\ c.tx \in Sorted("signalling", r) /\ ~IsReserve(c.tx)
                                  /\ chain[c.tx].kind = "signalling" /\ InRound(c.tx, r)
<1>1. \A c \in Signals(r) : \E n \in Sorted("signalling", r) :
        c = [tx |-> n, copy |-> FALSE, list |-> r, index |-> 0]
  BY DEF Signals, Candidate, Object
<1>2. Sorted("signalling", r) \subseteq DOMAIN chain
  BY DEF Sorted
<1>3. \A n \in Sorted("signalling", r) : chain[n].kind = "signalling" /\ InRound(n, r)
  BY DEF Sorted
<1> SUFFICES ASSUME NEW c \in Signals(r)
             PROVE  /\ c \in Candidates
                    /\ c.tx \in Sorted("signalling", r) /\ ~IsReserve(c.tx)
                    /\ chain[c.tx].kind = "signalling" /\ InRound(c.tx, r)
  OBVIOUS
<1>4. PICK n \in Sorted("signalling", r) : c = [tx |-> n, copy |-> FALSE, list |-> r, index |-> 0]
  BY <1>1
<1>5. c \in Candidates /\ c.tx = n
  BY <1>2, <1>4 DEF Candidates
<1> QED BY <1>3, <1>5 DEF IsReserve

LEMMA OpenRoundKeeps ==
  ASSUME SlotInv, OpenRound
  PROVE  SlotInv'
<1> DEFINE r == rd + 1
<1>1. r \in Rounds /\ r \notin PriorityRounds /\ RoundDone /\ Open(r, Signals(r))
  <2>1. TypeOK
    BY DEF SlotInv
  <2> QED BY <2>1, Ranges DEF OpenRound
<1>2. chain \in Seq(Tx)
  BY DEF SlotInv, TypeOK
<1>3. chain' = chain /\ rd' = r
  BY <1>1 DEF Open, env
<1> HIDE DEF r
<1>4. /\ Signals(r) \subseteq Candidates
      /\ \A c \in Signals(r) : Proper(c)' /\ ~IsReserve(c.tx)
  BY <1>1, <1>2, <1>3, SignalsType DEF Proper, InRound
<1> QED BY <1>1, <1>4, OpenKeeps DEF r

LEMMA BaseTxesType ==
  ASSUME TypeOK, ListKinds, NEW r \in PriorityRounds, NEW c \in BaseTxes(r)
  PROVE  /\ c \in Candidates /\ IsReserve(c.tx)
         /\ \/ chain[c.tx].kind = "locking" /\ r \in {1, 2}
            \/ chain[c.tx].kind = "donation" /\ r \in {4, 5}
               /\ Object(c.tx, c.copy) \in DOMAIN donor_address
<1> DEFINE txes(q) == IF r < 4 THEN locking_txes[q] ELSE donation_txes[q]
<1>1. \E q \in Rounds : c \in {Candidate(txes(q)[i], q, i) : i \in DOMAIN txes(q)}
  BY DEF BaseTxes, PriorityRounds, Rounds
<1>2. PICK q \in Rounds : \E i \in DOMAIN txes(q) : c = Candidate(txes(q)[i], q, i)
  BY <1>1
<1>3. PICK i \in DOMAIN txes(q) : c = Candidate(txes(q)[i], q, i)
  BY <1>2
<1>4. txes(q) \in Seq(Objects)
  BY DEF TypeOK
<1>5. IF r < 4 THEN chain[txes(q)[i].tx].kind = "locking"
      ELSE chain[txes(q)[i].tx].kind = "donation" /\ txes(q)[i] \in DOMAIN donor_address
  BY <1>3 DEF ListKinds
<1> HIDE DEF txes
<1>6. txes(q)[i] \in Objects /\ i \in Nat
  BY <1>3, <1>4
<1> DEFINE o == txes(q)[i]
<1>7. o \in [tx : DOMAIN chain, copy : BOOLEAN] /\ c = Candidate(o, q, i)
  BY <1>3, <1>6 DEF Objects
<1> HIDE DEF o
<1>8. c \in Candidates /\ c.tx = o.tx /\ Object(c.tx, c.copy) = o
  BY <1>6, <1>7 DEF Candidate, Candidates, Object
<1> QED BY <1>5, <1>8 DEF o, IsReserve, PriorityRounds

LEMMA PriorityRoundKeeps ==
  ASSUME SlotInv, PriorityRound
  PROVE  SlotInv'
<1> DEFINE r == rd + 1
<1>1. r \in Rounds /\ r \in PriorityRounds /\ RoundDone /\ Open(r, BaseTxes(r))
  BY DEF PriorityRound, PriorityRounds, Rounds
<1>2. TypeOK /\ ListKinds
  BY <1>1 DEF SlotInv, Parts, RoundDone
<1>3. chain' = chain /\ rd' = r /\ donor_address' = donor_address
  BY <1>1 DEF Open, env, choice
<1> HIDE DEF r
<1>4. /\ BaseTxes(r) \subseteq Candidates
      /\ \A c \in BaseTxes(r) : Proper(c)' /\ IsReserve(c.tx)
  <2> SUFFICES ASSUME NEW c \in BaseTxes(r)
               PROVE  c \in Candidates /\ Proper(c)' /\ IsReserve(c.tx)
    OBVIOUS
  <2> QED BY <1>1, <1>2, <1>3, BaseTxesType DEF Proper
<1> QED BY <1>1, <1>4, OpenKeeps DEF r


-----------------------------------------------------------------------------
(* The validation *)

LEMMA ExamineKeeps ==
  ASSUME SlotInv, stage \in Validating, NEW c \in todo, Examine(c),
         \/ origins' = origins
         \/ origins' = origins \cup {c} /\ (IsReserve(c.tx) => chain[c.tx].reserved > 0),
         donor_addresses' \subseteq Addr \X {0, 1}, selected_successors' \subseteq selected_successors
  PROVE  SlotInv'
<1>1. TypeOK /\ EffectiveBounds /\ WithinRequest /\ Parts
  BY DEF SlotInv, Validating
<1>2. /\ stage' = stage /\ rd' = rd /\ todo' = todo \ {c}
      /\ chain' = chain /\ place' = place
      /\ available_slot_amount' = available_slot_amount
      /\ reserve_txes' = reserve_txes /\ signalling_txes' = signalling_txes
      /\ donor_address' = donor_address /\ locking_txes' = locking_txes
      /\ donation_txes' = donation_txes /\ dstates' = dstates
  BY DEF Examine, env
<1>3. origins \subseteq origins' /\ origins' \subseteq origins \cup {c}
  OBVIOUS
<1>4. TypeOK'
  BY <1>1, <1>2, <1>3 DEF TypeOK, Candidates, Objects, DonationState
<1>5. (EffectiveBounds /\ WithinRequest)'
  BY <1>1, <1>2 DEF EffectiveBounds, WithinRequest
<1>6. \A r : \A n : SlotIn(r, n)' = SlotIn(r, n)
  BY <1>2, SlotFrame
<1>7. \A r \in Rounds : Available(r)' = Available(r)
  BY <1>2, AvailableFrame DEF OfRound
<1>8. Accounts'
  <2>1. \A r \in 0 .. rd : r \in Rounds
    BY <1>1, Ranges
  <2> QED BY <1>1, <1>2, <1>7, <2>1 DEF Parts, Accounts
<1>9. StatesHaveSlots' /\ Participants' /\ ListKinds'
  BY <1>1, <1>2, <1>6 DEF Parts, StatesHaveSlots, Participating, Participants, Reserves,
     IsReserve, ListKinds
<1>10. InTurn'
  <2>1. InTurn
    BY <1>1 DEF Parts
  <2>2. rd \in Rounds
    BY <2>1 DEF InTurn
  <2>3. \A d \in todo' \cup origins' : Proper(d)'
    <3>1. \A d : Proper(d)' <=> Proper(d)
      BY <1>2 DEF Proper, InRound
    <3> QED BY <1>2, <1>3, <2>1, <3>1 DEF InTurn
  <2>4. \A n : /\ IsReserve(n)' <=> IsReserve(n)
               /\ Reserves(n)' <=> Reserves(n)
               /\ Reserves(n) <=> IsReserve(n) /\ chain[n].reserved > 0
    BY <1>2 DEF IsReserve, Reserves
  <2>5. stage = "basic" =>
          /\ \A d \in todo' : IsReserve(d.tx) <=> rd \in PriorityRounds
          /\ \A d \in origins' : IF rd \in PriorityRounds THEN Reserves(d.tx) ELSE ~IsReserve(d.tx)
          /\ reserve_txes[rd] = {} /\ signalling_txes[rd] = {}
    BY <1>2, <1>3, <2>1, <2>4 DEF InTurn
  <2>6. stage = "reserves" => /\ rd \in PriorityRounds
                              /\ reserve_txes[rd] = {} /\ signalling_txes[rd] = {}
                              /\ \A d \in todo' \cup origins' : Reserves(d.tx)
    BY <1>2, <1>3, <2>1 DEF InTurn
  <2>7. stage = "signals" =>
          /\ rd \in PriorityRounds /\ signalling_txes[rd] = {}
          /\ reserve_txes[rd] \subseteq Ids(origins')
          /\ \A d \in todo' : ~IsReserve(d.tx)
          /\ \A d \in origins' : IsReserve(d.tx) => d.tx \in reserve_txes[rd]
    <3>1. Ids(origins) \subseteq Ids(origins')
      BY <1>3 DEF Ids
    <3> QED BY <1>2, <1>3, <2>1, <3>1 DEF InTurn
  <2>8. stage # "parsing"
    BY DEF Validating
  <2>9. Ids(origins)' = Ids(origins')
    BY DEF Ids
  <2> QED BY <1>2, <2>2, <2>3, <2>4, <2>5, <2>6, <2>7, <2>8, <2>9 DEF InTurn
<1>11. Served' /\ ServedBefore'
  <2>1. \A r \in 0 .. rd : r # rd => \A n \in reserve_txes[r] :
          SlotIn(r, n) > 0 => <<r, n>> \in DOMAIN dstates
    BY <1>1 DEF Parts, ServedBefore
  <2> QED BY <1>2, <1>6, <2>1 DEF Served, ServedBefore, Validating
<1>12. stage' # "parsed"
  BY <1>2 DEF Validating
<1> QED BY <1>4, <1>5, <1>8, <1>9, <1>10, <1>11, <1>12 DEF SlotInv, Parts

LEMMA ValidatedType ==
  ASSUME TypeOK, stage \in Validating, NEW c \in todo
  PROVE  /\ c.tx \in DOMAIN chain /\ <<Claimant(c.tx), Phase(rd)>> \in Addr \X {0, 1}
<1>1. c.tx \in DOMAIN chain /\ rd \in 0 .. 7 /\ chain \in Seq(Tx)
  BY DEF TypeOK, Candidates
<1>2. Claimant(c.tx) \in Addr
  BY <1>1, KindsType
<1>3. Phase(rd) \in {0, 1}
  BY <1>1 DEF Phase
<1> QED BY <1>1, <1>2, <1>3

LEMMA BasicKeeps ==
  ASSUME SlotInv, NEW c \in todo, Basic(c)
  PROVE  SlotInv'
<1>1. stage \in Validating /\ Examine(c) /\ TypeOK
  BY DEF Basic, Validating, SlotInv
<1>2. /\ origins' = origins \/ (origins' = origins \cup {c} /\ ~Unreserved(c))
      /\ selected_successors' \subseteq selected_successors
      /\ donor_addresses' \in {donor_addresses, donor_addresses \cup {<<Claimant(c.tx), Phase(rd)>>}}
  BY DEF Basic, Ignore, Refuse, Accept, Add, Deleted
<1>3. ~Unreserved(c) => (IsReserve(c.tx) => chain[c.tx].reserved > 0)
  <2>1. c.tx \in DOMAIN chain /\ chain \in Seq(Tx)
    BY <1>1, ValidatedType DEF TypeOK
  <2>2. chain[c.tx].reserved \in Nat
    BY <2>1, KindsType
  <2> QED BY <2>2 DEF Unreserved
<1>4. donor_addresses' \subseteq Addr \X {0, 1}
  <2>1. donor_addresses \subseteq Addr \X {0, 1}
    BY <1>1 DEF TypeOK
  <2> QED BY <1>1, <1>2, <2>1, ValidatedType
<1> QED BY <1>1, <1>2, <1>3, <1>4, ExamineKeeps

LEMMA PriorityKeeps ==
  ASSUME SlotInv, NEW c \in todo, Priority(c)
  PROVE  SlotInv'
<1>1. stage \in Validating /\ stage \in {"reserves", "signals"} /\ Examine(c) /\ TypeOK
  BY DEF Priority, Validating, SlotInv
<1>2. /\ origins' = origins \/ origins' = origins \cup {c}
      /\ selected_successors' \subseteq selected_successors
      /\ donor_addresses' \in {donor_addresses, donor_addresses \cup {<<Claimant(c.tx), Phase(rd)>>}}
  BY DEF Priority, Ignore, Refuse, Accept, Add, Deleted
<1>3. IsReserve(c.tx) => chain[c.tx].reserved > 0
  <2>1. InTurn
    BY <1>1 DEF SlotInv, Parts
  <2> QED BY <1>1, <2>1 DEF InTurn, Reserves
<1>4. donor_addresses' \subseteq Addr \X {0, 1}
  <2>1. donor_addresses \subseteq Addr \X {0, 1}
    BY <1>1 DEF TypeOK
  <2> QED BY <1>1, <1>2, <2>1, ValidatedType
<1> QED BY <1>1, <1>2, <1>3, <1>4, ExamineKeeps


(* What the lists of a round do not change.                                *)
LEMMA ListFrame ==
  ASSUME TypeOK, EffectiveBounds, WithinRequest, Parts, stage \in Validating, Listed,
         \A r \in Rounds : r # rd => /\ reserve_txes'[r] = reserve_txes[r]
                                     /\ signalling_txes'[r] = signalling_txes[r]
  PROVE  /\ (EffectiveBounds /\ WithinRequest /\ StatesHaveSlots /\ Accounts)'
         /\ (ListKinds /\ ServedBefore)'
         /\ \A r \in 0 .. rd : r # rd => \A n \in reserve_txes'[r] :
              SlotIn(r, n)' > 0 => <<r, n>> \in DOMAIN dstates'
<1>1. /\ rd' = rd /\ chain' = chain /\ available_slot_amount' = available_slot_amount
      /\ donor_address' = donor_address /\ locking_txes' = locking_txes
      /\ donation_txes' = donation_txes /\ dstates' = dstates
  BY DEF Listed, env
<1>2. (EffectiveBounds /\ WithinRequest /\ ListKinds)'
  BY <1>1 DEF EffectiveBounds, WithinRequest, ListKinds, Parts
<1>3. \A r \in Rounds : r # rd => \A n : SlotIn(r, n)' = SlotIn(r, n)
  BY <1>1, SlotFrame
<1>4. \A r \in Rounds : Available(r)' = Available(r)
  BY <1>1, AvailableFrame DEF OfRound
<1>5. Accounts'
  <2>1. \A r \in 0 .. rd : r \in Rounds
    BY Ranges
  <2> QED BY <1>1, <1>4, <2>1 DEF Parts, Accounts
<1>6. StatesHaveSlots'
  <2>1. ASSUME NEW k \in DOMAIN dstates
        PROVE  /\ k[1] < rd /\ k[1] <= rd /\ k[2] \in Participating(k[1])'
               /\ dstates[k].slot = SlotIn(k[1], k[2])'
    <3>1. /\ k[1] <= rd /\ k[1] < rd /\ k[2] \in Participating(k[1])
          /\ dstates[k].slot = SlotIn(k[1], k[2]) /\ k[1] \in Rounds
      BY StatesType DEF Parts, StatesHaveSlots
    <3>2. k[1] # rd
      BY <3>1 DEF Rounds
    <3>3. SlotIn(k[1], k[2])' = SlotIn(k[1], k[2])
      BY <1>3, <3>1, <3>2
    <3> QED BY <3>1, <3>2, <3>3 DEF Participating
  <2> QED BY <1>1, <2>1 DEF StatesHaveSlots
<1>7. \A r \in 0 .. rd : r # rd => \A n \in reserve_txes'[r] :
        SlotIn(r, n)' > 0 => <<r, n>> \in DOMAIN dstates'
  <2> SUFFICES ASSUME NEW r \in 0 .. rd, r # rd, NEW n \in reserve_txes'[r], SlotIn(r, n)' > 0
               PROVE  <<r, n>> \in DOMAIN dstates'
    OBVIOUS
  <2>1. r \in Rounds
    BY Ranges
  <2>2. n \in reserve_txes[r] /\ SlotIn(r, n) > 0
    BY <1>3, <2>1
  <2> QED BY <1>1, <2>2 DEF Parts, ServedBefore
<1>8. ServedBefore'
  BY <1>1, <1>7 DEF ServedBefore
<1> QED BY <1>2, <1>5, <1>6, <1>7, <1>8

LEMMA ListBasicKeeps ==
  ASSUME SlotInv, ListBasic
  PROVE  SlotInv'
<1>1. /\ TypeOK /\ EffectiveBounds /\ WithinRequest /\ Parts
      /\ stage = "basic" /\ Listed /\ rd \in PriorityRounds
  BY DEF SlotInv, ListBasic
<1>2. /\ stage' = "reserves" /\ todo' = origins /\ origins' = {} /\ rd' = rd
      /\ chain' = chain /\ place' = place /\ donor_addresses' = donor_addresses
      /\ available_slot_amount' = available_slot_amount /\ donor_address' = donor_address
      /\ locking_txes' = locking_txes /\ donation_txes' = donation_txes /\ dstates' = dstates
      /\ reserve_txes' = reserve_txes /\ signalling_txes' = signalling_txes
      /\ selected_successors' = selected_successors
  BY <1>1 DEF ListBasic, Listed, env
<1>3. TypeOK'
  BY <1>1, <1>2 DEF TypeOK, Candidates, Objects, DonationState, Stages, Validating
<1>4. /\ (EffectiveBounds /\ WithinRequest /\ StatesHaveSlots /\ Accounts)'
      /\ (ListKinds /\ ServedBefore)'
  BY <1>1, <1>2, ListFrame DEF Validating
<1>5. Participants'
  BY <1>1, <1>2 DEF Parts, Participants, Reserves, IsReserve
<1>6. InTurn'
  <2>1. InTurn
    BY <1>1 DEF Parts
  <2>2. \A d : (Proper(d)' <=> Proper(d)) /\ (Reserves(d.tx)' <=> Reserves(d.tx))
    BY <1>2 DEF Proper, InRound, Reserves, IsReserve
  <2>3. rd \in Rounds
    BY <1>1 DEF PriorityRounds, Rounds
  <2> QED BY <1>1, <1>2, <2>1, <2>2, <2>3 DEF InTurn
<1>7. Served'
  BY <1>2 DEF Served
<1> QED BY <1>2, <1>3, <1>4, <1>5, <1>6, <1>7 DEF SlotInv, Parts


LEMMA IdsType ==
  ASSUME TypeOK
  PROVE  Ids(origins) \in SUBSET DOMAIN chain /\ \A n \in Ids(origins) : \E c \in origins : c.tx = n
BY DEF TypeOK, Candidates, Ids

LEMMA ListSignalsKeeps ==
  ASSUME SlotInv, ListSignals
  PROVE  SlotInv'
<1>1. /\ TypeOK /\ EffectiveBounds /\ WithinRequest /\ Parts /\ InTurn
      /\ stage \in Validating /\ Listed
      /\ stage = "signals" \/ (stage = "basic" /\ rd \notin PriorityRounds)
  <2>1. /\ TypeOK /\ EffectiveBounds /\ WithinRequest /\ Parts
        /\ stage \in Validating /\ Listed /\ (stage = "signals" \/ rd \notin PriorityRounds)
    BY DEF SlotInv, ListSignals, Listed, Validating
  <2>2. InTurn
    BY <2>1 DEF Parts
  <2>3. stage = "reserves" => rd \in PriorityRounds
    BY <2>2 DEF InTurn
  <2> QED BY <2>1, <2>2, <2>3 DEF Validating
<1> DEFINE S == Ids({o \in origins : ~IsReserve(o.tx)})
<1>2. /\ stage' = "parsing" /\ todo' = todo /\ todo = {} /\ origins' = origins /\ rd' = rd
      /\ chain' = chain /\ place' = place /\ donor_addresses' = donor_addresses
      /\ available_slot_amount' = available_slot_amount /\ donor_address' = donor_address
      /\ locking_txes' = locking_txes /\ donation_txes' = donation_txes /\ dstates' = dstates
      /\ reserve_txes' = reserve_txes
      /\ signalling_txes' = [signalling_txes EXCEPT ![rd] = S]
      /\ selected_successors' = selected_successors
  BY <1>1 DEF ListSignals, Signalled, Listed, env
<1>3. rd \in Rounds /\ rd \in 0 .. 7
  BY <1>1 DEF TypeOK, Rounds
<1>4. S \in SUBSET DOMAIN chain /\ \A n \in S : ~IsReserve(n)
  BY <1>1 DEF TypeOK, Candidates, Ids
<1> HIDE DEF S
<1>5. /\ signalling_txes' \in [Rounds -> SUBSET DOMAIN chain] /\ signalling_txes'[rd] = S
      /\ \A r \in Rounds : r # rd => signalling_txes'[r] = signalling_txes[r]
  <2>1. signalling_txes \in [Rounds -> SUBSET DOMAIN chain]
    BY <1>1 DEF TypeOK
  <2> QED BY <1>2, <1>3, <1>4, <2>1
<1>6. TypeOK'
  BY <1>1, <1>2, <1>5 DEF TypeOK, Candidates, Objects, DonationState, Stages, Validating
<1>7. /\ (EffectiveBounds /\ WithinRequest /\ StatesHaveSlots /\ Accounts)'
      /\ (ListKinds /\ ServedBefore)'
      /\ \A r \in 0 .. rd : r # rd => \A n \in reserve_txes'[r] :
           SlotIn(r, n)' > 0 => <<r, n>> \in DOMAIN dstates'
  BY <1>1, <1>2, <1>5, ListFrame
<1>8. Participants'
  <2>1. Participants
    BY <1>1 DEF Parts
  <2>2. \A n : (IsReserve(n)' <=> IsReserve(n)) /\ (Reserves(n)' <=> Reserves(n))
    BY <1>2 DEF IsReserve, Reserves
  <2>3. \A r \in Rounds : /\ \A n \in signalling_txes'[r] : ~IsReserve(n)
                          /\ r > rd => signalling_txes'[r] = {}
    BY <1>3, <1>4, <1>5, <2>1 DEF Participants, Rounds
  <2> QED BY <1>2, <2>1, <2>2, <2>3 DEF Participants
<1>9. \A c \in origins : IsReserve(c.tx) => c.tx \in reserve_txes[rd]
  BY <1>1 DEF InTurn
<1>10. InTurn'
  <2>1. \A d : Proper(d)' <=> Proper(d)
    BY <1>2 DEF Proper, InRound
  <2>2. \A c \in origins : c.tx \in Participating(rd)'
    <3>1. \A c \in origins : ~IsReserve(c.tx) => c.tx \in S
      BY DEF S, Ids
    <3> QED BY <1>2, <1>5, <1>9, <3>1 DEF Participating
  <2> QED BY <1>1, <1>2, <1>3, <2>1, <2>2 DEF InTurn
<1>11. Served'
  <2>1. reserve_txes[rd] \subseteq Ids(origins)
    BY <1>1 DEF InTurn
  <2>2. Ids(origins)' = Ids(origins)
    BY <1>2 DEF Ids
  <2> QED BY <1>2, <1>7, <2>1, <2>2 DEF Served
<1> QED BY <1>2, <1>6, <1>7, <1>8, <1>10, <1>11 DEF SlotInv, Parts

LEMMA ListReservesKeeps ==
  ASSUME SlotInv, ListReserves
  PROVE  SlotInv'
<1>1. /\ TypeOK /\ EffectiveBounds /\ WithinRequest /\ Parts /\ InTurn
      /\ stage = "reserves" /\ stage \in Validating /\ Listed /\ rd \in PriorityRounds
  <2>1. /\ TypeOK /\ EffectiveBounds /\ WithinRequest /\ Parts
        /\ stage = "reserves" /\ stage \in Validating /\ Listed
    BY DEF SlotInv, ListReserves, Validating
  <2> QED BY <2>1 DEF InTurn, Parts
<1> DEFINE R == Ids(origins)
<1>2. /\ origins' = origins /\ rd' = rd
      /\ \/ stage' = "parsing" /\ todo' = {}
         \/ stage' = "signals" /\ todo' = Signals(rd)
      /\ chain' = chain /\ place' = place /\ donor_addresses' = donor_addresses
      /\ available_slot_amount' = available_slot_amount /\ donor_address' = donor_address
      /\ locking_txes' = locking_txes /\ donation_txes' = donation_txes /\ dstates' = dstates
      /\ reserve_txes' = [reserve_txes EXCEPT ![rd] = R]
      /\ signalling_txes' = signalling_txes
      /\ selected_successors' \subseteq selected_successors
  BY <1>1 DEF ListReserves, Listed, env, Deleted
<1>3. rd \in Rounds /\ rd \in 0 .. 7
  BY <1>1 DEF TypeOK, Rounds
<1>4. R \in SUBSET DOMAIN chain /\ \A n \in R : Reserves(n)
  <2>1. \A c \in origins : Reserves(c.tx)
    BY <1>1 DEF InTurn
  <2> QED BY <1>1, <2>1, IdsType
<1> HIDE DEF R
<1>5. /\ reserve_txes' \in [Rounds -> SUBSET DOMAIN chain] /\ reserve_txes'[rd] = R
      /\ \A r \in Rounds : r # rd => reserve_txes'[r] = reserve_txes[r]
  <2>1. reserve_txes \in [Rounds -> SUBSET DOMAIN chain]
    BY <1>1 DEF TypeOK
  <2> QED BY <1>2, <1>3, <1>4, <2>1
<1>6. /\ Signals(rd) \subseteq Candidates
      /\ \A c \in Signals(rd) : Proper(c) /\ ~IsReserve(c.tx)
  <2>1. chain \in Seq(Tx)
    BY <1>1 DEF TypeOK
  <2> QED BY <1>3, <2>1, SignalsType DEF Proper
<1>7. TypeOK'
  <2>1. stage' \in Stages /\ todo' \subseteq Candidates /\ rd # -1
    BY <1>2, <1>3, <1>6 DEF Stages, Validating
  <2> QED BY <1>1, <1>2, <1>5, <2>1 DEF TypeOK, Candidates, Objects, DonationState
<1>8. /\ (EffectiveBounds /\ WithinRequest /\ StatesHaveSlots /\ Accounts)'
      /\ (ListKinds /\ ServedBefore)'
      /\ \A r \in 0 .. rd : r # rd => \A n \in reserve_txes'[r] :
           SlotIn(r, n)' > 0 => <<r, n>> \in DOMAIN dstates'
  BY <1>1, <1>2, <1>5, ListFrame
<1>9. \A n : (IsReserve(n)' <=> IsReserve(n)) /\ (Reserves(n)' <=> Reserves(n))
  BY <1>2 DEF IsReserve, Reserves
<1>10. Participants'
  <2>1. Participants
    BY <1>1 DEF Parts
  <2>2. \A r \in Rounds : /\ \A n \in reserve_txes'[r] : Reserves(n)
                          /\ r \notin PriorityRounds => reserve_txes'[r] = {}
                          /\ r > rd => reserve_txes'[r] = {}
    BY <1>1, <1>3, <1>4, <1>5, <2>1 DEF Participants, Rounds
  <2> QED BY <1>2, <1>9, <2>1, <2>2 DEF Participants
<1>11. InTurn'
  <2>1. \A d : Proper(d)' <=> Proper(d)
    BY <1>2 DEF Proper, InRound
  <2>2. \A c \in origins : c.tx \in R
    BY DEF R, Ids
  <2>3. \A d \in todo' \cup origins' : Proper(d)'
    BY <1>1, <1>2, <1>6, <2>1 DEF InTurn
  <2>4. \A c \in origins : c.tx \in Participating(rd)'
    BY <1>2, <1>5, <2>2 DEF Participating
  <2>5. signalling_txes[rd] = {}
    BY <1>1 DEF InTurn
  <2>6. Ids(origins)' = R
    BY <1>2 DEF R, Ids
  <2> QED BY <1>1, <1>2, <1>3, <1>5, <1>6, <1>9, <2>2, <2>3, <2>4, <2>5, <2>6 DEF InTurn
<1>12. Served'
  <2>1. Ids(origins)' = R
    BY <1>2 DEF R, Ids
  <2> QED BY <1>2, <1>5, <1>8, <2>1 DEF Served
<1> QED BY <1>2, <1>7, <1>8, <1>10, <1>11, <1>12 DEF SlotInv, Parts


-----------------------------------------------------------------------------
(* The donations *)

LEMMA OriginType ==
  ASSUME TypeOK, InTurn, Turn
  PROVE  /\ origin \in origins /\ origin.tx \in DOMAIN chain /\ origin.copy \in BOOLEAN
         /\ rd \in Rounds /\ origin.tx \in Participating(rd) /\ Proper(origin)
<1>1. Ids(origins) \in SUBSET DOMAIN chain /\ Ids(origins) # {} /\ chain \in Seq(Tx)
  BY Ranges, IdsType DEF Turn, Ids
<1>2. Earliest(Ids(origins)) \in Ids(origins)
  BY <1>1, EarliestType
<1>3. \E o \in origins : o.tx = Earliest(Ids(origins))
  BY <1>2 DEF Ids
<1>4. origin \in origins
  BY <1>3 DEF origin
<1>5. origin \in Candidates
  BY <1>4 DEF TypeOK
<1>6. stage = "parsing" /\ origins # {}
  BY DEF Turn
<1>7. rd \in Rounds /\ origin.tx \in Participating(rd) /\ Proper(origin)
  BY <1>4, <1>6 DEF InTurn
<1> QED BY <1>4, <1>5, <1>7 DEF Candidates

LEMMA SlotType ==
  ASSUME TypeOK, Participants, NEW n, n \in Participating(rd), rd \in Rounds
  PROVE  Slot(n) \in Nat /\ Slot(n) = SlotIn(rd, n)
<1>1. Numbers(Participating(rd), Slots(rd))
  BY SlotsFit
<1>2. Slots(rd)[n] = SlotIn(rd, n)
  BY DEF Slots
<1> QED BY <1>1, <1>2 DEF Numbers, Slot

LEMMA SmallerType ==
  ASSUME NEW a \in Nat, NEW b \in Nat
  PROVE  Smaller(a, b) \in Nat /\ Smaller(a, b) <= a
BY DEF Smaller

LEMMA NewStateType ==
  ASSUME TypeOK, rd \in Rounds, origin.tx \in DOMAIN chain, NEW slot \in Nat \ {0},
         NEW locking \in {None} \cup DOMAIN chain, NEW donation \in {None} \cup DOMAIN chain
  PROVE  LET s == NewState(slot, locking, donation)
         IN  /\ s \in DonationState /\ s.slot = slot /\ s.donor_address = Claimant(origin.tx)
             /\ s.effective_locking_slot <= IF rd < 4 THEN slot ELSE 0
             /\ s.effective_slot <= IF rd < 4 THEN s.effective_locking_slot ELSE slot
<1> DEFINE locks == locking # None /\ chain[locking].timely
           locked == IF rd < 4 /\ locks THEN Smaller(slot, chain[locking].amount) ELSE 0
           effective == IF donation = None THEN 0
                        ELSE Smaller(IF rd < 4 THEN locked ELSE slot, chain[donation].amount)
           st == IF donation # None THEN "complete"
                 ELSE IF Processed(rd) /\ (rd >= 4 \/ locking = None \/ Processed(4))
                 THEN "abandoned" ELSE "incomplete"
<1>1. chain \in Seq(Tx) /\ Claimant(origin.tx) \in Addr
  BY Ranges, KindsType
<1>2. \A n \in DOMAIN chain : chain[n].amount \in Nat
  BY <1>1, KindsType
<1>3. locked \in Nat /\ locked <= slot /\ (rd >= 4 => locked = 0)
  <2>1. CASE rd < 4 /\ locks
    <3>1. chain[locking].amount \in Nat
      BY <1>2, <2>1
    <3>2. Smaller(slot, chain[locking].amount) \in Nat
          /\ Smaller(slot, chain[locking].amount) <= slot
      BY <3>1, SmallerType
    <3> QED BY <2>1, <3>2 DEF Rounds
  <2>2. CASE ~ (rd < 4 /\ locks)
    BY <2>2
  <2> QED BY <2>1, <2>2
<1> HIDE DEF locked
<1>4. effective \in Nat /\ effective <= IF rd < 4 THEN locked ELSE slot
  <2> DEFINE top == IF rd < 4 THEN locked ELSE slot
  <2>1. top \in Nat
    BY <1>3
  <2> HIDE DEF top
  <2>2. CASE donation = None
    <3>1. effective = 0
      BY <2>2
    <3> HIDE DEF effective
    <3> QED BY <2>1, <3>1 DEF top
  <2>3. CASE donation # None
    <3>1. chain[donation].amount \in Nat
      BY <1>2, <2>3
    <3>2. effective = Smaller(top, chain[donation].amount)
      BY <2>3 DEF top
    <3> HIDE DEF effective
    <3>3. effective \in Nat /\ effective <= top
      BY <2>1, <3>1, <3>2, SmallerType
    <3> QED BY <3>3 DEF top
  <2> QED BY <2>2, <2>3
<1>5. NewState(slot, locking, donation) =
        [donor_address |-> Claimant(origin.tx), slot |-> slot, locking_tx |-> locking,
         donation_tx |-> donation, effective_locking_slot |-> locked,
         effective_slot |-> effective, state |-> st]
  BY DEF NewState, locked
<1>6. st \in {"incomplete", "complete", "abandoned"}
  OBVIOUS
<1> HIDE DEF effective, st
<1>7. NewState(slot, locking, donation) \in DonationState
  BY <1>1, <1>3, <1>4, <1>5, <1>6 DEF DonationState
<1>8. /\ locked <= IF rd < 4 THEN slot ELSE 0
      /\ effective <= IF rd < 4 THEN locked ELSE slot
  BY <1>3, <1>4 DEF Rounds
<1> QED BY <1>5, <1>7, <1>8


(* What a turn does to the states and to the lists. *)
Recorded ==
  LET key == <<rd, origin.tx>>
  IN  /\ DOMAIN dstates \subseteq DOMAIN dstates'
      /\ \A k \in DOMAIN dstates' : k # key => k \in DOMAIN dstates /\ dstates'[k] = dstates[k]
      /\ Slot(origin.tx) > 0 => key \in DOMAIN dstates'
      /\ key \in DOMAIN dstates' =>
           \/ key \in DOMAIN dstates /\ dstates'[key] = dstates[key]
           \/ /\ dstates'[key] \in DonationState /\ dstates'[key].slot = Slot(origin.tx)
              /\ dstates'[key].effective_locking_slot <= IF rd < 4 THEN dstates'[key].slot ELSE 0
              /\ dstates'[key].effective_slot <= IF rd < 4 THEN dstates'[key].effective_locking_slot
                                                 ELSE dstates'[key].slot

Chosen ==
  /\ selected_successors' \subseteq DOMAIN chain
  /\ DOMAIN donor_address \subseteq DOMAIN donor_address'
  /\ DOMAIN donor_address' \subseteq Objects
  /\ \A d \in DOMAIN donor_address' : donor_address'[d] \in Addr
  /\ locking_txes' \in [Rounds -> Seq(Objects)] /\ donation_txes' \in [Rounds -> Seq(Objects)]
  /\ \A r \in Rounds :
       /\ \A i \in DOMAIN locking_txes'[r] : chain[locking_txes'[r][i].tx].kind = "locking"
       /\ \A i \in DOMAIN donation_txes'[r] :
            chain[donation_txes'[r][i].tx].kind = "donation"
            /\ donation_txes'[r][i] \in DOMAIN donor_address'

LEMMA TurnKeeps ==
  ASSUME SlotInv, Turn, Continue, Recorded, Chosen
  PROVE  SlotInv'
<1> DEFINE key == <<rd, origin.tx>>
<1>1. TypeOK /\ EffectiveBounds /\ Parts /\ stage = "parsing" /\ InTurn
  BY DEF SlotInv, Turn, Parts
<1>2. /\ origins' = origins \ {origin} /\ chain' = chain /\ place' = place /\ stage' = stage
      /\ rd' = rd /\ todo' = todo /\ donor_addresses' = donor_addresses
      /\ available_slot_amount' = available_slot_amount /\ reserve_txes' = reserve_txes
      /\ signalling_txes' = signalling_txes
  BY DEF Continue, env, setup
<1>3. /\ origin \in origins /\ origin.tx \in DOMAIN chain
      /\ rd \in Rounds /\ origin.tx \in Participating(rd)
  BY <1>1, OriginType
<1>4. /\ key[1] = rd /\ key[2] = origin.tx /\ key \in Rounds \X DOMAIN chain
  BY <1>3
<1>5. Slot(origin.tx) = SlotIn(rd, origin.tx) /\ Slot(origin.tx) \in Nat
  BY <1>1, <1>3, SlotType DEF Parts
<1>6. \A r : \A n : SlotIn(r, n)' = SlotIn(r, n)
  BY <1>2, SlotFrame
<1>7. /\ DOMAIN dstates \subseteq DOMAIN dstates'
      /\ \A k \in DOMAIN dstates' : k # key => k \in DOMAIN dstates /\ dstates'[k] = dstates[k]
      /\ Slot(origin.tx) > 0 => key \in DOMAIN dstates'
      /\ key \in DOMAIN dstates' =>
           \/ key \in DOMAIN dstates /\ dstates'[key] = dstates[key]
           \/ /\ dstates'[key] \in DonationState /\ dstates'[key].slot = Slot(origin.tx)
              /\ dstates'[key].effective_locking_slot <= IF rd < 4 THEN dstates'[key].slot ELSE 0
              /\ dstates'[key].effective_slot <= IF rd < 4 THEN dstates'[key].effective_locking_slot
                                                 ELSE dstates'[key].slot
  BY DEF Recorded
<1> HIDE DEF key
<1>8. \A k \in DOMAIN dstates' :
        /\ k \in Rounds \X DOMAIN chain /\ dstates'[k] \in DonationState
        /\ k[1] <= rd /\ k[2] \in Participating(k[1])
        /\ dstates'[k].slot = SlotIn(k[1], k[2])
        /\ dstates'[k].effective_locking_slot <= IF k[1] < 4 THEN dstates'[k].slot ELSE 0
        /\ dstates'[k].effective_slot <= IF k[1] < 4 THEN dstates'[k].effective_locking_slot
                                         ELSE dstates'[k].slot
  <2> SUFFICES ASSUME NEW k \in DOMAIN dstates'
               PROVE  /\ k \in Rounds \X DOMAIN chain /\ dstates'[k] \in DonationState
                      /\ k[1] <= rd /\ k[2] \in Participating(k[1])
                      /\ dstates'[k].slot = SlotIn(k[1], k[2])
                      /\ dstates'[k].effective_locking_slot
                           <= IF k[1] < 4 THEN dstates'[k].slot ELSE 0
                      /\ dstates'[k].effective_slot
                           <= IF k[1] < 4 THEN dstates'[k].effective_locking_slot
                              ELSE dstates'[k].slot
    OBVIOUS
  <2>1. CASE k \in DOMAIN dstates /\ dstates'[k] = dstates[k]
    <3>1. k \in Rounds \X DOMAIN chain /\ dstates[k] \in DonationState
      BY <1>1, <2>1 DEF TypeOK
    <3>2. /\ k[1] <= rd /\ k[2] \in Participating(k[1])
          /\ dstates[k].slot = SlotIn(k[1], k[2])
      BY <1>1, <2>1 DEF Parts, StatesHaveSlots
    <3>3. /\ dstates[k].effective_locking_slot <= IF k[1] < 4 THEN dstates[k].slot ELSE 0
          /\ dstates[k].effective_slot <= IF k[1] < 4 THEN dstates[k].effective_locking_slot
                                          ELSE dstates[k].slot
      BY <1>1, <2>1 DEF EffectiveBounds
    <3> QED BY <2>1, <3>1, <3>2, <3>3
  <2>2. CASE k = key /\ ~ (k \in DOMAIN dstates /\ dstates'[k] = dstates[k])
    <3>1. rd <= rd
      BY <1>3 DEF Rounds
    <3> QED BY <1>3, <1>4, <1>5, <1>7, <2>2, <3>1
  <2> QED BY <1>7, <2>1, <2>2
<1>9. TypeOK'
  <2>1. origins' \subseteq Candidates
    BY <1>1, <1>2 DEF TypeOK
  <2>2. /\ chain' = chain /\ Objects' = Objects /\ Candidates' = Candidates
        /\ DonationState' = DonationState
    BY <1>2 DEF Objects, Candidates, DonationState
  <2> QED BY <1>1, <1>2, <1>8, <2>1, <2>2 DEF TypeOK, Chosen
<1>10. EffectiveBounds'
  BY <1>8 DEF EffectiveBounds
<1>11. StatesHaveSlots'
  BY <1>1, <1>2, <1>6, <1>8 DEF StatesHaveSlots, Participating, Validating
<1>12. Participants' /\ ListKinds'
  BY <1>1, <1>2 DEF Parts, Participants, Reserves, IsReserve, ListKinds, Chosen
<1>13. Accounts'
  <2>1. ASSUME NEW r \in 0 .. rd
        PROVE  Available(r)' = Available(r)
    <3>1. r \in Rounds /\ \A q \in Rounds : q < r => q # rd
      BY <1>1, Ranges
    <3>2. \A q \in Rounds : q # rd =>
            OfRound(q)' = OfRound(q) /\ \A k \in OfRound(q) : dstates'[k] = dstates[k]
      BY <1>4, <1>7 DEF OfRound
    <3> QED BY <1>2, <3>1, <3>2, AvailableFrame
  <2> QED BY <1>1, <1>2, <2>1 DEF Parts, Accounts
<1>14. WithinRequest'
  BY <1>9, <1>10, <1>11, <1>12, <1>13, BasisFitsNext DEF RewardBasis
<1>15. InTurn'
  <2>1. \A c \in origins' : Proper(c)'
    <3>1. DOMAIN donor_address \subseteq DOMAIN donor_address'
      BY DEF Chosen
    <3>2. \A c \in origins : Proper(c)
      BY <1>1 DEF InTurn
    <3> QED BY <1>2, <3>1, <3>2 DEF Proper, InRound
  <2>2. todo = {} /\ \A c \in origins : c.tx \in Participating(rd)
    BY <1>1 DEF InTurn
  <2> QED BY <1>1, <1>2, <1>3, <2>1, <2>2 DEF InTurn, Participating
<1>16. Served' /\ ServedBefore'
  <2>1. ASSUME NEW r \in 0 .. rd, NEW n \in reserve_txes[r], SlotIn(r, n) > 0
        PROVE  <<r, n>> \in DOMAIN dstates' \/ (r = rd /\ n \in Ids(origins'))
    <3>1. <<r, n>> \in DOMAIN dstates \/ (r = rd /\ n \in Ids(origins))
      BY <1>1, <2>1 DEF Parts, Served
    <3>2. CASE r = rd /\ n \in Ids(origins)
      <4>1. CASE n = origin.tx
        BY <1>5, <1>7, <2>1, <3>2, <4>1 DEF key
      <4>2. CASE n # origin.tx
        <5>1. \E c \in origins : c.tx = n
          BY <3>2 DEF Ids
        <5>2. \E c \in origins' : c.tx = n
          BY <1>2, <4>2, <5>1
        <5> QED BY <3>2, <5>2 DEF Ids
      <4> QED BY <4>1, <4>2
    <3> QED BY <1>7, <3>1, <3>2
  <2>2. Ids(origins)' = Ids(origins')
    BY DEF Ids
  <2> QED BY <1>1, <1>2, <1>6, <2>1, <2>2 DEF Served, ServedBefore, Validating
<1> QED BY <1>1, <1>2, <1>9, <1>10, <1>11, <1>12, <1>13, <1>14, <1>15, <1>16 DEF SlotInv, Parts

LEMMA NoSlotKeeps ==
  ASSUME SlotInv, NoSlot
  PROVE  SlotInv'
<1>1. /\ Turn /\ Continue /\ Slot(origin.tx) = 0 /\ dstates' = dstates
      /\ donor_address' = donor_address /\ locking_txes' = locking_txes
      /\ donation_txes' = donation_txes /\ selected_successors' \subseteq selected_successors
  BY DEF NoSlot, Deleted
<1>2. TypeOK /\ ListKinds
  BY <1>1 DEF SlotInv, Turn, Parts
<1>3. Recorded
  BY <1>1 DEF Recorded
<1>4. Chosen
  BY <1>1, <1>2 DEF Chosen, TypeOK, ListKinds
<1> QED BY <1>1, <1>3, <1>4, TurnKeeps


LEMMA RecordRecords ==
  ASSUME TypeOK, Participants, InTurn, Turn, Slot(origin.tx) > 0,
         NEW locking \in {None} \cup DOMAIN chain, NEW donation \in {None} \cup DOMAIN chain,
         Record(locking, donation)
  PROVE  Recorded
<1> DEFINE key == <<rd, origin.tx>>
           slot == Slot(origin.tx)
           new == NewState(slot, locking, donation)
<1>1. origin.tx \in DOMAIN chain /\ rd \in Rounds /\ origin.tx \in Participating(rd)
  BY OriginType
<1>2. slot \in Nat \ {0}
  <2>1. Slot(origin.tx) \in Nat
    BY <1>1, SlotType
  <2> QED BY <2>1
<1> HIDE DEF slot
<1>3. /\ new \in DonationState /\ new.slot = slot
      /\ new.effective_locking_slot <= IF rd < 4 THEN slot ELSE 0
      /\ new.effective_slot <= IF rd < 4 THEN new.effective_locking_slot ELSE slot
  BY <1>1, <1>2, NewStateType
<1>4. dstates' = [k \in DOMAIN dstates \cup {key} |-> IF k = key THEN new ELSE dstates[k]]
  BY DEF Record, slot
<1> HIDE DEF new, key
<1>5. /\ DOMAIN dstates' = DOMAIN dstates \cup {key} /\ dstates'[key] = new
      /\ \A k \in DOMAIN dstates : k # key => dstates'[k] = dstates[k]
  BY <1>4
<1>6. /\ DOMAIN dstates \subseteq DOMAIN dstates'
      /\ \A k \in DOMAIN dstates' : k # key => k \in DOMAIN dstates /\ dstates'[k] = dstates[k]
      /\ key \in DOMAIN dstates'
  BY <1>5
<1> QED BY <1>3, <1>5, <1>6 DEF Recorded, key, slot

LEMMA LockingTxType ==
  ASSUME TypeOK, InTurn, Turn, rd < 4
  PROVE  /\ LockingTx.tx \in {None} \cup DOMAIN chain /\ LockingTx.copy \in BOOLEAN
         /\ LockingTx.tx # None => chain[LockingTx.tx].kind = "locking"
         /\ LockingTx = Object(LockingTx.tx, LockingTx.copy)
         /\ Selected(LockingTx) \subseteq DOMAIN chain
<1> DEFINE direct == Successor(origin.tx)
           signed == {m \in Sorted("locking", rd) \ selected_successors :
                        chain[m].sender = Claimant(origin.tx)}
<1>1. /\ origin.tx \in DOMAIN chain /\ origin.copy \in BOOLEAN /\ rd \in Rounds
      /\ Proper(origin) /\ chain \in Seq(Tx)
  BY OriginType, Ranges
<1>2. signed \in SUBSET DOMAIN chain /\ \A m \in signed : chain[m].kind = "locking"
  BY DEF Sorted
<1>3. direct \in SUBSET DOMAIN chain /\ \A m \in direct : chain[m].kind = "locking"
  <2>1. rd \notin {4, 5}
    BY <1>1 DEF Rounds
  <2>2. CASE chain[origin.tx].kind = "signalling" /\ InRound(origin.tx, rd)
    <3>1. direct = Direct(origin.tx)
      BY <2>2 DEF Successor, IsReserve
    <3> QED BY <1>1, <2>2, <3>1, SuccessorsType
  <2>3. CASE chain[origin.tx].kind = "locking"
    <3>1. direct = Reserve(origin.tx)
      BY <2>3 DEF Successor, IsReserve
    <3> QED BY <1>1, <2>3, <3>1, SuccessorsType
  <2> QED BY <1>1, <2>1, <2>2, <2>3 DEF Proper
<1>4. LockingTx = IF direct # {} THEN Object(Earliest(direct), origin.copy)
                  ELSE Object(Earliest(signed), FALSE)
  BY DEF LockingTx
<1> HIDE DEF direct, signed
<1>5. /\ Earliest(direct) \in {None} \cup DOMAIN chain
      /\ Earliest(direct) # None => Earliest(direct) \in direct
      /\ Earliest(signed) \in {None} \cup DOMAIN chain
      /\ Earliest(signed) # None => Earliest(signed) \in signed
  BY <1>1, <1>2, <1>3, EarliestType
<1>6. /\ LockingTx.tx \in {None} \cup DOMAIN chain /\ LockingTx.copy \in BOOLEAN
      /\ LockingTx.tx # None => chain[LockingTx.tx].kind = "locking"
      /\ LockingTx = Object(LockingTx.tx, LockingTx.copy)
  BY <1>1, <1>2, <1>3, <1>4, <1>5 DEF Object
<1>7. selected_successors \subseteq DOMAIN chain
  BY DEF TypeOK
<1> QED BY <1>6, <1>7 DEF Selected

LEMMA NotLockedKeeps ==
  ASSUME SlotInv, NotLocked
  PROVE  SlotInv'
<1>1. /\ Turn /\ Continue /\ Slot(origin.tx) > 0 /\ rd < 4
      /\ Record(LockingTx.tx, None) /\ selected_successors' = Selected(LockingTx)
      /\ donor_address' = donor_address /\ locking_txes' = locking_txes
      /\ donation_txes' = donation_txes
  BY DEF NotLocked
<1>2. TypeOK /\ ListKinds /\ InTurn /\ Participants
  BY <1>1 DEF SlotInv, Turn, Parts
<1>3. /\ LockingTx.tx \in {None} \cup DOMAIN chain
      /\ Selected(LockingTx) \subseteq DOMAIN chain
  BY <1>1, <1>2, LockingTxType
<1>4. Recorded
  BY <1>1, <1>2, <1>3, RecordRecords
<1>5. Chosen
  BY <1>1, <1>2, <1>3 DEF Chosen, TypeOK, ListKinds
<1> QED BY <1>1, <1>4, <1>5, TurnKeeps

(* What is appended to one of the lists.                                   *)
LEMMA AppendType ==
  ASSUME NEW S, NEW T, NEW lists \in [Rounds -> Seq(S)], NEW x \in S, x \in T,
         NEW q \in Rounds, \A r \in Rounds : \A i \in DOMAIN lists[r] : lists[r][i] \in T
  PROVE  /\ [lists EXCEPT ![q] = Append(@, x)] \in [Rounds -> Seq(S)]
         /\ \A r \in Rounds : \A i \in DOMAIN [lists EXCEPT ![q] = Append(@, x)][r] :
              [lists EXCEPT ![q] = Append(@, x)][r][i] \in T
<1> DEFINE new == [lists EXCEPT ![q] = Append(@, x)]
<1>1. /\ new[q] = Append(lists[q], x) /\ lists[q] \in Seq(S)
      /\ \A r \in Rounds : r # q => new[r] = lists[r]
      /\ new \in [Rounds -> Seq(S)]
  OBVIOUS
<1>2. \A i \in DOMAIN Append(lists[q], x) : Append(lists[q], x)[i] \in T
  <2>1. ASSUME NEW i \in DOMAIN Append(lists[q], x)
        PROVE  Append(lists[q], x)[i] = x
               \/ (i \in DOMAIN lists[q] /\ Append(lists[q], x)[i] = lists[q][i])
    BY <1>1
  <2> QED BY <2>1
<1> HIDE DEF new
<1>3. \A r \in Rounds : \A i \in DOMAIN new[r] : new[r][i] \in T
  BY <1>1, <1>2
<1> QED BY <1>1, <1>3 DEF new

DonationObjects(set) == {d \in set : chain[d.tx].kind = "donation"}

LEMMA DonateType ==
  ASSUME TypeOK, ListKinds, rd \in Rounds,
         NEW o, NEW donation, NEW direct, NEW selected, Donate(o, donation, direct, selected),
         selected \subseteq DOMAIN chain, donation.tx \in {None} \cup DOMAIN chain,
         donation.tx # None => /\ donation \in Objects /\ chain[donation.tx].kind = "donation"
                               /\ DonorOf(o) \in Addr
  PROVE  /\ selected_successors' \subseteq DOMAIN chain
         /\ DOMAIN donor_address \subseteq DOMAIN donor_address'
         /\ DOMAIN donor_address' \subseteq Objects
         /\ \A d \in DOMAIN donor_address' : donor_address'[d] \in Addr
         /\ donation_txes' \in [Rounds -> Seq(Objects)]
         /\ \A r \in Rounds : \A i \in DOMAIN donation_txes'[r] :
              chain[donation_txes'[r][i].tx].kind = "donation"
              /\ donation_txes'[r][i] \in DOMAIN donor_address'
<1>1. selected_successors' \subseteq DOMAIN chain
  BY DEF Donate
<1>2. /\ DOMAIN donor_address \subseteq Objects
      /\ \A d \in DOMAIN donor_address : donor_address[d] \in Addr
      /\ donation_txes \in [Rounds -> Seq(Objects)]
  BY DEF TypeOK
<1>3. \A r \in Rounds : \A i \in DOMAIN donation_txes[r] :
        donation_txes[r][i] \in DonationObjects(DOMAIN donor_address)
  BY DEF ListKinds, DonationObjects
<1>4. CASE donation.tx = None
  <2>1. donation_txes' = donation_txes /\ donor_address' = donor_address
    BY <1>4 DEF Donate
  <2> QED BY <1>1, <1>2, <2>1 DEF ListKinds
<1>5. CASE donation.tx # None
  <2> DEFINE T == DonationObjects(DOMAIN donor_address \cup {donation})
  <2>1. /\ donation_txes' = [donation_txes EXCEPT ![rd] = Append(@, donation)]
        /\ donor_address' = [d \in DOMAIN donor_address \cup {donation} |->
                               IF d = donation THEN DonorOf(o) ELSE donor_address[d]]
    BY <1>5 DEF Donate
  <2>2. DOMAIN donor_address' = DOMAIN donor_address \cup {donation}
    BY <2>1
  <2>3. /\ DOMAIN donor_address' \subseteq Objects
        /\ \A d \in DOMAIN donor_address' : donor_address'[d] \in Addr
    BY <1>2, <1>5, <2>1
  <2>4. donation \in T /\ donation \in Objects
        /\ \A r \in Rounds : \A i \in DOMAIN donation_txes[r] : donation_txes[r][i] \in T
    BY <1>3, <1>5 DEF DonationObjects
  <2> HIDE DEF T
  <2>5. /\ donation_txes' \in [Rounds -> Seq(Objects)]
        /\ \A r \in Rounds : \A i \in DOMAIN donation_txes'[r] : donation_txes'[r][i] \in T
    BY <1>2, <2>1, <2>4, AppendType
  <2> QED BY <1>1, <2>2, <2>3, <2>5 DEF T, DonationObjects
<1> QED BY <1>4, <1>5

LEMMA DonationTxType ==
  ASSUME TypeOK, NEW r \in Rounds, NEW o, o.copy \in BOOLEAN, NEW address,
         NEW direct \in SUBSET DOMAIN chain, \A m \in direct : chain[m].kind = "donation",
         NEW selected
  PROVE  LET d == DonationTx(o, address, direct, Sorted("donation", r), selected)
         IN  /\ d.tx \in {None} \cup DOMAIN chain
             /\ d.tx # None => d \in Objects /\ chain[d.tx].kind = "donation"
<1> DEFINE signed == {m \in Sorted("donation", r) \ selected :
                        donor_address[Object(m, FALSE)] = address}
           d == DonationTx(o, address, direct, Sorted("donation", r), selected)
<1>1. signed \in SUBSET DOMAIN chain /\ \A m \in signed : chain[m].kind = "donation"
  BY DEF Sorted
<1>2. d = IF direct # {} THEN Object(Earliest(direct), o.copy)
          ELSE Object(Earliest(signed), FALSE)
  BY DEF DonationTx
<1> HIDE DEF signed, d
<1>3. /\ Earliest(direct) \in {None} \cup DOMAIN chain
      /\ Earliest(direct) # None => Earliest(direct) \in direct
      /\ Earliest(signed) \in {None} \cup DOMAIN chain
      /\ Earliest(signed) # None => Earliest(signed) \in signed
  BY <1>1, Ranges, EarliestType
<1>4. /\ d.tx \in {None} \cup DOMAIN chain
      /\ d.tx # None => d.tx \in direct \cup signed
      /\ \E copy \in BOOLEAN : d = [tx |-> d.tx, copy |-> copy]
  BY <1>2, <1>3 DEF Object
<1>5. \A n \in DOMAIN chain : \A copy \in BOOLEAN : [tx |-> n, copy |-> copy] \in Objects
  BY DEF Objects
<1>6. d.tx # None => d \in Objects /\ chain[d.tx].kind = "donation"
  BY <1>1, <1>4, <1>5
<1> QED BY <1>4, <1>6 DEF d


LEMMA LockKeeps ==
  ASSUME SlotInv, Lock
  PROVE  SlotInv'
<1> DEFINE lock == LockingTx
           direct == Direct(lock.tx)
           txes == Sorted("donation", 0)
           donation == DonationTx(lock, chain[lock.tx].address, direct, txes, Selected(lock))
<1>1. /\ Turn /\ Slot(origin.tx) > 0 /\ rd < 4 /\ lock.tx # None /\ Continue
      /\ locking_txes' = [Copies(locking_txes) EXCEPT ![rd] = Append(@, lock)]
      /\ Donate(lock, donation, direct, Selected(lock))
      /\ Record(lock.tx, donation.tx)
  BY DEF Lock, IsLocked
<1>2. TypeOK /\ ListKinds /\ InTurn /\ Participants
  BY <1>1 DEF SlotInv, Turn, Parts
<1>3. rd \in Rounds /\ chain \in Seq(Tx)
  BY <1>1, <1>2, OriginType, Ranges
<1>4. /\ lock.tx \in DOMAIN chain /\ lock.copy \in BOOLEAN
      /\ chain[lock.tx].kind = "locking" /\ lock = Object(lock.tx, lock.copy)
      /\ Selected(lock) \subseteq DOMAIN chain
  BY <1>1, <1>2, LockingTxType
<1> HIDE DEF lock
<1>5. direct \in SUBSET DOMAIN chain /\ \A m \in direct : chain[m].kind = "donation"
  BY <1>3, <1>4, SuccessorsType
<1> HIDE DEF direct
<1>6. /\ donation.tx \in {None} \cup DOMAIN chain
      /\ donation.tx # None => donation \in Objects /\ chain[donation.tx].kind = "donation"
  <2>1. 0 \in Rounds
    BY DEF Rounds
  <2> QED BY <1>2, <1>4, <1>5, <2>1, DonationTxType
<1> HIDE DEF donation
<1>7. DonorOf(lock) \in Addr
  <2>1. DonorOf(lock) = chain[lock.tx].sender
    BY <1>4 DEF DonorOf
  <2> QED BY <1>3, <1>4, <2>1, KindsType
<1>8. /\ selected_successors' \subseteq DOMAIN chain
      /\ DOMAIN donor_address \subseteq DOMAIN donor_address'
      /\ DOMAIN donor_address' \subseteq Objects
      /\ \A d \in DOMAIN donor_address' : donor_address'[d] \in Addr
      /\ donation_txes' \in [Rounds -> Seq(Objects)]
      /\ \A r \in Rounds : \A i \in DOMAIN donation_txes'[r] :
           chain[donation_txes'[r][i].tx].kind = "donation"
           /\ donation_txes'[r][i] \in DOMAIN donor_address'
  BY <1>1, <1>2, <1>3, <1>4, <1>6, <1>7, DonateType
<1>9. /\ locking_txes' \in [Rounds -> Seq(Objects)]
      /\ \A r \in Rounds : \A i \in DOMAIN locking_txes'[r] :
           chain[locking_txes'[r][i].tx].kind = "locking"
  <2> DEFINE T == {d \in Objects : chain[d.tx].kind = "locking"}
             copies == Copies(locking_txes)
  <2>1. lock \in Objects /\ lock \in T
    BY <1>4 DEF Object, Objects
  <2>2. \A r \in Rounds : locking_txes[r] \in Seq(Objects)
    BY <1>2 DEF TypeOK
  <2>3. ASSUME NEW r \in Rounds
        PROVE  copies[r] \in Seq(Objects) /\ \A i \in DOMAIN copies[r] : copies[r][i] \in T
    <3> DEFINE list == locking_txes[r]
               new == [i \in DOMAIN list |-> Object(list[i].tx, TRUE)]
    <3>1. list \in Seq(Objects) /\ \A i \in DOMAIN list : chain[list[i].tx].kind = "locking"
      BY <1>2, <2>2 DEF ListKinds
    <3>2. copies[r] = new
      BY DEF Copies
    <3> HIDE DEF list, copies
    <3>3. \A i \in DOMAIN list : list[i] \in Objects
      BY <3>1
    <3>4. \A i \in DOMAIN list : Object(list[i].tx, TRUE) \in T
      BY <3>1, <3>3 DEF Object, Objects
    <3>5. DOMAIN list = 1 .. Len(list) /\ Len(list) \in Nat
      BY <3>1
    <3>6. new \in Seq(Objects)
      <4> DEFINE length == Len(list)
      <4>1. new \in [1 .. length -> Objects] /\ length \in Nat
        BY <3>4, <3>5
      <4> HIDE DEF new, length
      <4> QED BY <4>1
    <3> QED BY <3>2, <3>4, <3>6
  <2>4. copies \in [Rounds -> Seq(Objects)]
    <3>1. copies = [r \in Rounds |-> copies[r]]
      BY DEF Copies
    <3> HIDE DEF copies, T
    <3> QED BY <2>3, <3>1
  <2>5. locking_txes' = [copies EXCEPT ![rd] = Append(@, lock)]
    BY <1>1
  <2> HIDE DEF T, copies
  <2>6. /\ locking_txes' \in [Rounds -> Seq(Objects)]
        /\ \A r \in Rounds : \A i \in DOMAIN locking_txes'[r] : locking_txes'[r][i] \in T
    BY <1>3, <2>1, <2>3, <2>4, <2>5, AppendType
  <2> QED BY <2>6 DEF T
<1>10. Chosen
  BY <1>8, <1>9 DEF Chosen
<1>11. Recorded
  BY <1>1, <1>2, <1>4, <1>6, RecordRecords
<1> QED BY <1>1, <1>10, <1>11, TurnKeeps

LEMMA GiveKeeps ==
  ASSUME SlotInv, Give
  PROVE  SlotInv'
<1> DEFINE o == Object(origin.tx, origin.copy)
           direct == Successor(origin.tx)
           txes == Sorted("donation", rd)
           donation == DonationTx(o, Claimant(origin.tx), direct, txes, selected_successors)
<1>1. /\ Turn /\ Slot(origin.tx) > 0 /\ rd >= 4 /\ Continue
      /\ Donate(o, donation, direct, selected_successors)
      /\ Record(None, donation.tx) /\ locking_txes' = locking_txes
  BY DEF Give, IsDonating
<1>2. TypeOK /\ ListKinds /\ InTurn /\ Participants
  BY <1>1 DEF SlotInv, Turn, Parts
<1>3. /\ rd \in Rounds /\ chain \in Seq(Tx) /\ Proper(origin)
      /\ origin.tx \in DOMAIN chain /\ origin.copy \in BOOLEAN
  BY <1>1, <1>2, OriginType, Ranges
<1>4. o.copy \in BOOLEAN /\ o.tx = origin.tx
  BY <1>3 DEF Object
<1>5. \/ chain[origin.tx].kind = "signalling" /\ InRound(origin.tx, rd)
      \/ chain[origin.tx].kind = "donation" /\ o \in DOMAIN donor_address
  BY <1>1, <1>3 DEF Proper
<1> HIDE DEF o
<1>6. direct \in SUBSET DOMAIN chain /\ \A m \in direct : chain[m].kind = "donation"
  <2>1. CASE chain[origin.tx].kind = "signalling" /\ InRound(origin.tx, rd)
    <3>1. direct = Direct(origin.tx) /\ ~ (rd < 4)
      BY <1>1, <1>3, <2>1 DEF Successor, IsReserve, Rounds
    <3> HIDE DEF direct
    <3> QED BY <1>3, <2>1, <3>1, SuccessorsType
  <2>2. CASE chain[origin.tx].kind = "donation"
    <3>1. direct = Reserve(origin.tx)
      BY <2>2 DEF Successor, IsReserve
    <3> HIDE DEF direct
    <3> QED BY <1>3, <2>2, <3>1, SuccessorsType
  <2> QED BY <1>5, <2>1, <2>2
<1> HIDE DEF direct
<1>7. /\ donation.tx \in {None} \cup DOMAIN chain
      /\ donation.tx # None => donation \in Objects /\ chain[donation.tx].kind = "donation"
  BY <1>2, <1>3, <1>4, <1>6, DonationTxType
<1> HIDE DEF donation
<1>8. DonorOf(o) \in Addr
  <2>1. \/ DonorOf(o) = chain[origin.tx].address
        \/ o \in DOMAIN donor_address /\ DonorOf(o) = donor_address[o]
    BY <1>4, <1>5 DEF DonorOf
  <2>2. \A d \in DOMAIN donor_address : donor_address[d] \in Addr
    BY <1>2 DEF TypeOK
  <2> QED BY <1>3, <2>1, <2>2, KindsType
<1>9. selected_successors \subseteq DOMAIN chain /\ locking_txes \in [Rounds -> Seq(Objects)]
  BY <1>2 DEF TypeOK
<1>10. /\ selected_successors' \subseteq DOMAIN chain
       /\ DOMAIN donor_address \subseteq DOMAIN donor_address'
       /\ DOMAIN donor_address' \subseteq Objects
       /\ \A d \in DOMAIN donor_address' : donor_address'[d] \in Addr
       /\ donation_txes' \in [Rounds -> Seq(Objects)]
       /\ \A r \in Rounds : \A i \in DOMAIN donation_txes'[r] :
            chain[donation_txes'[r][i].tx].kind = "donation"
            /\ donation_txes'[r][i] \in DOMAIN donor_address'
  BY <1>1, <1>2, <1>3, <1>7, <1>8, <1>9, DonateType
<1>11. Chosen
  BY <1>1, <1>2, <1>9, <1>10 DEF Chosen, ListKinds
<1>12. Recorded
  BY <1>1, <1>2, <1>7, RecordRecords
<1> QED BY <1>1, <1>11, <1>12, TurnKeeps


(* What only changes the stage, at the end of a parse. *)
LEMMA StageFrame ==
  ASSUME TypeOK, EffectiveBounds, WithinRequest,
         UNCHANGED <<env, rd, todo, origins, setup, choice>>,
         stage' = stage \/ (stage = "parsing" /\ stage' \in {"parsed", "raised"})
  PROVE  /\ (TypeOK /\ EffectiveBounds /\ WithinRequest)'
         /\ Parts /\ (stage' = "parsed" => origins = {} \/ stage' = stage) => Parts'
<1>1. /\ chain' = chain /\ place' = place /\ rd' = rd /\ todo' = todo /\ origins' = origins
      /\ donor_addresses' = donor_addresses /\ available_slot_amount' = available_slot_amount
      /\ reserve_txes' = reserve_txes /\ signalling_txes' = signalling_txes
      /\ selected_successors' = selected_successors /\ donor_address' = donor_address
      /\ locking_txes' = locking_txes /\ donation_txes' = donation_txes /\ dstates' = dstates
  BY DEF env, setup, choice
<1>2. TypeOK'
  BY <1>1 DEF TypeOK, Candidates, Objects, DonationState, Stages, Validating
<1>3. (EffectiveBounds /\ WithinRequest)'
  BY <1>1 DEF EffectiveBounds, WithinRequest
<1>4. ASSUME Parts, stage' = "parsed" => origins = {} \/ stage' = stage
      PROVE  Parts'
  <2>1. \A r : \A n : SlotIn(r, n)' = SlotIn(r, n)
    BY <1>1, SlotFrame
  <2>2. \A r \in Rounds : Available(r)' = Available(r)
    BY <1>1, AvailableFrame DEF OfRound
  <2>3. \A r \in 0 .. rd : r \in Rounds
    BY Ranges
  <2>4. Accounts'
    BY <1>1, <1>4, <2>2, <2>3 DEF Parts, Accounts
  <2>5. StatesHaveSlots' /\ Participants' /\ ListKinds'
    BY <1>1, <1>4, <2>1 DEF Parts, StatesHaveSlots, Participating, Participants, Reserves,
       IsReserve, ListKinds, Validating
  <2>6. Ids(origins)' = Ids(origins)
    BY <1>1 DEF Ids
  <2>7. InTurn'
    BY <1>1, <1>4, <2>6 DEF Parts, InTurn, Proper, InRound, Reserves, IsReserve, Participating,
       Validating
  <2>8. Served' /\ ServedBefore'
    <3>1. Served'
      BY <1>1, <1>4, <2>1, <2>6 DEF Parts, Served
    <3>2. ServedBefore'
      BY <1>1, <1>4, <2>1 DEF Parts, ServedBefore, Validating
    <3> QED BY <3>1, <3>2
  <2> QED BY <2>4, <2>5, <2>7, <2>8 DEF Parts
<1> QED BY <1>2, <1>3, <1>4

LEMMA RaiseKeeps ==
  ASSUME SlotInv, Raise
  PROVE  SlotInv'
<1>1. /\ stage = "parsing" /\ stage' = "raised"
      /\ UNCHANGED <<env, rd, todo, origins, setup, choice>>
  BY DEF Raise, IsLocked, IsDonating, Turn
<1> QED BY <1>1, StageFrame DEF SlotInv

LEMMA EndKeeps ==
  ASSUME SlotInv, End
  PROVE  SlotInv'
<1>1. /\ stage = "parsing" /\ origins = {} /\ origins' = origins /\ stage' = "parsed"
      /\ UNCHANGED <<env, rd, todo, origins, setup, choice>>
  BY DEF End, RoundDone
<1> QED BY <1>1, StageFrame DEF SlotInv

LEMMA StutterKeeps ==
  ASSUME SlotInv, UNCHANGED vars
  PROVE  SlotInv'
<1>1. /\ stage' = stage /\ origins' = origins
      /\ UNCHANGED <<env, rd, todo, origins, setup, choice>>
  BY DEF vars
<1> QED BY <1>1, StageFrame DEF SlotInv

LEMMA StepKeeps ==
  ASSUME SlotInv, Next
  PROVE  SlotInv'
<1>1. CASE Mine \/ Pass
  BY <1>1, MineKeeps, PassKeeps
<1>2. CASE Begin \/ OpenRound \/ PriorityRound
  BY <1>2, BeginKeeps, OpenRoundKeeps, PriorityRoundKeeps
<1>3. CASE Validate
  <2>1. CASE \E c \in todo : Basic(c) \/ Priority(c)
    BY <2>1, BasicKeeps, PriorityKeeps
  <2>2. CASE ListSignals \/ ListBasic \/ ListReserves
    BY <2>2, ListSignalsKeeps, ListBasicKeeps, ListReservesKeeps
  <2> QED BY <1>3, <2>1, <2>2 DEF Validate
<1>4. CASE NoSlot \/ NotLocked \/ Lock \/ Give
  BY <1>4, NoSlotKeeps, NotLockedKeeps, LockKeeps, GiveKeeps
<1>5. CASE Raise \/ End
  BY <1>5, RaiseKeeps, EndKeeps
<1> QED BY <1>1, <1>2, <1>3, <1>4, <1>5 DEF Next, Parse

(* In every state of the program the accounts of the rounds are right:     *)
(* what a round has is what the rounds before have left, its states have   *)
(* the slots of its participants, and no reserve is passed over.           *)
THEOREM SlotsAreKept == Spec => []SlotInv
<1>1. Init => SlotInv
  BY InitClears
<1>2. SlotInv /\ [Next]_vars => SlotInv'
  BY StepKeeps, StutterKeeps
<1> QED BY <1>1, <1>2, PTL DEF Spec


(* What set_donation_states leaves in a ProposalState has its type: no     *)
(* slot and no available amount is ever negative, whatever is signalled,   *)
(* reserved, locked and donated.                                           *)
THEOREM SlotsAreNumbers == Spec => []TypeOK
<1>1. SlotInv => TypeOK
  BY DEF SlotInv
<1> QED BY <1>1, SlotsAreKept, PTL

(* All donations to a proposal are rewarded for no more than the requested *)
(* amount.                                                                 *)
THEOREM RewardsAreRequested == Spec => []WithinRequest
<1>1. SlotInv => WithinRequest
  BY DEF SlotInv
<1> QED BY <1>1, SlotsAreKept, PTL

(* In a priority round a signalling transaction only gets a slot if all    *)
(* reserve transactions get what they reserve, but for the unit that the   *)
(* division can lose.                                                      *)
THEOREM ReservesAreServed == Spec => []ReserveFirst
<1>1. ASSUME SlotInv
      PROVE  ReserveFirst
  <2> SUFFICES ASSUME stage = "parsed", NEW k \in DOMAIN dstates,
                      chain[k[2]].kind = "signalling", NEW n \in reserve_txes[k[1]],
                      chain[n].reserved # 1
               PROVE  <<k[1], n>> \in DOMAIN dstates
                      /\ dstates[<<k[1], n>>].slot >= chain[n].reserved - 1
    BY DEF ReserveFirst
  <2> DEFINE r == k[1]
             R == reserve_txes[r]
             fr == [m \in R |-> chain[m].reserved]
             t == chain[n].reserved
             T == Reserved(R)
             av == available_slot_amount[r]
  <2>1. TypeOK /\ Parts /\ origins = {}
    BY <1>1 DEF SlotInv
  <2>2. /\ r \in Rounds /\ r \in PriorityRounds /\ ~IsReserve(k[2]) /\ Reserves(n)
        /\ k[2] \notin R /\ k[2] \in Participating(r) /\ r <= rd
        /\ dstates[k].slot = SlotIn(r, k[2]) /\ dstates[k].slot > 0
    <3>1. /\ r \in Rounds /\ k[2] \in Participating(r) /\ r <= rd
          /\ dstates[k].slot = SlotIn(r, k[2]) /\ dstates[k].slot > 0
      BY <2>1, StatesType DEF Parts, StatesHaveSlots
    <3>2. ~IsReserve(k[2])
      BY DEF IsReserve
    <3>3. r \in PriorityRounds /\ Reserves(n) /\ k[2] \notin R
      BY <2>1, <3>1, <3>2 DEF Parts, Participants, Reserves
    <3> QED BY <3>1, <3>2, <3>3
  <2>3. /\ R \in SUBSET DOMAIN chain /\ av \in Nat /\ chain \in Seq(Tx)
        /\ t \in Nat /\ t > 0 /\ n \in R
    <3>1. R \in SUBSET DOMAIN chain /\ av \in Nat /\ chain \in Seq(Tx) /\ n \in R
      BY <2>1, <2>2, ListsType
    <3>2. n \in DOMAIN chain
      BY <3>1
    <3> QED BY <2>2, <3>1, <3>2, KindsType DEF Reserves
  <2>4. Numbers(R, fr) /\ T = Sum(R, fr) /\ fr[n] = t
    BY <2>3, ChainType DEF Reserved
  <2>5. /\ SlotIn(r, k[2]) = PrioritySlot(r, k[2], av)
        /\ SlotIn(r, n) = PrioritySlot(r, n, av)
    BY <2>2, SlotOf
  <2> HIDE DEF r, R, fr, t, av, T
  <2>6. t <= T /\ T \in Nat /\ T # 0
    <3>1. fr[n] <= Sum(R, fr)
      BY <2>3, <2>4, SumMember
    <3>2. Sum(R, fr) \in Nat
      BY <2>4, SumType
    <3> QED BY <2>3, <2>4, <3>1, <3>2
  <2>7. av > T
    <3>1. PrioritySlot(r, k[2], av) =
            IF av > T THEN RawSlot(chain[k[2]].amount, av - T, Amount(signalling_txes[r])) ELSE 0
      BY <2>2 DEF PrioritySlot, R, T
    <3> QED BY <2>2, <2>5, <3>1
  <2>8. SlotIn(r, n) = RawSlot(t, av, T)
    BY <2>3, <2>5 DEF PrioritySlot, R, T, t
  <2>9. RawSlot(t, av, T) \in Nat /\ RawSlot(t, av, T) >= t - 1
    <3>1. T \in Nat \ {0} /\ av >= T
      BY <2>3, <2>6, <2>7
    <3> QED BY <2>3, <3>1, RawSlotBounds
  <2>10. t # 1
    BY DEF t
  <2>11. SlotIn(r, n) > 0 /\ SlotIn(r, n) >= t - 1
    BY <2>3, <2>8, <2>9, <2>10
  <2>12. <<r, n>> \in DOMAIN dstates
    <3>1. r \in 0 .. rd /\ n \notin Ids(origins)
      BY <2>1, <2>2, Ranges DEF Ids
    <3> QED BY <2>1, <2>3, <2>11, <3>1 DEF Parts, Served, R
  <2>13. dstates[<<r, n>>].slot = SlotIn(r, n)
    BY <2>1, <2>12 DEF Parts, StatesHaveSlots
  <2> QED BY <2>11, <2>12, <2>13 DEF r, t
<1> QED BY <1>1, SlotsAreKept, PTL


-----------------------------------------------------------------------------
(* One state for a donor *)

(* What has passed check_donor_address and has no state yet. *)
Claims == IF stage = "reserves" THEN todo \cup origins ELSE origins

(* The addresses of the states and of the claims are used up, and each of  *)
(* them belongs to one state or one claim.                                 *)
ClaimedOnce ==
  /\ \A k \in DOMAIN dstates : <<dstates[k].donor_address, Phase(k[1])>> \in donor_addresses
  /\ \A c \in Claims :
       /\ <<Claimant(c.tx), Phase(rd)>> \in donor_addresses
       /\ \A k \in DOMAIN dstates : Phase(k[1]) = Phase(rd) =>
            dstates[k].donor_address # Claimant(c.tx)
  /\ \A c, d \in Claims : Claimant(c.tx) = Claimant(d.tx) => c = d

OnceInv == OneStatePerDonor /\ (stage # "changed" => ClaimedOnce)

LEMMA NoStatesOnce ==
  ASSUME DOMAIN dstates = {}, origins = {}, todo = {}
  PROVE  OneStatePerDonor /\ ClaimedOnce
BY DEF OneStatePerDonor, ClaimedOnce, Claims

LEMMA NoStatesOnceNow ==
  DOMAIN dstates = {} /\ origins = {} /\ todo = {} => OneStatePerDonor /\ ClaimedOnce
BY NoStatesOnce

LEMMA NoStatesOnceNext ==
  (DOMAIN dstates = {} /\ origins = {} /\ todo = {})' => (OneStatePerDonor /\ ClaimedOnce)'
BY NoStatesOnceNow, PTL

(* Claims can be dropped.                                                  *)
LEMMA FewerClaims ==
  ASSUME OnceInv, stage # "changed", dstates' = dstates, chain' = chain,
         donor_addresses \subseteq donor_addresses', Claims' \subseteq Claims,
         Claims' = {} \/ rd' = rd
  PROVE  OnceInv'
<1>1. \A n : Claimant(n)' = Claimant(n)
  BY DEF Claimant, IsReserve
<1>2. \A r : Phase(r)' = Phase(r)
  BY DEF Phase
<1>3. OneStatePerDonor /\ ClaimedOnce
  BY DEF OnceInv
<1>4. OneStatePerDonor'
  BY <1>2, <1>3 DEF OneStatePerDonor
<1>5. \A k \in DOMAIN dstates : <<dstates[k].donor_address, Phase(k[1])>> \in donor_addresses'
  BY <1>3 DEF ClaimedOnce
<1>6. ASSUME rd' = rd
      PROVE  \A c \in Claims' :
               /\ <<Claimant(c.tx), Phase(rd)>> \in donor_addresses'
               /\ \A k \in DOMAIN dstates : Phase(k[1]) = Phase(rd) =>
                    dstates[k].donor_address # Claimant(c.tx)
  BY <1>3 DEF ClaimedOnce
<1>7. \A c, d \in Claims' : Claimant(c.tx) = Claimant(d.tx) => c = d
  BY <1>3 DEF ClaimedOnce
<1>8. ClaimedOnce'
  BY <1>1, <1>2, <1>5, <1>6, <1>7 DEF ClaimedOnce
<1> QED BY <1>4, <1>8 DEF OnceInv

(* A transaction whose address is not used up yet can claim it.            *)
LEMMA OneMoreClaim ==
  ASSUME OnceInv, stage # "changed", dstates' = dstates, chain' = chain, rd' = rd,
         NEW c, ~Used(c.tx), Claims' \subseteq Claims \cup {c}, Add(c)
  PROVE  OnceInv'
<1> DEFINE p == <<Claimant(c.tx), Phase(rd)>>
<1>1. \A n : Claimant(n)' = Claimant(n)
  BY DEF Claimant, IsReserve
<1>2. OneStatePerDonor /\ ClaimedOnce
  BY DEF OnceInv
<1>3. p \notin donor_addresses /\ donor_addresses' = donor_addresses \cup {p}
  BY DEF Used, Add
<1>4. /\ \A k \in DOMAIN dstates : <<dstates[k].donor_address, Phase(k[1])>> \in donor_addresses
      /\ \A d \in Claims :
           /\ <<Claimant(d.tx), Phase(rd)>> \in donor_addresses
           /\ \A k \in DOMAIN dstates : Phase(k[1]) = Phase(rd) =>
                dstates[k].donor_address # Claimant(d.tx)
      /\ \A d, e \in Claims : Claimant(d.tx) = Claimant(e.tx) => d = e
  BY <1>2 DEF ClaimedOnce
<1>5. \A k \in DOMAIN dstates : Phase(k[1]) = Phase(rd) =>
        dstates[k].donor_address # Claimant(c.tx)
  <2> SUFFICES ASSUME NEW k \in DOMAIN dstates, Phase(k[1]) = Phase(rd),
                      dstates[k].donor_address = Claimant(c.tx)
               PROVE  FALSE
    OBVIOUS
  <2>1. <<Claimant(c.tx), Phase(rd)>> \in donor_addresses
    BY <1>4
  <2> QED BY <1>3, <2>1
<1>6. \A d \in Claims : Claimant(d.tx) # Claimant(c.tx)
  BY <1>3, <1>4
<1>7. \A d, e \in Claims' : Claimant(d.tx) = Claimant(e.tx) => d = e
  BY <1>4, <1>6
<1>8. ClaimedOnce'
  BY <1>1, <1>3, <1>4, <1>5, <1>7 DEF ClaimedOnce, Phase
<1>9. OneStatePerDonor'
  BY <1>2 DEF OneStatePerDonor, Phase
<1> QED BY <1>8, <1>9 DEF OnceInv


(* A state takes the place of a claim.                                     *)
LEMMA ClaimFilled ==
  ASSUME OnceInv, TypeOK, InTurn, Turn, Continue,
         \A k \in DOMAIN dstates' :
           \/ k \in DOMAIN dstates /\ dstates'[k] = dstates[k]
           \/ k = <<rd, origin.tx>> /\ dstates'[k].donor_address = Claimant(origin.tx)
  PROVE  OnceInv'
<1> DEFINE key == <<rd, origin.tx>>
           a == Claimant(origin.tx)
<1>1. /\ stage = "parsing" /\ stage' = stage /\ rd' = rd /\ chain' = chain
      /\ origins' = origins \ {origin} /\ donor_addresses' = donor_addresses
  BY DEF Turn, Continue, env, setup
<1>2. origin \in origins /\ key[1] = rd
  BY OriginType
<1>3. OneStatePerDonor /\ ClaimedOnce /\ Claims = origins /\ Claims' = origins \ {origin}
  BY <1>1 DEF OnceInv, Claims
<1>4. /\ \A k \in DOMAIN dstates : <<dstates[k].donor_address, Phase(k[1])>> \in donor_addresses
      /\ \A d \in origins :
           /\ <<Claimant(d.tx), Phase(rd)>> \in donor_addresses
           /\ \A k \in DOMAIN dstates : Phase(k[1]) = Phase(rd) =>
                dstates[k].donor_address # Claimant(d.tx)
      /\ \A d, e \in origins : Claimant(d.tx) = Claimant(e.tx) => d = e
  BY <1>3 DEF ClaimedOnce
<1>5. \A d \in origins \ {origin} : Claimant(d.tx) # a
  BY <1>2, <1>4
<1>6. \A n : Claimant(n)' = Claimant(n)
  BY <1>1 DEF Claimant, IsReserve
<1> HIDE DEF key, a
<1>7. \A k \in DOMAIN dstates' :
        \/ k \in DOMAIN dstates /\ dstates'[k] = dstates[k]
        \/ k = key /\ dstates'[k].donor_address = a
  BY DEF key, a
<1>8. \A d \in origins \ {origin} : \A k \in DOMAIN dstates' :
        Phase(k[1]) = Phase(rd) => dstates'[k].donor_address # Claimant(d.tx)
  BY <1>4, <1>5, <1>7
<1>9. \A k \in DOMAIN dstates' : <<dstates'[k].donor_address, Phase(k[1])>> \in donor_addresses
  <2>1. <<a, Phase(rd)>> \in donor_addresses
    BY <1>2, <1>4 DEF a
  <2> QED BY <1>2, <1>4, <1>7, <2>1
<1>10. ClaimedOnce'
  BY <1>1, <1>3, <1>4, <1>6, <1>8, <1>9 DEF ClaimedOnce, Phase
<1>11. \A j, k \in DOMAIN dstates' :
         /\ Phase(j[1]) = Phase(k[1])
         /\ dstates'[j].donor_address = dstates'[k].donor_address
         => j = k
  <2> SUFFICES ASSUME NEW j \in DOMAIN dstates', NEW k \in DOMAIN dstates',
                      Phase(j[1]) = Phase(k[1]),
                      dstates'[j].donor_address = dstates'[k].donor_address
               PROVE  j = k
    OBVIOUS
  <2>1. \A i \in DOMAIN dstates : Phase(i[1]) = Phase(rd) => dstates[i].donor_address # a
    BY <1>2, <1>4 DEF a
  <2>2. CASE j \in DOMAIN dstates /\ k \in DOMAIN dstates
             /\ dstates'[j] = dstates[j] /\ dstates'[k] = dstates[k]
    BY <1>3, <2>2 DEF OneStatePerDonor
  <2>3. CASE j = key /\ dstates'[j].donor_address = a
    BY <1>2, <1>7, <2>1, <2>3
  <2>4. CASE k = key /\ dstates'[k].donor_address = a
    BY <1>2, <1>7, <2>1, <2>4
  <2> QED BY <1>7, <2>2, <2>3, <2>4
<1>12. OneStatePerDonor'
  BY <1>11 DEF OneStatePerDonor, Phase
<1> QED BY <1>10, <1>12 DEF OnceInv

LEMMA RecordClaims ==
  ASSUME NEW locking, NEW donation, Record(locking, donation)
  PROVE  \A k \in DOMAIN dstates' :
           \/ k \in DOMAIN dstates /\ dstates'[k] = dstates[k]
           \/ k = <<rd, origin.tx>> /\ dstates'[k].donor_address = Claimant(origin.tx)
<1>1. \A s : NewState(s, locking, donation).donor_address = Claimant(origin.tx)
  BY DEF NewState
<1> QED BY <1>1 DEF Record

LEMMA TurnsKeepOnce ==
  ASSUME SlotInv, OnceInv, NoSlot \/ NotLocked \/ Lock \/ Give
  PROVE  OnceInv'
<1>1. /\ Turn /\ Continue
      /\ dstates' = dstates \/ \E locking, donation : Record(locking, donation)
  BY DEF NoSlot, NotLocked, Lock, IsLocked, Give, IsDonating
<1>2. TypeOK /\ InTurn
  BY <1>1 DEF SlotInv, Parts, Turn
<1>3. \A k \in DOMAIN dstates' :
        \/ k \in DOMAIN dstates /\ dstates'[k] = dstates[k]
        \/ k = <<rd, origin.tx>> /\ dstates'[k].donor_address = Claimant(origin.tx)
  BY <1>1, RecordClaims
<1> QED BY <1>1, <1>2, <1>3, ClaimFilled

LEMMA ChecksKeepOnce ==
  ASSUME SlotInv, OnceInv, NEW c \in todo, Basic(c) \/ Priority(c)
  PROVE  OnceInv'
<1>1. /\ stage \in Validating /\ stage # "changed" /\ stage' = stage /\ rd' = rd
      /\ chain' = chain /\ dstates' = dstates /\ todo' = todo \ {c}
  BY DEF Basic, Priority, Examine, env, Validating
<1>2. origins' = origins \/ origins' = origins \cup {c}
  BY DEF Basic, Priority, Accept, Ignore, Refuse
<1>3. CASE stage = "reserves"
  <2>1. IsReserve(c.tx)
    <3>1. InTurn
      BY <1>1 DEF SlotInv, Parts
    <3> QED BY <1>3, <3>1 DEF InTurn, Reserves
  <2>2. donor_addresses' = donor_addresses
    BY <1>3, <2>1 DEF Basic, Priority
  <2>3. Claims' \subseteq Claims
    BY <1>1, <1>2, <1>3 DEF Claims
  <2> QED BY <1>1, <2>2, <2>3, FewerClaims
<1>4. CASE stage # "reserves" /\ donor_addresses' = donor_addresses /\ origins' = origins
  BY <1>1, <1>4, FewerClaims DEF Claims
<1>5. CASE stage # "reserves" /\ ~ (donor_addresses' = donor_addresses /\ origins' = origins)
  <2>1. Add(c) /\ ~Used(c.tx)
    <3>1. CASE Basic(c)
      BY <1>5, <3>1 DEF Basic, Barred, Ignore, Refuse
    <3>2. CASE Priority(c)
      <4>1. ~IsReserve(c.tx)
        <5>1. InTurn /\ stage = "signals"
          BY <1>1, <1>5, <3>2 DEF SlotInv, Parts, Priority
        <5> QED BY <5>1 DEF InTurn
      <4> QED BY <1>5, <3>2, <4>1 DEF Priority, Orphan, Ignore, Refuse
    <3> QED BY <3>1, <3>2
  <2>2. Claims' \subseteq Claims \cup {c}
    BY <1>1, <1>2, <1>5 DEF Claims
  <2> QED BY <1>1, <2>1, <2>2, OneMoreClaim
<1> QED BY <1>3, <1>4, <1>5

LEMMA OtherStepsKeepOnce ==
  ASSUME SlotInv, OnceInv,
         \/ Mine \/ Pass \/ Begin \/ OpenRound \/ PriorityRound
         \/ ListSignals \/ ListBasic \/ ListReserves \/ Raise \/ End \/ UNCHANGED vars
  PROVE  OnceInv'
<1>1. CASE Mine \/ Pass
  <2>1. stage' = "changed" /\ dstates' = dstates
    BY <1>1 DEF Mine, Pass, Changed, choice
  <2> QED BY <2>1 DEF OnceInv, OneStatePerDonor, Phase
<1>2. CASE Begin
  <2>1. (DOMAIN dstates = {} /\ origins = {} /\ todo = {})'
    BY <1>2 DEF Begin
  <2> QED BY <2>1, NoStatesOnceNext DEF OnceInv
<1>3. CASE OpenRound \/ PriorityRound
  <2>1. /\ stage = "parsing" /\ origins = {} /\ stage' = "basic" /\ origins' = origins
        /\ dstates' = dstates /\ chain' = chain /\ donor_addresses' = donor_addresses
    BY <1>3 DEF OpenRound, PriorityRound, RoundDone, Open, env, choice
  <2>2. Claims' = {}
    BY <2>1 DEF Claims
  <2> QED BY <2>1, <2>2, FewerClaims
<1>4. CASE ListSignals \/ ListBasic \/ ListReserves
  <2>1. /\ stage \in Validating /\ stage # "changed" /\ todo = {} /\ rd' = rd
        /\ dstates' = dstates /\ chain' = chain /\ donor_addresses' = donor_addresses
    BY <1>4 DEF ListSignals, ListBasic, ListReserves, Listed, env, Validating
  <2>2. Claims' \subseteq Claims
    BY <1>4, <2>1 DEF ListSignals, ListBasic, ListReserves, Claims
  <2> QED BY <2>1, <2>2, FewerClaims
<1>5. CASE Raise \/ End
  <2>1. /\ stage = "parsing" /\ stage' \in {"raised", "parsed"} /\ rd' = rd /\ origins' = origins
        /\ dstates' = dstates /\ chain' = chain /\ donor_addresses' = donor_addresses
    BY <1>5 DEF Raise, End, RoundDone, IsLocked, IsDonating, Turn, env, setup, choice
  <2>2. Claims' = Claims
    BY <2>1 DEF Claims
  <2> QED BY <2>1, <2>2, FewerClaims
<1>6. CASE UNCHANGED vars
  BY <1>6 DEF vars, env, setup, choice, OnceInv, OneStatePerDonor, ClaimedOnce, Claims, Claimant,
     IsReserve, Phase
<1> QED BY <1>1, <1>2, <1>3, <1>4, <1>5, <1>6

(* A donor address has one DonationState in each phase, with signalling    *)
(* and reserve transactions together (check_donor_address).                *)
THEOREM DonorsAreCountedOnce == Spec => []OneStatePerDonor
<1>1. Init => SlotInv /\ OnceInv
  <2>1. Init => DOMAIN dstates = {} /\ origins = {} /\ todo = {}
    BY DEF Init
  <2> QED BY <2>1, InitClears, NoStatesOnce DEF OnceInv
<1>2. (SlotInv /\ OnceInv) /\ [Next]_vars => (SlotInv /\ OnceInv)'
  <2> SUFFICES ASSUME SlotInv, OnceInv, [Next]_vars
               PROVE  (SlotInv /\ OnceInv)'
    OBVIOUS
  <2>1. SlotInv'
    BY StepKeeps, StutterKeeps
  <2>2. OnceInv'
    BY TurnsKeepOnce, ChecksKeepOnce, OtherStepsKeepOnce DEF Next, Parse, Validate
  <2> QED BY <2>1, <2>2
<1>3. OnceInv => OneStatePerDonor
  BY DEF OnceInv
<1> QED BY <1>1, <1>2, <1>3, PTL DEF Spec


=============================================================================
