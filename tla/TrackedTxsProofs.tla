-------------------------- MODULE TrackedTxsProofs --------------------------
(***************************************************************************)
(* Proofs about module TrackedTxs, for any requests, any length of a page  *)
(* and any growth of list and chain: transactions are read once and with   *)
(* their predecessors, as they were meant, and again by later parses; and  *)
(* no coin is lost.                                                        *)
(***************************************************************************)
EXTENDS TrackedTxs, CollectionsTheorems

-----------------------------------------------------------------------------
(* The inductive invariant *)

Txs ==
  [kind : {"funds"}, refers : {0}, ins : {{}}, outs : {Funds}]
    \cup [kind : Tracked, refers : Nat, ins : SUBSET [tx : Nat, vout : Nat],
          outs : Seq(Outputs), asked : TrackedRequests]
    \cup [kind : {"card"}, refers : Nat, ins : SUBSET [tx : Nat, vout : Nat],
          outs : Seq(Outputs), asked : CardRequests]

Worth(c) == txs[c.tx].outs[c.vout].value
SpentBy(t) == Sum(txs[t].ins, [c \in txs[t].ins |-> Worth(c)])

(* A wallet has made the transaction, of outputs of older ones. *)
Built(t) ==
  /\ IsFiniteSet(txs[t].ins)
  /\ \A c \in txs[t].ins : c.tx \in 1 .. t - 1 /\ c.vout \in DOMAIN txs[c.tx].outs
  /\ txs[t].kind \in Tracked =>
       /\ txs[t].kind = txs[t].asked.kind
       /\ Enough(txs[t].asked, SpentBy(t))
       /\ txs[t].outs = TrackedOutputs(txs[t].asked, SpentBy(t))
  /\ txs[t].kind = "card" =>
       /\ CardRest(txs[t].asked, SpentBy(t)) >= 0
       /\ txs[t].outs = CardOutputs(txs[t].asked, SpentBy(t))

(* What the transaction refers to is of the kind it has to be. *)
Refers(t) ==
  \/ txs[t].kind = "proposal" /\ txs[t].refers = 0
  \/ /\ txs[t].refers \in DOMAIN txs
     /\ \/ txs[t].kind \in Tracked /\ txs[txs[t].refers].kind = "proposal"
        \/ txs[t].kind = "card" /\ txs[txs[t].refers].kind = "donation"

Made ==
  /\ txs \in Seq(Txs) /\ Len(txs) > 0 /\ txs[1].kind = "funds"
  /\ \A t \in 2 .. Len(txs) : txs[t].kind \in Kinds /\ Built(t) /\ Refers(t)

(* The node's lists hold what was sent, in the order of sending. *)
Listed ==
  /\ listed \in [Kinds -> Seq(Nat)]
  /\ \A k \in Kinds : \A i \in DOMAIN listed[k] :
       /\ listed[k][i] \in 2 .. Len(txs) /\ txs[listed[k][i]].kind = k
       /\ \A j \in DOMAIN listed[k] : i < j => listed[k][i] <= listed[k][j]
  /\ \A t \in 2 .. Len(txs) :
       \E i \in DOMAIN listed[txs[t].kind] : listed[txs[t].kind][i] = t

(* The chain holds a transaction once, and after those it needs. *)
Mined ==
  /\ blocks \in Seq([time : Int, txs : Seq(Nat)]) /\ Len(blocks) > 0
  /\ \A b \in DOMAIN blocks : \A i \in DOMAIN blocks[b].txs : blocks[b].txs[i] \in DOMAIN txs
  /\ \A b, d \in DOMAIN blocks :
       \A i \in DOMAIN blocks[b].txs, j \in DOMAIN blocks[d].txs :
         blocks[b].txs[i] = blocks[d].txs[j] => b = d
  /\ \A t \in Confirmed : \A c \in txs[t].ins : Height(c.tx) \in 1 .. Height(t)
  /\ \A t \in OfKind("donation") :
       /\ Height(txs[t].refers) > 0
       /\ t \in Confirmed => Height(txs[t].refers) <= Height(t)

ChainInv == Made /\ Listed /\ Mined

Reading == stage \in 2 .. Over - 1

(* The account has been read. *)
Done(k) == \E i \in DOMAIN Accounts : i < stage /\ Accounts[i] = k

(* The parse holds confirmed transactions only, each once in what it has   *)
(* read of an account.                                                     *)
Holds ==
  /\ stage \in 0 .. Raised /\ start \in Nat
  /\ ~Reading => start = 0 /\ found = {}
  /\ known \subseteq Confirmed
  /\ \A x \in found : x.tx \in Confirmed /\ x = Tuple(x.tx) /\ txs[x.tx].kind = Account
  /\ read \in [Kinds -> Seq(Nat)]
  /\ \A k \in Kinds : Done(k) \/ read[k] = <<>>
  /\ \A k \in Kinds : \A t \in Range(read[k]) : t \in Confirmed /\ txs[t].kind = k
  /\ \A k \in Tracked :
       /\ \A i, j \in DOMAIN read[k] : read[k][i] = read[k][j] => i = j
       /\ \A t \in Range(read[k]) : Accepts(t)

(* The donation that a card confirmed later claims, and its proposal. *)
CitedBy(t) ==
  LET d == txs[t].refers IN IF Height(d) \in 1 .. Height(t) THEN {d, txs[d].refers} ELSE {}
InputsOf(t) == {c.tx : c \in txs[t].ins}

(* What the parse has to find in the account it reads, or in a later one,  *)
(* was known to it from the beginning, or is a predecessor of what it has  *)
(* found.                                                                  *)
Wanted(t) ==
  \/ t \in known
  \/ \E x \in found : t \in InputsOf(x.tx)
  \/ \E u \in Range(read["donation"]) \cup Range(read["locking"]) : t \in InputsOf(u)
  \/ \E u \in Range(read["card"]) : t \in CitedBy(u)

(* It has found it, or its entry is on a page to come. *)
Rest(list, since) == {list[i] : i \in {j \in DOMAIN list : j <= Len(list) - since}}
Covered ==
  Reading => \A t \in Confirmed :
    Wanted(t) /\ txs[t].kind = Account
      => t \in {x.tx : x \in found} \cup Rest(listed[Account], start)

(* What is done has left nothing out. *)
Thorough ==
  /\ \A t \in known : txs[t].kind \in Tracked /\ Done(txs[t].kind) /\ Accepts(t)
       => t \in Range(read[txs[t].kind])
  /\ \A k \in {"donation", "locking"} : \A t \in Range(read[k]) : \A u \in InputsOf(t) :
       txs[u].kind \in {"locking", "signalling"} /\ txs[u].refers = txs[t].refers
         /\ Done(txs[u].kind)
       => u \in Range(read[txs[u].kind])
  /\ \A t \in Range(read["card"]) : \A u \in CitedBy(t) :
       Done(txs[u].kind) /\ Accepts(u) => u \in Range(read[txs[u].kind])

ParseInv == Holds /\ Covered /\ Thorough

-----------------------------------------------------------------------------
(* Pages and sorted lists *)

LEMMA KindsAre ==
  /\ Kinds = {"card", "proposal", "donation", "locking", "signalling", "voting"}
  /\ Over = 7 /\ Raised = 8 /\ Kinds = Tracked \cup {"card"} /\ "funds" \notin Kinds
BY DEF Kinds, Accounts, Over, Raised, Tracked

LEMMA PageHolds ==
  ASSUME NEW list \in Seq(Nat), NEW since \in Nat
  PROVE  /\ Page(list, since) \in Seq(Nat)
         /\ \A i \in DOMAIN Page(list, since) :
              \E j \in DOMAIN list : j <= Len(list) - since /\ Page(list, since)[i] = list[j]
         /\ \A j \in DOMAIN list :
              j <= Len(list) - since /\ (Len(Page(list, since)) < PageSize
                                         \/ j > Len(list) - since - PageSize)
              => \E i \in DOMAIN Page(list, since) : Page(list, since)[i] = list[j]
<1> DEFINE n == Len(list) - since
           a == IF n - PageSize + 1 > 1 THEN n - PageSize + 1 ELSE 1
           page == SubSeq(list, a, n)
<1>1. n \in Int /\ n <= Len(list) /\ PageSize \in Nat \ {0} /\ Len(list) \in Nat
  BY PagesAssumption
<1>2. a \in Int /\ a >= 1 /\ a >= n - PageSize + 1 /\ (a = 1 \/ a = n - PageSize + 1)
  BY <1>1
<1>3. page = Page(list, since)
  BY DEF Page
<1> HIDE DEF a
<1>4. /\ page \in Seq(Nat)
      /\ Len(page) = IF a <= n THEN n - a + 1 ELSE 0
      /\ \A i \in 1 .. Len(page) : page[i] = list[a + i - 1]
  BY <1>1, <1>2
<1> HIDE DEF page
<1> DEFINE len == Len(page)
<1>5. DOMAIN page = 1 .. len /\ DOMAIN list = 1 .. Len(list) /\ len \in Nat
  BY <1>4
<1>6. ASSUME NEW i \in DOMAIN page
      PROVE  \E j \in DOMAIN list : j <= n /\ page[i] = list[j]
  <2>1. i \in 1 .. len /\ len = n - a + 1
    BY <1>1, <1>2, <1>4, <1>5, <1>6
  <2>2. a + i - 1 \in 1 .. Len(list) /\ a + i - 1 <= n
    BY <2>1, <1>1, <1>2, SMTT(30)
  <2> QED BY <2>1, <2>2, <1>4, <1>5
<1>7. ASSUME NEW j \in DOMAIN list, j <= n, len < PageSize \/ j > n - PageSize
      PROVE  \E i \in DOMAIN page : page[i] = list[j]
  <2>1. j \in Nat /\ 1 <= j /\ j <= n /\ (len < PageSize \/ j > n - PageSize)
    BY <1>1, <1>5, <1>7
  <2>2. len = IF a <= n THEN n - a + 1 ELSE 0
    BY <1>4
  <2> HIDE DEF n, len
  <2>3. a <= j
    BY <2>1, <2>2, <1>1, <1>2
  <2>4. j - a + 1 \in 1 .. len /\ a + (j - a + 1) - 1 = j
    BY <2>1, <2>2, <2>3, <1>1, <1>2, SMTT(30)
  <2> USE DEF n, len
  <2> QED BY <2>4, <1>4, <1>5
<1> QED BY <1>3, <1>4, <1>6, <1>7

(* A sequence of a set's elements, each once, has all of them. *)
LEMMA OrdersAll ==
  ASSUME NEW S, IsFiniteSet(S), NEW s \in Orders(S)
  PROVE  /\ s \in Seq(S)
         /\ \A i, j \in DOMAIN s : s[i] = s[j] => i = j
         /\ \A x \in S : \E i \in DOMAIN s : s[i] = x
<1> DEFINE n == Cardinality(S)
<1>1. n \in Nat
  BY FS_CardinalityType
<1>2. /\ s \in [1 .. n -> S]
      /\ \A i, j \in 1 .. n : s[i] = s[j] => i = j
      /\ \A x \in S : \E i \in 1 .. n : s[i] = x
  BY DEF Orders, Bijection, Injection, Surjection, IsInjective
<1>3. s \in Seq(S) /\ DOMAIN s = 1 .. n
  BY <1>1, <1>2
<1> QED BY <1>2, <1>3

(* What a condition leaves of a list. *)
LEMMA OnlyKeeps ==
  ASSUME NEW X, NEW s \in Seq(X), NEW P \in SUBSET (DOMAIN s)
  PROVE  /\ Only(s, P) \in Seq(X)
         /\ Range(Only(s, P)) = {s[i] : i \in P}
         /\ (\A i, j \in DOMAIN s : s[i] = s[j] => i = j)
              => \A i, j \in DOMAIN Only(s, P) : Only(s, P)[i] = Only(s, P)[j] => i = j
<1> DEFINE N == Cardinality(P)
           o == Only(s, P)
<1>1. P \in SUBSET Nat /\ IsFiniteSet(P)
  <2>1. DOMAIN s = 1 .. Len(s) /\ Len(s) \in Nat
    OBVIOUS
  <2>2. IsFiniteSet(1 .. Len(s))
    BY <2>1, FS_Interval
  <2> QED BY <2>1, <2>2, FS_Subset
<1>2. /\ N \in Nat
      /\ \A i \in 1 .. N : Place(P, i) \in P
      /\ \A i, j \in 1 .. N : i < j => Place(P, i) < Place(P, j)
      /\ \A k \in P : \E i \in 1 .. N : Place(P, i) = k
  BY <1>1, EachHasPlace
<1>3. o \in Seq(X)
  BY OnlyLists
<1>4. DOMAIN o = 1 .. N /\ \A i \in 1 .. N : o[i] = s[Place(P, i)]
  BY DEF Only
<1>5. Range(o) = {s[i] : i \in P}
  BY <1>2, <1>4 DEF Range
<1>6. ASSUME \A i, j \in DOMAIN s : s[i] = s[j] => i = j,
             NEW i \in DOMAIN o, NEW j \in DOMAIN o, o[i] = o[j]
      PROVE  i = j
  <2>1. Place(P, i) = Place(P, j)
    BY <1>2, <1>4, <1>6
  <2>2. i \in 1 .. N /\ j \in 1 .. N /\ Place(P, i) \in Nat /\ Place(P, j) \in Nat
    BY <1>1, <1>2, <1>4
  <2>3. ~(i < j) /\ ~(j < i)
    BY <2>1, <2>2, <1>2
  <2> QED BY <2>2, <2>3
<1> QED BY <1>3, <1>5, <1>6

-----------------------------------------------------------------------------
(* The chain *)

Blocks == [time : Int, txs : Seq(Nat)]

HeightIn(bs, t) == IF \E b \in DOMAIN bs : t \in Range(bs[b].txs)
                     THEN CHOOSE b \in DOMAIN bs : t \in Range(bs[b].txs)
                     ELSE 0

(* A chain in which a transaction is in one block only. *)
OnceEach(bs) ==
  /\ bs \in Seq(Blocks)
  /\ \A b, d \in DOMAIN bs : \A t \in Range(bs[b].txs) \cap Range(bs[d].txs) : b = d

LEMMA HeightIs ==
  ASSUME NEW bs, OnceEach(bs), NEW t
  PROVE  /\ HeightIn(bs, t) \in Nat
         /\ HeightIn(bs, t) > 0 =>
              HeightIn(bs, t) \in DOMAIN bs /\ t \in Range(bs[HeightIn(bs, t)].txs)
         /\ HeightIn(bs, t) <= Len(bs)
         /\ \A b \in DOMAIN bs : t \in Range(bs[b].txs) => HeightIn(bs, t) = b
<1>1. DOMAIN bs = 1 .. Len(bs) /\ Len(bs) \in Nat
  BY DEF OnceEach
<1>2. CASE \E b \in DOMAIN bs : t \in Range(bs[b].txs)
  <2>1. HeightIn(bs, t) \in DOMAIN bs /\ t \in Range(bs[HeightIn(bs, t)].txs)
    BY <1>2 DEF HeightIn
  <2>2. ASSUME NEW b \in DOMAIN bs, t \in Range(bs[b].txs)
        PROVE  HeightIn(bs, t) = b
    BY <2>1, <2>2 DEF OnceEach
  <2> QED BY <1>1, <2>1, <2>2
<1>3. CASE ~\E b \in DOMAIN bs : t \in Range(bs[b].txs)
  <2>1. HeightIn(bs, t) = 0
    BY <1>3 DEF HeightIn
  <2> QED BY <1>1, <1>3, <2>1
<1> QED BY <1>2, <1>3

(* A longer chain says the same of what was confirmed, and confirms other  *)
(* transactions above it.                                                  *)
LEMMA HeightsStay ==
  ASSUME NEW bs, NEW cs, OnceEach(bs), OnceEach(cs), Len(bs) <= Len(cs),
         \A b \in DOMAIN bs : cs[b] = bs[b], NEW t
  PROVE  /\ HeightIn(bs, t) > 0 => HeightIn(cs, t) = HeightIn(bs, t)
         /\ HeightIn(bs, t) = 0 => HeightIn(cs, t) = 0 \/ HeightIn(cs, t) > Len(bs)
<1>1. DOMAIN bs = 1 .. Len(bs) /\ Len(bs) \in Nat /\ DOMAIN cs = 1 .. Len(cs) /\ Len(cs) \in Nat
  BY DEF OnceEach
<1>2. DOMAIN bs \subseteq DOMAIN cs
  BY <1>1
<1>3. ASSUME HeightIn(bs, t) > 0
      PROVE  HeightIn(cs, t) = HeightIn(bs, t)
  BY <1>2, <1>3, HeightIs
<1>4. ASSUME HeightIn(bs, t) = 0, HeightIn(cs, t) # 0, HeightIn(cs, t) <= Len(bs)
      PROVE  FALSE
  <2>1. HeightIn(cs, t) \in Nat /\ HeightIn(cs, t) > 0
    BY <1>4, HeightIs
  <2>2. HeightIn(cs, t) \in DOMAIN bs /\ t \in Range(cs[HeightIn(cs, t)].txs)
    BY <1>1, <1>4, <2>1, HeightIs
  <2>3. HeightIn(bs, t) = HeightIn(cs, t)
    BY <2>2, HeightIs
  <2> QED BY <1>4, <2>3
<1>5. HeightIn(cs, t) \in Nat
  BY HeightIs
<1> QED BY <1>1, <1>3, <1>4, <1>5

(* The chain of the state. *)
LEMMA HeightOfState ==
  ASSUME Mined
  PROVE  /\ OnceEach(blocks)
         /\ \A t : Height(t) = HeightIn(blocks, t)
         /\ \A t : Height(t) \in 0 .. Len(blocks)
         /\ \A t : Height(t) > 0 => t \in Confirmed
         /\ \A t \in Confirmed : t \in DOMAIN txs /\ Height(t) > 0
<1>1. OnceEach(blocks)
  BY DEF Mined, OnceEach, Blocks, Range
<1>2. \A t : Height(t) = HeightIn(blocks, t)
  BY DEF Height, HeightIn
<1>3. Len(blocks) \in Nat
  BY <1>1 DEF OnceEach
<1>4. \A t : HeightIn(blocks, t) \in 0 .. Len(blocks)
  BY <1>1, <1>3, HeightIs
<1>5. ASSUME NEW t, Height(t) > 0
      PROVE  t \in DOMAIN txs
  <2>1. Height(t) \in DOMAIN blocks /\ t \in Range(blocks[Height(t)].txs)
    BY <1>1, <1>2, <1>5, HeightIs
  <2> QED BY <2>1 DEF Mined, Range
<1> QED BY <1>1, <1>2, <1>4, <1>5 DEF Confirmed

(* List and chain become longer, and stay as they were. *)
Grows ==
  /\ Len(txs) <= Len(txs') /\ \A t \in DOMAIN txs : txs'[t] = txs[t]
  /\ \A k \in Kinds :
       /\ Len(listed[k]) <= Len(listed'[k])
       /\ \A i \in DOMAIN listed[k] : listed'[k][i] = listed[k][i]
  /\ Len(blocks) <= Len(blocks') /\ \A b \in DOMAIN blocks : blocks'[b] = blocks[b]

LEMMA ConfirmedStays ==
  ASSUME Made, Made', Mined, OnceEach(blocks'), Grows
  PROVE  /\ \A t \in Confirmed :
              /\ t \in DOMAIN txs /\ txs'[t] = txs[t] /\ t \in Confirmed'
              /\ Height(t)' = Height(t) /\ Tuple(t)' = Tuple(t)
         /\ \A t \in DOMAIN txs : t \notin Confirmed =>
              Height(t) = 0 /\ (Height(t)' = 0 \/ Height(t)' > Len(blocks))
<1>1. DOMAIN txs \subseteq DOMAIN txs'
  BY DEF Made, Grows
<1>2. \A t : Height(t)' = HeightIn(blocks', t)
  BY DEF Height, HeightIn
<1>3. /\ OnceEach(blocks)
      /\ \A t : Height(t) = HeightIn(blocks, t)
      /\ \A t : Height(t) \in 0 .. Len(blocks)
      /\ \A t : Height(t) > 0 => t \in Confirmed
      /\ \A t \in Confirmed : t \in DOMAIN txs /\ Height(t) > 0
  BY HeightOfState
<1>4. \A t : /\ Height(t) > 0 => Height(t)' = Height(t)
             /\ Height(t) = 0 => Height(t)' = 0 \/ Height(t)' > Len(blocks)
  <2> SUFFICES ASSUME NEW t
               PROVE  /\ HeightIn(blocks, t) > 0 => HeightIn(blocks', t) = HeightIn(blocks, t)
                      /\ HeightIn(blocks, t) = 0 =>
                           HeightIn(blocks', t) = 0 \/ HeightIn(blocks', t) > Len(blocks)
    BY <1>2, <1>3
  <2>1. PICK bs : bs = blocks
    OBVIOUS
  <2>2. PICK cs : cs = blocks'
    OBVIOUS
  <2>3. Len(bs) <= Len(cs) /\ \A b \in DOMAIN bs : cs[b] = bs[b]
    BY <2>1, <2>2 DEF Grows
  <2>4. OnceEach(bs) /\ OnceEach(cs)
    BY <1>3, <2>1, <2>2
  <2> QED BY <2>1, <2>2, <2>3, <2>4, HeightsStay
<1>5. ASSUME NEW t \in Confirmed
      PROVE  /\ t \in DOMAIN txs /\ txs'[t] = txs[t] /\ t \in Confirmed'
             /\ Height(t)' = Height(t) /\ Tuple(t)' = Tuple(t)
  <2>1. t \in DOMAIN txs /\ Height(t)' = Height(t) /\ Height(t) > 0
    BY <1>3, <1>4
  <2>2. t \in Confirmed' /\ txs'[t] = txs[t]
    BY <1>1, <2>1 DEF Confirmed, Grows
  <2>3. Height(t) \in DOMAIN blocks
    BY <1>3, <2>1, HeightIs
  <2>4. blocks'[Height(t)'] = blocks[Height(t)]
    BY <2>1, <2>3 DEF Grows
  <2>5. Blocktime(t)' = Blocktime(t) /\ Blockindex(t)' = Blockindex(t)
    BY <2>1, <2>4 DEF Blocktime, Blockindex
  <2> QED BY <2>1, <2>2, <2>5 DEF Tuple
<1>6. ASSUME NEW t \in DOMAIN txs, t \notin Confirmed
      PROVE  Height(t) = 0
  BY <1>3, <1>6
<1> QED BY <1>4, <1>5, <1>6

(* What a transaction spends from and refers to. *)
LEMMA Ancestors ==
  ASSUME Made, Mined
  PROVE  /\ DOMAIN txs = 1 .. Len(txs) /\ Len(txs) \in Nat /\ 1 \in DOMAIN txs
         /\ \A t \in DOMAIN txs : InputsOf(t) \subseteq DOMAIN txs
         /\ \A t \in Confirmed : InputsOf(t) \subseteq Confirmed
         /\ \A t \in DOMAIN txs : txs[t].kind # "funds" =>
              /\ t \in 2 .. Len(txs) /\ Refers(t)
              /\ txs[t].kind # "proposal" => txs[t].refers \in DOMAIN txs
         /\ \A t \in DOMAIN txs : txs[t].kind = "card" =>
              \A u \in CitedBy(t) : u \in Confirmed /\ txs[u].kind \in {"donation", "proposal"}
<1>1. DOMAIN txs = 1 .. Len(txs) /\ Len(txs) \in Nat /\ 1 \in DOMAIN txs
  BY DEF Made
<1>2. txs[1].ins = {} /\ txs[1].kind = "funds"
  <2>1. txs[1] \in Txs /\ txs[1].kind = "funds"
    BY <1>1 DEF Made
  <2>2. "funds" \notin Tracked /\ "funds" # "card"
    BY DEF Tracked
  <2> QED BY <2>1, <2>2 DEF Txs
<1>3. ASSUME NEW t \in DOMAIN txs
      PROVE  InputsOf(t) \subseteq DOMAIN txs
  <2>1. CASE t = 1
    BY <1>2, <2>1 DEF InputsOf
  <2>2. CASE t # 1
    <3>1. t \in 2 .. Len(txs)
      BY <1>1, <2>2
    <3>2. \A c \in txs[t].ins : c.tx \in 1 .. t - 1
      BY <3>1 DEF Made, Built
    <3> QED BY <1>1, <3>1, <3>2 DEF InputsOf
  <2> QED BY <2>1, <2>2
<1>4. ASSUME NEW t \in Confirmed
      PROVE  InputsOf(t) \subseteq Confirmed
  <2>1. \A c \in txs[t].ins : Height(c.tx) > 0
    BY HeightOfState DEF Mined
  <2> QED BY <2>1, HeightOfState DEF InputsOf
<1>5. ASSUME NEW t \in DOMAIN txs, txs[t].kind # "funds"
      PROVE  /\ t \in 2 .. Len(txs) /\ Refers(t)
             /\ txs[t].kind # "proposal" => txs[t].refers \in DOMAIN txs
  <2>1. t \in 2 .. Len(txs)
    BY <1>1, <1>2, <1>5
  <2> QED BY <2>1 DEF Made, Refers
<1>6. ASSUME NEW t \in DOMAIN txs, txs[t].kind = "card"
      PROVE  \A u \in CitedBy(t) :
               u \in Confirmed /\ txs[u].kind \in {"donation", "proposal"}
  <2> DEFINE d == txs[t].refers
  <2>1. d \in DOMAIN txs /\ txs[d].kind = "donation"
    BY <1>5, <1>6, KindsAre DEF Refers, Tracked
  <2>2. Height(txs[d].refers) > 0 /\ txs[txs[d].refers].kind = "proposal"
    <3>1. Refers(d)
      BY <1>5, <2>1
    <3> QED BY <2>1, <3>1 DEF Mined, OfKind, Refers
  <2>3. CASE Height(d) \in 1 .. Height(t)
    BY <2>1, <2>2, <2>3, HeightOfState DEF CitedBy
  <2>4. CASE Height(d) \notin 1 .. Height(t)
    BY <2>4 DEF CitedBy
  <2> QED BY <2>3, <2>4
<1> QED BY <1>1, <1>3, <1>4, <1>5, <1>6

LEMMA WantedConfirmed ==
  ASSUME Made, Mined, Holds
  PROVE  \A t : Wanted(t) => t \in Confirmed
<1>1. known \subseteq Confirmed
  BY DEF Holds
<1>2. \A x \in found : InputsOf(x.tx) \subseteq Confirmed
  BY Ancestors DEF Holds
<1>3. {"card", "donation", "locking"} \subseteq Kinds
  BY KindsAre
<1>4. \A t \in Range(read["donation"]) \cup Range(read["locking"]) : InputsOf(t) \subseteq Confirmed
  BY <1>3, Ancestors DEF Holds
<1>5. \A t \in Range(read["card"]) : CitedBy(t) \subseteq Confirmed
  <2>1. \A t \in Range(read["card"]) : t \in DOMAIN txs /\ txs[t].kind = "card"
    BY <1>3, HeightOfState DEF Holds
  <2> QED BY <2>1, Ancestors
<1> QED BY <1>1, <1>2, <1>4, <1>5 DEF Wanted

-----------------------------------------------------------------------------
(* A longer list and a longer chain leave the parse as it is *)

LEMMA SameAncestors ==
  ASSUME Made, Made', Mined, OnceEach(blocks'), Grows
  PROVE  /\ \A t \in Confirmed : InputsOf(t)' = InputsOf(t)
         /\ \A t \in Confirmed : txs[t].kind = "card" => CitedBy(t)' = CitedBy(t)
<1>1. ASSUME NEW t \in Confirmed
      PROVE  InputsOf(t)' = InputsOf(t)
  BY ConfirmedStays DEF InputsOf
<1>2. ASSUME NEW t \in Confirmed, txs[t].kind = "card"
      PROVE  CitedBy(t)' = CitedBy(t)
  <2> DEFINE d == txs[t].refers
  <2>1. /\ t \in DOMAIN txs /\ txs'[t] = txs[t]
        /\ Height(t)' = Height(t) /\ Height(t) \in 1 .. Len(blocks)
    BY ConfirmedStays, HeightOfState
  <2>2. d \in DOMAIN txs /\ txs'[d] = txs[d] /\ d = txs'[t].refers
    BY <1>2, <2>1, Ancestors DEF Grows
  <2>3. \/ Height(d)' = Height(d)
        \/ Height(d) = 0 /\ (Height(d)' = 0 \/ Height(d)' > Len(blocks))
    BY <2>2, ConfirmedStays
  <2>4. Height(d)' \in 1 .. Height(t) <=> Height(d) \in 1 .. Height(t)
    <3>1. PICK h : h = Height(d)'
      OBVIOUS
    <3>2. Height(t) \in Nat /\ Len(blocks) \in Nat /\ Height(t) <= Len(blocks)
      BY <2>1, HeightOfState DEF OnceEach
    <3>3. h = Height(d) \/ (Height(d) = 0 /\ (h = 0 \/ h > Len(blocks)))
      BY <2>3, <3>1
    <3> QED BY <3>1, <3>2, <3>3
  <2> QED BY <2>1, <2>2, <2>4 DEF CitedBy
<1> QED BY <1>1, <1>2

LEMMA GrowthKeepsParse ==
  ASSUME ChainInv, ChainInv', Grows, ParseInv,
         UNCHANGED <<stage, start, found, read, known>>
  PROVE  ParseInv'
<1> USE DEF ChainInv, ParseInv
<1>1. OnceEach(blocks')
  BY DEF Mined, OnceEach, Blocks, Range
<1>2. \A t \in Confirmed :
         /\ t \in DOMAIN txs /\ txs'[t] = txs[t] /\ t \in Confirmed'
         /\ Tuple(t)' = Tuple(t) /\ InputsOf(t)' = InputsOf(t)
         /\ txs[t].kind = "card" => CitedBy(t)' = CitedBy(t)
  BY <1>1, ConfirmedStays, SameAncestors
<1>3. {"card", "donation", "locking", "proposal"} \subseteq Kinds /\ Tracked \subseteq Kinds
  BY KindsAre DEF Tracked
<1>4. \A t \in Confirmed : Accepts(t)' = Accepts(t)
  BY <1>2 DEF Accepts, HasFormat
<1>5. \A k \in Kinds : \A t \in Range(read[k]) : t \in Confirmed /\ txs[t].kind = k
  BY DEF Holds
<1>6. Holds'
  <2>1. \A x \in found :
          (x.tx \in Confirmed /\ x = Tuple(x.tx) /\ txs[x.tx].kind = Account)'
    BY <1>2 DEF Holds, Account
  <2>2. \A k \in Kinds : \A t \in Range(read[k]) : (t \in Confirmed /\ txs[t].kind = k)'
    BY <1>2, <1>5
  <2>3. \A k \in Tracked : \A t \in Range(read[k]) : Accepts(t)'
    BY <1>3, <1>4, <1>5 DEF Holds
  <2>4. (known \subseteq Confirmed)'
    BY <1>2 DEF Holds
  <2> QED BY <2>1, <2>2, <2>3, <2>4 DEF Holds, Reading, Done
<1>7. \A t : Wanted(t)' <=> Wanted(t)
  <2>1. \A x \in found : InputsOf(x.tx)' = InputsOf(x.tx)
    BY <1>2 DEF Holds
  <2>2. \A t \in Range(read["donation"]) \cup Range(read["locking"]) : InputsOf(t)' = InputsOf(t)
    BY <1>2, <1>3, <1>5
  <2>3. \A t \in Range(read["card"]) : CitedBy(t)' = CitedBy(t)
    BY <1>2, <1>3, <1>5
  <2> QED BY <2>1, <2>2, <2>3 DEF Wanted
<1>8. Covered'
  <2> SUFFICES ASSUME Reading', NEW t \in Confirmed', Wanted(t), txs'[t].kind = Account'
               PROVE  t \in ({x.tx : x \in found} \cup Rest(listed[Account], start))'
    BY <1>7 DEF Covered
  <2>1. t \in {x.tx : x \in found} \cup Rest(listed[Account], start)
    BY <1>2, WantedConfirmed DEF Covered, Reading, Account
  <2>2. Account \in Kinds /\ Account' = Account
    BY DEF Reading, Account, Kinds, Over, Accounts
  <2>3. Rest(listed[Account], start) \subseteq Rest(listed[Account], start)'
    <3>1. PICK a : a = listed[Account]
      OBVIOUS
    <3>2. PICK b : b = listed'[Account]
      OBVIOUS
    <3>3. a \in Seq(Nat) /\ b \in Seq(Nat) /\ start \in Nat
      BY <2>2, <3>1, <3>2 DEF Listed, Holds
    <3>4. Len(a) <= Len(b) /\ \A i \in DOMAIN a : b[i] = a[i]
      BY <2>2, <3>1, <3>2 DEF Grows
    <3>5. DOMAIN a = 1 .. Len(a) /\ DOMAIN b = 1 .. Len(b) /\ Len(a) \in Nat /\ Len(b) \in Nat
      BY <3>3
    <3>6. \A i \in DOMAIN a : i <= Len(a) - start =>
            i \in DOMAIN b /\ i <= Len(b) - start /\ b[i] = a[i]
      BY <3>3, <3>4, <3>5
    <3>7. {a[i] : i \in {j \in DOMAIN a : j <= Len(a) - start}}
            \subseteq {b[i] : i \in {j \in DOMAIN b : j <= Len(b) - start}}
      BY <3>6
    <3>8. Rest(listed[Account], start) = {a[i] : i \in {j \in DOMAIN a : j <= Len(a) - start}}
      BY <3>1 DEF Rest
    <3>9. Rest(listed[Account], start)' = {b[i] : i \in {j \in DOMAIN b : j <= Len(b) - start}}
      BY <2>2, <3>2 DEF Rest
    <3> QED BY <3>7, <3>8, <3>9
  <2> QED BY <2>1, <2>3
<1>9. Thorough'
  <2>1. \A t \in known : (txs[t].kind \in Tracked /\ Done(txs[t].kind) /\ Accepts(t)
                           => t \in Range(read[txs[t].kind]))'
    BY <1>2, <1>4 DEF Holds, Thorough, Done
  <2>2. \A k \in {"donation", "locking"} : \A t \in Range(read[k]) : \A u \in InputsOf(t) :
          (txs[u].kind \in {"locking", "signalling"} /\ txs[u].refers = txs[t].refers
             /\ Done(txs[u].kind) => u \in Range(read[txs[u].kind]))'
    <3> SUFFICES ASSUME NEW k \in {"donation", "locking"}, NEW t \in Range(read[k]),
                        NEW u \in InputsOf(t)
                 PROVE  (txs[u].kind \in {"locking", "signalling"}
                           /\ txs[u].refers = txs[t].refers
                           /\ Done(txs[u].kind) => u \in Range(read[txs[u].kind]))'
      OBVIOUS
    <3>1. t \in Confirmed /\ u \in Confirmed
      BY <1>3, <1>5, Ancestors
    <3> QED BY <1>2, <3>1 DEF Thorough, Done
  <2>3. \A t \in Range(read["card"]) : \A u \in CitedBy(t) :
          (Done(txs[u].kind) /\ Accepts(u) => u \in Range(read[txs[u].kind]))'
    <3> SUFFICES ASSUME NEW t \in Range(read["card"]), NEW u \in CitedBy(t)
                 PROVE  (Done(txs[u].kind) /\ Accepts(u) => u \in Range(read[txs[u].kind]))'
      OBVIOUS
    <3>1. t \in Confirmed /\ u \in Confirmed
      BY <1>2, <1>3, <1>5, Ancestors
    <3> QED BY <1>2, <1>4, <3>1 DEF Thorough, Done
  <2>4. \A k \in {"donation", "locking"} : \A t \in Range(read[k]) : InputsOf(t)' = InputsOf(t)
    BY <1>2, <1>3, <1>5
  <2>5. \A t \in Range(read["card"]) : CitedBy(t)' = CitedBy(t)
    BY <1>2, <1>3, <1>5
  <2> QED BY <2>1, <2>2, <2>3, <2>4, <2>5 DEF Thorough
<1> QED BY <1>6, <1>8, <1>9

-----------------------------------------------------------------------------
(* Steps of the parse *)

LEMMA SameChain ==
  ASSUME UNCHANGED chain
  PROVE  /\ ChainInv => ChainInv'
         /\ Confirmed' = Confirmed /\ txs' = txs /\ listed' = listed
         /\ \A t : /\ Tuple(t)' = Tuple(t) /\ InputsOf(t)' = InputsOf(t)
                  /\ CitedBy(t)' = CitedBy(t)
<1>1. txs' = txs /\ listed' = listed /\ blocks' = blocks
  BY DEF chain
<1>2. \A t : Height(t)' = Height(t)
  BY <1>1 DEF Height
<1>3. Confirmed' = Confirmed
  BY <1>1, <1>2 DEF Confirmed
<1>4. \A t : /\ Tuple(t)' = Tuple(t) /\ InputsOf(t)' = InputsOf(t)
            /\ CitedBy(t)' = CitedBy(t)
  BY <1>1, <1>2 DEF Tuple, Blocktime, Blockindex, InputsOf, CitedBy
<1>5. Made => Made'
  <2>1. \A t : SpentBy(t)' = SpentBy(t)
    BY <1>1 DEF SpentBy, Worth
  <2>2. \A t : (Built(t) <=> Built(t)') /\ (Refers(t) <=> Refers(t)')
    BY <1>1, <2>1 DEF Built, Refers
  <2> QED BY <1>1, <2>2 DEF Made
<1>6. Listed => Listed'
  BY <1>1 DEF Listed
<1>7. Mined => Mined'
  BY <1>1, <1>2, <1>3 DEF Mined, OfKind
<1> QED BY <1>1, <1>3, <1>4, <1>5, <1>6, <1>7 DEF ChainInv

LEMMA ReadingOf ==
  ASSUME Reading, stage \in 0 .. Raised
  PROVE  /\ stage \in 2 .. 6 /\ Account \in Tracked /\ Account \in Kinds /\ ~Done(Account)
         /\ \A k : Done(k) =>
              \/ k = "card"
              \/ k = "proposal" /\ stage > 2
              \/ k = "donation" /\ stage > 3
              \/ k = "locking" /\ stage > 4
              \/ k = "signalling" /\ stage > 5
         /\ Account = "proposal" <=> stage = 2
         /\ Account = "donation" <=> stage = 3
         /\ Account = "locking" <=> stage = 4
         /\ Account = "signalling" <=> stage = 5
         /\ Account = "voting" <=> stage = 6
<1>1. stage \in 2 .. 6
  BY DEF Reading, Over, Accounts
<1>2. /\ Account \in Tracked /\ Account \in Kinds
      /\ Account = "proposal" <=> stage = 2
      /\ Account = "donation" <=> stage = 3
      /\ Account = "locking" <=> stage = 4
      /\ Account = "signalling" <=> stage = 5
      /\ Account = "voting" <=> stage = 6
  BY <1>1, KindsAre DEF Account, Accounts, Tracked
<1>3. \A k : Done(k) =>
        \/ k = "card"
        \/ k = "proposal" /\ stage > 2
        \/ k = "donation" /\ stage > 3
        \/ k = "locking" /\ stage > 4
        \/ k = "signalling" /\ stage > 5
  BY <1>1 DEF Done, Accounts
<1>4. ~Done(Account)
  BY <1>1, <1>3, <1>2 DEF Tracked
<1> QED BY <1>1, <1>2, <1>3, <1>4

(* Every transaction is in its list. *)
LEMMA AllListed ==
  ASSUME Made, Mined, Listed, NEW t \in DOMAIN txs, txs[t].kind \in Kinds
  PROVE  t \in Rest(listed[txs[t].kind], 0)
<1>1. t \in 2 .. Len(txs)
  BY Ancestors, KindsAre
<1>2. PICK i \in DOMAIN listed[txs[t].kind] : listed[txs[t].kind][i] = t
  BY <1>1 DEF Listed
<1>3. i <= Len(listed[txs[t].kind]) - 0
  BY <1>2 DEF Listed
<1> QED BY <1>2, <1>3 DEF Rest

(* What the page leaves of the rest of a list. *)
LEMMA RestOfPage ==
  ASSUME NEW list \in Seq(Nat), NEW since \in Nat, NEW t \in Rest(list, since)
  PROVE  \/ t \in Range(Page(list, since))
         \/ Len(Page(list, since)) >= PageSize /\ t \in Rest(list, since + PageSize)
<1>1. PICK j \in DOMAIN list : j <= Len(list) - since /\ list[j] = t
  BY DEF Rest
<1>2. /\ PageSize \in Nat /\ Len(list) \in Nat /\ j \in Nat
      /\ Len(Page(list, since)) \in Nat /\ Page(list, since) \in Seq(Nat)
  BY PageHolds, PagesAssumption
<1>3. CASE Len(Page(list, since)) < PageSize \/ j > Len(list) - since - PageSize
  BY <1>1, <1>3, PageHolds DEF Range
<1>4. CASE Len(Page(list, since)) >= PageSize /\ j <= Len(list) - since - PageSize
  <2>1. j <= Len(list) - (since + PageSize)
    BY <1>2, <1>4
  <2> QED BY <1>1, <1>4, <2>1 DEF Rest
<1> QED BY <1>2, <1>3, <1>4

LEMMA PageFinds ==
  ASSUME ChainInv, ParseInv, Reading
  PROVE  /\ found \subseteq FoundNow
         /\ \A x \in FoundNow :
              x.tx \in Confirmed /\ x = Tuple(x.tx) /\ txs[x.tx].kind = Account
         /\ \A t \in Confirmed :
              /\ txs[t].kind = Account
              /\ Wanted(t) \/ \E x \in FoundNow : t \in InputsOf(x.tx)
              => \/ t \in {x.tx : x \in FoundNow}
                 \/ Len(InPage) >= PageSize /\ t \in Rest(listed[Account], start + PageSize)
<1> USE DEF ChainInv, ParseInv
<1> DEFINE list == listed[Account]
<1>1. Account \in Kinds /\ list \in Seq(Nat) /\ start \in Nat /\ InPage = Page(list, start)
  BY ReadingOf DEF Holds, Listed, InPage
<1>2. found \subseteq FoundNow
  BY DEF FoundNow
<1>3. \A t : Tuple(t).tx = t
  BY DEF Tuple
<1>4. ASSUME NEW t \in Range(InPage)
      PROVE  \E j \in DOMAIN list : j <= Len(list) - start /\ t = list[j]
  BY <1>1, <1>4, PageHolds DEF Range
<1>5. \A i \in DOMAIN list :
        /\ list[i] \in 2 .. Len(txs) /\ txs[list[i]].kind = Account
        /\ \A j \in DOMAIN list : i < j => list[i] <= list[j]
  BY <1>1 DEF Listed
<1>6. ASSUME NEW x \in FoundNow
      PROVE  x.tx \in Confirmed /\ x = Tuple(x.tx) /\ txs[x.tx].kind = Account
  <2>1. CASE x \in found
    BY <2>1 DEF Holds
  <2>2. CASE x \notin found
    <3>1. PICK t \in Range(InPage) \cap Confirmed : x = Tuple(t)
      BY <2>2 DEF FoundNow
    <3> QED BY <3>1, <1>3, <1>4, <1>5
  <2> QED BY <2>1, <2>2
<1>7. ASSUME NEW t \in Confirmed, t \in Rest(list, start)
      PROVE  \/ t \in {x.tx : x \in FoundNow}
             \/ Len(InPage) >= PageSize /\ t \in Rest(list, start + PageSize)
  <2>1. CASE t \in Range(InPage)
    <3>1. Tuple(t) \in FoundNow
      BY <2>1 DEF FoundNow
    <3> QED BY <3>1, <1>3
  <2>2. CASE t \notin Range(InPage)
    BY <2>2, <1>1, <1>7, RestOfPage
  <2> QED BY <2>1, <2>2
<1>8. ASSUME NEW t \in Confirmed, txs[t].kind = Account, Wanted(t)
      PROVE  t \in {x.tx : x \in found} \cup Rest(list, start)
  BY <1>8 DEF Covered
<1>9. ASSUME NEW t \in Confirmed, txs[t].kind = Account,
             NEW x \in FoundNow, t \in InputsOf(x.tx), x \notin found
      PROVE  t \in Rest(list, start)
  <2>1. x.tx \in Range(InPage)
    BY <1>3, <1>9 DEF FoundNow
  <2>2. PICK j \in DOMAIN list : j <= Len(list) - start /\ x.tx = list[j]
    BY <1>4, <2>1
  <2>3. x.tx \in 2 .. Len(txs) /\ Len(txs) \in Nat
    BY <1>5, <2>2, Ancestors
  <2>4. t \in 1 .. x.tx - 1
    BY <1>9, <2>3 DEF Made, Built, InputsOf
  <2>5. t \in 2 .. Len(txs)
    BY <1>1, <1>9, HeightOfState, Ancestors, KindsAre
  <2>6. PICK i \in DOMAIN list : list[i] = t
    BY <1>9, <2>5 DEF Listed
  <2>7. i \in Nat /\ j \in Nat /\ Len(list) \in Nat
    BY <1>1
  <2>8. ~(j < i) /\ i # j
    BY <1>5, <2>2, <2>3, <2>4, <2>6
  <2>9. i <= Len(list) - start
    BY <1>1, <2>2, <2>7, <2>8
  <2> QED BY <2>6, <2>9 DEF Rest
<1>10. ASSUME NEW t \in Confirmed, txs[t].kind = Account,
              Wanted(t) \/ \E x \in FoundNow : t \in InputsOf(x.tx)
       PROVE  t \in {x.tx : x \in found} \cup Rest(list, start)
  <2>1. CASE Wanted(t)
    BY <1>8, <1>10, <2>1
  <2>2. CASE \E x \in FoundNow : t \in InputsOf(x.tx)
    <3>1. PICK x \in FoundNow : t \in InputsOf(x.tx)
      BY <2>2
    <3>2. CASE x \in found
      BY <1>8, <1>10, <3>1, <3>2 DEF Wanted
    <3>3. CASE x \notin found
      BY <1>9, <1>10, <3>1, <3>3
    <3> QED BY <3>2, <3>3
  <2> QED BY <1>10, <2>1, <2>2
<1>11. ASSUME NEW t \in Confirmed, txs[t].kind = Account,
              Wanted(t) \/ \E x \in FoundNow : t \in InputsOf(x.tx)
       PROVE  \/ t \in {x.tx : x \in FoundNow}
              \/ Len(InPage) >= PageSize /\ t \in Rest(list, start + PageSize)
  BY <1>2, <1>7, <1>10, <1>11
<1> QED BY <1>2, <1>6, <1>11

(* A sorting of what is found has all of it, each once. *)
LEMMA SortingIs ==
  ASSUME ChainInv, ParseInv, Reading, NEW s \in Sortings(FoundNow)
  PROVE  /\ s \in Seq(FoundNow) /\ DOMAIN s = 1 .. Len(s) /\ Len(s) \in Nat
         /\ \A x \in FoundNow : \E i \in DOMAIN s : s[i] = x
         /\ [i \in DOMAIN s |-> s[i].tx] \in Seq(Nat)
         /\ \A i, j \in DOMAIN s : s[i].tx = s[j].tx => i = j
<1> USE DEF ChainInv, ParseInv
<1> DEFINE F == FoundNow
           u == [i \in DOMAIN s |-> s[i].tx]
<1>1. \A x \in F : x.tx \in Confirmed /\ x = Tuple(x.tx)
  BY PageFinds
<1>2. IsFiniteSet(F)
  <2>1. DOMAIN txs = 1 .. Len(txs) /\ Len(txs) \in Nat
    BY Ancestors
  <2>2. IsFiniteSet(DOMAIN txs)
    BY <2>1, FS_Interval
  <2> DEFINE T == {t \in DOMAIN txs : \E x \in F : x.tx = t}
             g == [t \in T |-> Tuple(t)]
  <2>3. IsFiniteSet(T)
    BY <2>2, FS_Subset
  <2>4. \A x \in F : x.tx \in T /\ g[x.tx] = x
    BY <1>1, HeightOfState
  <2>5. \A t \in T : g[t] \in F
    BY <1>1
  <2>6. g \in Surjection(T, F)
    <3> HIDE DEF F, T
    <3> QED BY <2>4, <2>5 DEF Surjection
  <2> QED BY <2>3, <2>6, FS_Surjection
<1>3. s \in Orders(F)
  BY DEF Sortings
<1>4. /\ s \in Seq(F)
      /\ \A i, j \in DOMAIN s : s[i] = s[j] => i = j
      /\ \A x \in F : \E i \in DOMAIN s : s[i] = x
  BY <1>2, <1>3, OrdersAll
<1>5. DOMAIN s = 1 .. Len(s) /\ Len(s) \in Nat /\ \A i \in DOMAIN s : s[i] \in F
  BY <1>4
<1>6. \A i \in DOMAIN s : s[i].tx \in Nat
  <2>1. \A t \in DOMAIN txs : t \in Nat
    BY Ancestors
  <2> QED BY <2>1, <1>1, <1>5, HeightOfState
<1>7. u \in Seq(Nat) /\ DOMAIN u = DOMAIN s
  BY <1>5, <1>6
<1>8. \A i, j \in DOMAIN u : u[i] = u[j] => i = j
  BY <1>1, <1>4, <1>5, <1>7
<1> QED BY <1>4, <1>5, <1>7, <1>8

(* Sorted or not, what is found is read once, if it is accepted. *)
LEMMA LastPageReads ==
  ASSUME ChainInv, ParseInv, Reading, NEW s \in Sortings(FoundNow),
         NEW list, list = Only([i \in DOMAIN s |-> s[i].tx], {i \in DOMAIN s : Accepts(s[i].tx)})
  PROVE  /\ list \in Seq(Nat)
         /\ Range(list) = {t \in {x.tx : x \in FoundNow} : Accepts(t)}
         /\ \A i, j \in DOMAIN list : list[i] = list[j] => i = j
<1> DEFINE F == FoundNow
           u == [i \in DOMAIN s |-> s[i].tx]
           P == {i \in DOMAIN s : Accepts(s[i].tx)}
<1>4. \A x \in F : \E i \in DOMAIN s : s[i] = x
  BY SortingIs
<1>5. \A i \in DOMAIN s : s[i] \in F
  <2>1. s \in Seq(F)
    BY SortingIs
  <2> HIDE DEF F
  <2> QED BY <2>1
<1>7. u \in Seq(Nat) /\ DOMAIN u = DOMAIN s
  BY SortingIs
<1>8. \A i, j \in DOMAIN u : u[i] = u[j] => i = j
  BY SortingIs
<1>9. P \in SUBSET (DOMAIN u)
  BY <1>7
<1>10. {u[i] : i \in P} = {t \in {x.tx : x \in F} : Accepts(t)}
  <2>1. ASSUME NEW i \in P
        PROVE  u[i] \in {t \in {x.tx : x \in F} : Accepts(t)}
    BY <1>5, <2>1
  <2>2. ASSUME NEW x \in F, Accepts(x.tx)
        PROVE  \E i \in P : u[i] = x.tx
    BY <1>4, <2>2
  <2> HIDE DEF F, u, P
  <2> QED BY <2>1, <2>2
<1> HIDE DEF F, u, P
<1>11. /\ Only(u, P) \in Seq(Nat)
       /\ Range(Only(u, P)) = {u[i] : i \in P}
       /\ \A i, j \in DOMAIN Only(u, P) : Only(u, P)[i] = Only(u, P)[j] => i = j
  <2>1. u \in Seq(Nat)
    BY <1>7
  <2>2. PICK w : w = u
    OBVIOUS
  <2>3. w \in Seq(Nat) /\ P \in SUBSET (DOMAIN w)
    BY <2>1, <2>2, <1>9
  <2>4. \A i, j \in DOMAIN w : w[i] = w[j] => i = j
    BY <2>2, <1>8
  <2>5. /\ Only(w, P) \in Seq(Nat)
        /\ Range(Only(w, P)) = {w[i] : i \in P}
        /\ \A i, j \in DOMAIN Only(w, P) : Only(w, P)[i] = Only(w, P)[j] => i = j
    BY <2>3, <2>4, OnlyKeeps
  <2> QED BY <2>2, <2>5
<1>12. list = Only(u, P)
  BY DEF u, P
<1> QED BY <1>10, <1>11, <1>12 DEF F

LEMMA ConcatIs ==
  ASSUME NEW X, NEW a \in Seq(X), NEW b \in Seq(X)
  PROVE  /\ a \o b \in Seq(X) /\ Len(a \o b) = Len(a) + Len(b)
         /\ Len(a) \in Nat /\ Len(b) \in Nat
         /\ \A i \in 1 .. Len(a) : (a \o b)[i] = a[i]
         /\ \A i \in 1 .. Len(b) : (a \o b)[Len(a) + i] = b[i]
OBVIOUS

(* A transaction that pays has an output for it. *)
LEMMA TrackedOutputsAre ==
  ASSUME NEW r \in TrackedRequests, NEW v \in Nat, Enough(r, v)
  PROVE  LET outs == TrackedOutputs(r, v) IN
         /\ outs \in Seq(Outputs)
         /\ r.kind \in Paying => Len(outs) >= 3 /\ outs[3].value = r.amount
         /\ r.kind \in Paying /\ r.reserved # None => Len(outs) >= 4 /\ outs[4].value = r.reserved
         /\ r.kind \in Paying /\ r.reserved = None
              /\ ~(Len(outs) > Len(Heading(r.kind) \o ValueOutput(r) \o ReserveOutput(r)))
              => Len(outs) = 3
<1> DEFINE h == Heading(r.kind)
           p == ValueOutput(r)
           q == ReserveOutput(r)
           change == v - Complete(r)
<1> DEFINE Scripts == {"p2pkh", "p2sh", "nulldata"}
           Addresses == Tracked \cup {"card"} \cup STRING
<1>1. /\ r.kind \in Addresses /\ r.from \in Addresses /\ r.to \in Addresses /\ r.amount \in Nat
      /\ r.reserved \in Nat \cup {None}
  BY DEF TrackedRequests
<1>2. \A value \in Nat : \A script \in Scripts : \A to \in Addresses :
        Output(value, script, to) \in Outputs /\ Output(value, script, to).value = value
  BY DEF Output, Outputs
<1>3. h \in Seq(Outputs) /\ Len(h) = 2
  BY <1>1, <1>2, FeesAssumption DEF Heading
<1>4. /\ p \in Seq(Outputs)
      /\ r.kind \in Paying => Len(p) = 1 /\ p[1].value = r.amount
  <2>1. CASE r.kind \in Paying
    <3>1. PICK script \in Scripts : p = <<Output(r.amount, script, r.to)>>
      BY <2>1 DEF ValueOutput
    <3> QED BY <1>1, <1>2, <3>1
  <2>2. CASE r.kind \notin Paying
    BY <2>2 DEF ValueOutput
  <2> QED BY <2>1, <2>2
<1>5. /\ q \in Seq(Outputs)
      /\ r.reserved # None => Len(q) = 1 /\ q[1].value = r.reserved
      /\ r.reserved = None => Len(q) = 0
  <2>1. CASE r.reserved = None
    BY <2>1 DEF ReserveOutput
  <2>2. CASE r.reserved # None
    <3>1. q = <<Output(r.reserved, "p2pkh", r.from)>> /\ r.reserved \in Nat
      BY <1>1, <2>2 DEF ReserveOutput
    <3> QED BY <1>1, <1>2, <2>2, <3>1
  <2> QED BY <2>1, <2>2
<1> DEFINE base == h \o p \o q
           outs == TrackedOutputs(r, v)
<1> HIDE DEF h, p, q
<1>6. /\ base \in Seq(Outputs) /\ Len(base) = Len(h) + Len(p) + Len(q)
      /\ Len(p) = 1 => base[3] = p[1]
      /\ Len(p) = 1 /\ Len(q) = 1 => base[4] = q[1]
  <2> DEFINE hp == h \o p
  <2>1. base = hp \o q /\ h \in Seq(Outputs) /\ p \in Seq(Outputs) /\ q \in Seq(Outputs)
    BY <1>3, <1>4, <1>5
  <2>2. /\ hp \in Seq(Outputs) /\ Len(hp) = Len(h) + Len(p) /\ Len(p) \in Nat
        /\ \A i \in 1 .. Len(p) : hp[Len(h) + i] = p[i]
    BY <2>1, ConcatIs
  <2> HIDE DEF hp
  <2>3. /\ base \in Seq(Outputs) /\ Len(base) = Len(hp) + Len(q) /\ Len(q) \in Nat
        /\ \A i \in 1 .. Len(hp) : base[i] = hp[i]
        /\ \A i \in 1 .. Len(q) : base[Len(hp) + i] = q[i]
    BY <2>1, <2>2, ConcatIs, SMTT(30)
  <2> HIDE DEF base
  <2>4. ASSUME Len(p) = 1
        PROVE  base[3] = p[1] /\ (Len(q) = 1 => base[4] = q[1])
    <3>1. Len(hp) = 3 /\ hp[2 + 1] = p[1]
      BY <1>3, <2>2, <2>4
    <3>2. base[3] = p[1]
      BY <2>3, <3>1
    <3>3. Len(q) = 1 => base[3 + 1] = q[1]
      BY <2>3, <3>1
    <3> QED BY <3>2, <3>3
  <2> QED BY <1>3, <2>2, <2>3, <2>4
<1>7. outs = WithChange(base, change, r.from)
  BY DEF TrackedOutputs, h, p, q
<1> HIDE DEF base, outs, change
<1>8. /\ outs \in Seq(Outputs)
      /\ outs = base \/ Len(outs) = Len(base) + 1
      /\ Len(base) <= Len(outs) /\ \A i \in 1 .. Len(base) : outs[i] = base[i]
  <2>1. CASE change >= P2thFee
    <3>1. Complete(r) \in Nat
      BY <1>1, FeesAssumption DEF Complete, None
    <3>2. change \in Nat
      BY <3>1 DEF change, Enough
    <3>3. outs = Append(base, Output(change, "p2pkh", r.from))
      BY <1>7, <2>1 DEF WithChange
    <3>4. Output(change, "p2pkh", r.from) \in Outputs
      BY <1>1, <1>2, <3>2
    <3> QED BY <1>6, <3>3, <3>4
  <2>2. CASE ~(change >= P2thFee)
    <3>1. outs = base
      BY <1>7, <2>2 DEF WithChange
    <3> QED BY <1>6, <3>1
  <2> QED BY <2>1, <2>2
<1>9. Len(base) \in Nat /\ Len(outs) \in Nat
  BY <1>6, <1>8
<1>10. ASSUME r.kind \in Paying
       PROVE  /\ Len(outs) >= 3 /\ outs[3].value = r.amount
              /\ r.reserved # None => Len(outs) >= 4 /\ outs[4].value = r.reserved
              /\ r.reserved = None /\ ~(Len(outs) > Len(base)) => Len(outs) = 3
  <2>1. Len(p) = 1 /\ Len(base) = 3 + Len(q) /\ Len(q) \in Nat
    <3>1. Len(q) \in Nat
      BY <1>5
    <3>2. Len(p) = 1
      BY <1>4, <1>10
    <3>3. Len(base) = Len(h) + Len(p) + Len(q) /\ Len(h) = 2
      BY <1>3, <1>6
    <3> QED BY <3>1, <3>2, <3>3
  <2>2. Len(outs) >= 3 /\ outs[3] = base[3]
    BY <1>8, <1>9, <2>1
  <2>3. outs[3].value = r.amount
    BY <1>4, <1>6, <1>10, <2>1, <2>2
  <2>4. ASSUME r.reserved # None
        PROVE  Len(outs) >= 4 /\ outs[4].value = r.reserved
    <3>1. Len(q) = 1 /\ q[1].value = r.reserved
      BY <1>5, <2>4
    <3>2. Len(outs) >= 4 /\ outs[4] = base[4]
      BY <1>8, <1>9, <2>1, <3>1
    <3> QED BY <1>6, <2>1, <3>1, <3>2
  <2>5. ASSUME r.reserved = None, ~(Len(outs) > Len(base))
        PROVE  Len(outs) = 3
    BY <1>5, <1>8, <1>9, <2>1, <2>5
  <2> QED BY <2>2, <2>3, <2>4, <2>5
<1> QED BY <1>8, <1>10 DEF outs, base, h, p, q

(* Made transactions that pay have a format their reader accepts. *)
LEMMA PayingHasFormat ==
  ASSUME Made, Mined, NEW t \in DOMAIN txs, txs[t].kind \in Paying,
         SpentBy(t) \in Nat
  PROVE  HasFormat(txs[t].outs)
<1>1. Paying \subseteq Tracked /\ "funds" \notin Paying /\ "card" \notin Tracked
  BY DEF Paying, Tracked
<1>2. t \in 2 .. Len(txs)
  BY <1>1, Ancestors
<1>3. /\ txs[t].kind = txs[t].asked.kind /\ Enough(txs[t].asked, SpentBy(t))
      /\ txs[t].outs = TrackedOutputs(txs[t].asked, SpentBy(t))
  BY <1>1, <1>2 DEF Made, Built
<1>4. txs[t].asked \in TrackedRequests
  <2>1. txs[t] \in Txs
    BY DEF Made
  <2> QED BY <1>1, <2>1 DEF Txs
<1> QED BY <1>3, <1>4, TrackedOutputsAre DEF HasFormat

LEMMA BeginKeeps ==
  ASSUME ChainInv, ParseInv, Begin
  PROVE  ChainInv' /\ ParseInv'
<1>1. ChainInv' /\ Confirmed' = Confirmed
  BY SameChain DEF Begin
<1>2. /\ stage' = 1 /\ start' = 0 /\ found' = {} /\ read' = Empty /\ known' = Confirmed
      /\ txs' = txs
  BY SameChain DEF Begin
<1>3. ~Reading' /\ \A k : ~Done(k)'
  BY <1>2 DEF Reading, Done, Over, Accounts
<1>4. read' \in [Kinds -> Seq(Nat)] /\ \A k \in Kinds : read'[k] = <<>>
  BY <1>2 DEF Empty
<1>5. {"card", "donation", "locking"} \subseteq Kinds /\ Tracked \subseteq Kinds
  BY KindsAre
<1>6. \A k \in Kinds : Range(read'[k]) = {} /\ DOMAIN read'[k] = {}
  BY <1>4 DEF Range
<1>7. Holds'
  BY <1>1, <1>2, <1>3, <1>4, <1>5, <1>6 DEF Holds, Raised, Over, Accounts
<1>8. Covered'
  BY <1>3 DEF Covered
<1>9. Thorough'
  BY <1>3, <1>5, <1>6 DEF Thorough
<1> QED BY <1>1, <1>7, <1>8, <1>9 DEF ParseInv

LEMMA FailKeeps ==
  ASSUME ChainInv, ParseInv, PageFails
  PROVE  ChainInv' /\ ParseInv'
<1>1. ChainInv' /\ Confirmed' = Confirmed
  BY SameChain DEF PageFails
<1>2. /\ stage' = Raised /\ start' = 0 /\ found' = {} /\ read' = Empty /\ known' = {}
      /\ txs' = txs
  BY SameChain DEF PageFails
<1>3. ~Reading' /\ \A k \in Kinds : Done(k)'
  BY <1>2 DEF Reading, Done, Over, Raised, Kinds, Accounts
<1>4. read' \in [Kinds -> Seq(Nat)] /\ \A k \in Kinds : read'[k] = <<>>
  BY <1>2 DEF Empty
<1>5. {"card", "donation", "locking"} \subseteq Kinds /\ Tracked \subseteq Kinds
  BY KindsAre
<1>6. \A k \in Kinds : Range(read'[k]) = {} /\ DOMAIN read'[k] = {}
  BY <1>4 DEF Range
<1>7. Holds'
  BY <1>1, <1>2, <1>3, <1>4, <1>5, <1>6 DEF Holds, Raised, Over, Accounts
<1>8. Covered'
  BY <1>3 DEF Covered
<1>9. Thorough'
  BY <1>2, <1>5, <1>6 DEF Thorough
<1> QED BY <1>1, <1>7, <1>8, <1>9 DEF ParseInv

LEMMA NextPageKeeps ==
  ASSUME ChainInv, ParseInv, NextPage
  PROVE  ChainInv' /\ ParseInv'
<1> USE DEF ChainInv, ParseInv
<1>1. /\ ChainInv' /\ Confirmed' = Confirmed /\ txs' = txs /\ listed' = listed
      /\ \A t : Tuple(t)' = Tuple(t) /\ InputsOf(t)' = InputsOf(t) /\ CitedBy(t)' = CitedBy(t)
  BY SameChain DEF NextPage
<1>2. /\ stage' = stage /\ read' = read /\ known' = known
      /\ found' = FoundNow /\ start' = start + PageSize
  BY DEF NextPage
<1>3. Reading /\ Reading' /\ Account' = Account /\ \A k : Done(k)' <=> Done(k)
  BY <1>2 DEF NextPage, Reading, Account, Done
<1>4. \A x \in FoundNow : x.tx \in Confirmed /\ x = Tuple(x.tx) /\ txs[x.tx].kind = Account
  BY <1>3, PageFinds
<1>5. \A t : Accepts(t)' <=> Accepts(t)
  BY <1>1, <1>2 DEF Accepts
<1>6. Holds'
  BY <1>1, <1>2, <1>3, <1>4, <1>5, PagesAssumption DEF Holds
<1>7. Covered'
  <2> SUFFICES ASSUME NEW t \in Confirmed, Wanted(t)', txs[t].kind = Account
               PROVE  t \in {x.tx : x \in FoundNow} \cup Rest(listed[Account], start + PageSize)
    BY <1>1, <1>2, <1>3 DEF Covered, Rest
  <2>1. Wanted(t) \/ \E x \in FoundNow : t \in InputsOf(x.tx)
    BY <1>1, <1>2 DEF Wanted
  <2> QED BY <1>3, <2>1, PageFinds
<1>8. Thorough'
  BY <1>1, <1>2, <1>3, <1>5 DEF Thorough
<1> QED BY <1>1, <1>6, <1>7, <1>8

LEMMA CardsKeep ==
  ASSUME ChainInv, ParseInv, ListCards
  PROVE  ChainInv' /\ ParseInv'
<1> USE DEF ChainInv, ParseInv
<1> DEFINE page == Page(listed["card"], 0)
           P == {i \in DOMAIN page : page[i] \in Confirmed}
<1>1. /\ ChainInv' /\ Confirmed' = Confirmed /\ txs' = txs /\ listed' = listed
      /\ \A t : Tuple(t)' = Tuple(t) /\ InputsOf(t)' = InputsOf(t) /\ CitedBy(t)' = CitedBy(t)
  BY SameChain DEF ListCards
<1>2. /\ stage = 1 /\ stage' = 2 /\ known' = known /\ found' = found /\ start' = start
      /\ read' = [read EXCEPT !["card"] = Only(page, P)]
  BY DEF ListCards
<1>3. /\ {"card", "donation", "locking", "proposal"} \subseteq Kinds /\ Tracked \subseteq Kinds
      /\ "card" \notin Tracked
  BY KindsAre DEF Tracked
<1>4. page \in Seq(Nat) /\ \A i \in DOMAIN page : txs[page[i]].kind = "card"
  <2>1. listed["card"] \in Seq(Nat) /\
        \A i \in DOMAIN listed["card"] : txs[listed["card"][i]].kind = "card"
    BY <1>3 DEF Listed
  <2> QED BY <2>1, PageHolds
<1>5. Only(page, P) \in Seq(Nat) /\ Range(Only(page, P)) = {page[i] : i \in P}
  <2>1. page \in Seq(Nat) /\ P \in SUBSET (DOMAIN page)
    BY <1>4
  <2> HIDE DEF page, P
  <2> QED BY <2>1, OnlyKeeps
<1>6. /\ read' \in [Kinds -> Seq(Nat)] /\ read'["card"] = Only(page, P)
      /\ \A k \in Kinds \ {"card"} : read'[k] = read[k]
  BY <1>2, <1>3, <1>5 DEF Holds
<1>7. \A t \in Range(read'["card"]) : t \in Confirmed /\ txs[t].kind = "card"
  BY <1>4, <1>5, <1>6
<1>8. ~Reading /\ Reading' /\ Account' = "proposal"
  BY <1>2 DEF Reading, Account, Over, Accounts
<1>9. (\A k : ~Done(k)) /\ \A k : Done(k)' <=> k = "card"
  BY <1>2 DEF Done, Accounts
<1>10. start = 0 /\ found = {} /\ \A k \in Kinds : read[k] = <<>>
  BY <1>8, <1>9 DEF Holds
<1>11. \A k \in Kinds \ {"card"} : read'[k] = <<>> /\ Range(read'[k]) = {} /\ DOMAIN read'[k] = {}
  BY <1>6, <1>10 DEF Range
<1>12. Holds'
  <2>1. (\A k \in Kinds : Done(k) \/ read[k] = <<>>)'
    BY <1>9, <1>11
  <2>2. (\A k \in Kinds : \A t \in Range(read[k]) : t \in Confirmed /\ txs[t].kind = k)'
    BY <1>1, <1>7, <1>11
  <2>3. (\A k \in Tracked :
           /\ \A i, j \in DOMAIN read[k] : read[k][i] = read[k][j] => i = j
           /\ \A t \in Range(read[k]) : Accepts(t))'
    BY <1>3, <1>11
  <2>4. (stage \in 0 .. Raised /\ start \in Nat /\ known \subseteq Confirmed)'
    BY <1>1, <1>2 DEF Holds, Raised, Over, Accounts
  <2> QED BY <1>2, <1>6, <1>8, <1>10, <2>1, <2>2, <2>3, <2>4 DEF Holds
<1>13. Covered'
  <2> SUFFICES ASSUME NEW t \in Confirmed, txs[t].kind = "proposal"
               PROVE  t \in Rest(listed["proposal"], 0)
    BY <1>1, <1>2, <1>8, <1>10 DEF Covered, Rest
  <2> QED BY <1>3, AllListed, HeightOfState
<1>14. Thorough'
  <2>1. \A t \in Range(read'["card"]) : \A u \in CitedBy(t) : txs[u].kind # "card"
    BY <1>7, Ancestors, HeightOfState
  <2> QED BY <1>1, <1>3, <1>9, <1>11, <2>1 DEF Thorough
<1> QED BY <1>1, <1>12, <1>13, <1>14

(* What has to be read of an account is found by its last page: nothing is *)
(* left for a page to come.                                                *)
LEMMA LastPageKeeps ==
  ASSUME ChainInv, ParseInv, LastPage, \A t \in DOMAIN txs : SpentBy(t) \in Nat
  PROVE  ChainInv' /\ ParseInv'
<1> USE DEF ChainInv, ParseInv
<1>1. /\ ChainInv' /\ Confirmed' = Confirmed /\ txs' = txs /\ listed' = listed
      /\ \A t : Tuple(t)' = Tuple(t) /\ InputsOf(t)' = InputsOf(t) /\ CitedBy(t)' = CitedBy(t)
  BY SameChain DEF LastPage
<1> DEFINE K == Account
<1>2. PICK s \in Sortings(FoundNow) :
        read' = [read EXCEPT ![Account] =
                   Only([i \in DOMAIN s |-> s[i].tx], {i \in DOMAIN s : Accepts(s[i].tx)})]
  BY DEF LastPage
<1>3. PICK list : list = Only([i \in DOMAIN s |-> s[i].tx], {i \in DOMAIN s : Accepts(s[i].tx)})
  OBVIOUS
<1>4. /\ Reading /\ ~(Len(InPage) >= PageSize)
      /\ stage' = stage + 1 /\ known' = known /\ found' = {} /\ start' = 0
  <2>1. Len(InPage) < PageSize
    BY DEF LastPage
  <2>2. Reading
    BY DEF LastPage, Reading
  <2>3. InPage \in Seq(Nat)
    BY <2>2, PageHolds, ReadingOf DEF InPage, Holds, Listed
  <2> QED BY <2>1, <2>2, <2>3, PagesAssumption DEF LastPage
<1>5. /\ stage \in 2 .. 6 /\ K \in Tracked /\ K \in Kinds /\ ~Done(K) /\ K # "card"
      /\ \A k : Done(k) =>
           \/ k = "card"
           \/ k = "proposal" /\ stage > 2
           \/ k = "donation" /\ stage > 3
           \/ k = "locking" /\ stage > 4
           \/ k = "signalling" /\ stage > 5
      /\ K = "proposal" <=> stage = 2
      /\ K = "donation" <=> stage = 3
      /\ K = "locking" <=> stage = 4
      /\ K = "signalling" <=> stage = 5
      /\ K = "voting" <=> stage = 6
  BY <1>4, ReadingOf DEF Holds, Tracked
<1>6. \A k : Done(k)' <=> Done(k) \/ k = K
  BY <1>4, <1>5 DEF Done, Account, Accounts
<1>7. /\ list \in Seq(Nat)
      /\ Range(list) = {t \in {x.tx : x \in FoundNow} : Accepts(t)}
      /\ \A i, j \in DOMAIN list : list[i] = list[j] => i = j
  BY <1>3, <1>4, LastPageReads
<1>8. /\ read' \in [Kinds -> Seq(Nat)] /\ read'[K] = list
      /\ \A k \in Kinds \ {K} : read'[k] = read[k]
  BY <1>2, <1>3, <1>5, <1>7 DEF Holds
<1>9. /\ {"card", "donation", "locking", "proposal", "signalling"} \subseteq Kinds
      /\ Tracked \subseteq Kinds /\ Tracked \cup {"card"} = Kinds
  BY KindsAre DEF Tracked
<1> HIDE DEF K
<1>10. \A x \in FoundNow : x.tx \in Confirmed /\ txs[x.tx].kind = K
  BY <1>4, PageFinds DEF K
<1>11. \A t \in Range(list) : t \in Confirmed /\ txs[t].kind = K /\ Accepts(t)
  BY <1>7, <1>10
<1>12. ASSUME NEW t \in Confirmed, txs[t].kind = K,
              Wanted(t) \/ \E x \in FoundNow : t \in InputsOf(x.tx), Accepts(t)
       PROVE  t \in Range(list)
  BY <1>4, <1>7, <1>12, PageFinds DEF K
<1>13. \A k \in Kinds \ {K} : read'[k] = <<>> \/ Done(k)
  BY <1>8 DEF Holds
<1>14. ASSUME NEW t, txs[t].kind \in Tracked, Done(txs[t].kind)'
       PROVE  Accepts(t)' <=> Accepts(t)
  <2>1. CASE txs[t].kind = "proposal"
    BY <1>1, <2>1 DEF Accepts
  <2>2. CASE txs[t].kind # "proposal"
    <3>1. K # "proposal"
      BY <1>1, <1>5, <1>6, <1>14, <2>2 DEF Tracked
    <3>2. read'["proposal"] = read["proposal"]
      BY <1>8, <1>9, <3>1
    <3> QED BY <1>1, <3>2 DEF Accepts
  <2> QED BY <2>1, <2>2
<1>15. \A k \in Kinds : \A t \in Range(read'[k]) :
         t \in Confirmed /\ txs[t].kind = k /\ (k \in Tracked => Accepts(t))
  BY <1>8, <1>11 DEF Holds
<1>16. \A k \in Kinds : \A t \in Range(read'[k]) : Done(k)'
  <2> SUFFICES ASSUME NEW k \in Kinds, NEW t \in Range(read'[k]) PROVE Done(k)'
    OBVIOUS
  <2>1. read'[k] # <<>>
    BY DEF Range
  <2> QED BY <1>6, <1>8, <1>13, <2>1
<1>17. Holds'
  <2>1. (\A k \in Kinds : Done(k) \/ read[k] = <<>>)'
    BY <1>6, <1>8 DEF Holds
  <2>2. (\A k \in Kinds : \A t \in Range(read[k]) : t \in Confirmed /\ txs[t].kind = k)'
    BY <1>1, <1>15
  <2>3. \A k \in Tracked : \A i, j \in DOMAIN read'[k] : read'[k][i] = read'[k][j] => i = j
    <3> SUFFICES ASSUME NEW k \in Tracked, NEW i \in DOMAIN read'[k], NEW j \in DOMAIN read'[k],
                        read'[k][i] = read'[k][j]
                 PROVE  i = j
      OBVIOUS
    <3>1. CASE k = K
      BY <1>7, <1>8, <3>1
    <3>2. CASE k # K
      <4>1. read'[k] = read[k]
        BY <1>8, <1>9, <3>2
      <4> QED BY <4>1 DEF Holds
    <3> QED BY <3>1, <3>2
  <2>4. ASSUME NEW k \in Tracked, NEW t \in Range(read'[k])
        PROVE  Accepts(t)'
    <3>1. k \in Kinds /\ txs[t].kind = k /\ Accepts(t) /\ Done(k)'
      BY <1>9, <1>15, <1>16
    <3> QED BY <1>1, <1>14, <3>1
  <2>5. (stage \in 0 .. Raised /\ start \in Nat /\ known \subseteq Confirmed)'
    BY <1>1, <1>4, <1>5 DEF Holds, Raised, Over, Accounts
  <2> QED BY <1>4, <1>8, <2>1, <2>2, <2>3, <2>4, <2>5 DEF Holds
<1>18. Covered'
  <2> SUFFICES ASSUME Reading', NEW t \in Confirmed, txs[t].kind = Account'
               PROVE  t \in Rest(listed[txs[t].kind], 0)
    BY <1>1, <1>4 DEF Covered, Rest
  <2>1. Account' \in Kinds
    BY <1>4, <1>5 DEF Account, Kinds, Reading, Over, Accounts
  <2> QED BY <2>1, AllListed, HeightOfState
<1>19. Thorough'
  <2>1. ASSUME NEW t \in known, txs[t].kind \in Tracked, Done(txs[t].kind)', Accepts(t)'
        PROVE  t \in Range(read'[txs[t].kind])
    <3>1. t \in Confirmed /\ Accepts(t) /\ Wanted(t)
      BY <1>14, <2>1 DEF Holds, Wanted
    <3>2. CASE txs[t].kind = K
      BY <1>8, <1>12, <3>1, <3>2
    <3>3. CASE txs[t].kind # K
      <4>1. Done(txs[t].kind)
        BY <1>1, <1>6, <2>1, <3>3
      <4> QED BY <1>8, <1>9, <2>1, <3>1, <3>3, <4>1 DEF Thorough
    <3> QED BY <3>2, <3>3
  <2>2. ASSUME NEW k \in {"donation", "locking"}, NEW t \in Range(read'[k]),
               NEW u \in InputsOf(t), txs[u].kind \in {"locking", "signalling"},
               txs[u].refers = txs[t].refers, Done(txs[u].kind)'
        PROVE  u \in Range(read'[txs[u].kind])
    <3>1. t \in Confirmed /\ txs[t].kind = k /\ Accepts(t) /\ u \in Confirmed
      <4>1. k \in Kinds /\ k \in Tracked
        BY <1>9 DEF Tracked
      <4> QED BY <4>1, <1>15, Ancestors
    <3>2. CASE txs[u].kind = K
      <4>1. Accepts(u)
        <5>1. HasFormat(txs[u].outs)
          BY <2>2, <3>1, PayingHasFormat, HeightOfState DEF Paying
        <5> QED BY <2>2, <3>1, <5>1 DEF Accepts
      <4>2. Wanted(u) \/ \E x \in FoundNow : u \in InputsOf(x.tx)
        <5>1. CASE k = K
          <6>1. t \in Range(list)
            BY <1>8, <5>1
          <6> QED BY <1>7, <6>1
        <5>2. CASE k # K
          BY <1>8, <1>9, <5>2 DEF Wanted
        <5> QED BY <5>1, <5>2
      <4> QED BY <1>8, <1>12, <3>1, <3>2, <4>1, <4>2
    <3>3. CASE txs[u].kind # K
      <4>1. Done(txs[u].kind)
        BY <1>1, <1>6, <2>2, <3>3
      <4>2. k # K
        BY <1>5, <2>2, <3>3, <4>1
      <4>3. t \in Range(read[k])
        BY <1>8, <1>9, <4>2
      <4>4. u \in Range(read[txs[u].kind])
        BY <2>2, <4>1, <4>3 DEF Thorough
      <4> QED BY <1>8, <1>9, <2>2, <3>3, <4>4
    <3> QED BY <3>2, <3>3
  <2>3. ASSUME NEW t \in Range(read'["card"]), NEW u \in CitedBy(t),
               Done(txs[u].kind)', Accepts(u)'
        PROVE  u \in Range(read'[txs[u].kind])
    <3>1. t \in Range(read["card"])
      BY <1>5, <1>8, <1>9
    <3>2. t \in Confirmed /\ txs[t].kind = "card"
      BY <1>9, <3>1 DEF Holds
    <3>3. u \in Confirmed /\ txs[u].kind \in Tracked
      BY <3>2, Ancestors, HeightOfState DEF Tracked
    <3>4. Accepts(u) /\ Wanted(u)
      BY <1>14, <2>3, <3>1, <3>3 DEF Wanted
    <3>5. CASE txs[u].kind = K
      BY <1>8, <1>12, <3>3, <3>4, <3>5
    <3>6. CASE txs[u].kind # K
      <4>1. Done(txs[u].kind)
        BY <1>1, <1>6, <2>3, <3>6
      <4> QED BY <1>8, <1>9, <3>1, <3>3, <3>4, <3>6, <4>1 DEF Thorough
    <3> QED BY <3>5, <3>6
  <2> QED BY <1>1, <1>4, <2>1, <2>2, <2>3 DEF Thorough
<1> QED BY <1>1, <1>17, <1>18, <1>19

-----------------------------------------------------------------------------
(* Steps of wallets and of the network *)

LEMMA OutputsTyped ==
  ASSUME Made
  PROVE  \A t \in DOMAIN txs :
           /\ txs[t].outs \in Seq(Outputs)
           /\ \A n \in DOMAIN txs[t].outs : txs[t].outs[n].value \in Nat
<1>1. ASSUME NEW t \in DOMAIN txs
      PROVE  txs[t].outs \in Seq(Outputs)
  <2>1. txs[t] \in Txs
    BY DEF Made
  <2> QED BY <2>1, RequestsAssumption DEF Txs
<1>2. ASSUME NEW t \in DOMAIN txs, NEW n \in DOMAIN txs[t].outs
      PROVE  txs[t].outs[n].value \in Nat
  <2>1. txs[t].outs[n] \in Outputs
    BY <1>1
  <2> QED BY <2>1 DEF Outputs
<1> QED BY <1>1, <1>2

LEMMA SpentIsNumber ==
  ASSUME Made, Mined, NEW t \in DOMAIN txs
  PROVE  SpentBy(t) \in Nat /\ Numbers(txs[t].ins, [c \in txs[t].ins |-> Worth(c)])
<1> DEFINE f == [c \in txs[t].ins |-> Worth(c)]
<1>1. IsFiniteSet(txs[t].ins) /\ \A c \in txs[t].ins : f[c] \in Nat
  <2>1. CASE t = 1
    <3>1. txs[1] \in Txs /\ txs[1].kind = "funds" /\ "funds" \notin Tracked /\ "funds" # "card"
      BY Ancestors DEF Made, Tracked
    <3>2. txs[1].ins = {}
      BY <3>1 DEF Txs
    <3> QED BY <2>1, <3>2, FS_EmptySet
  <2>2. CASE t # 1
    <3>1. t \in 2 .. Len(txs)
      BY <2>2, Ancestors
    <3>2. IsFiniteSet(txs[t].ins)
          /\ \A c \in txs[t].ins : c.tx \in 1 .. t - 1 /\ c.vout \in DOMAIN txs[c.tx].outs
      BY <3>1 DEF Made, Built
    <3>3. \A c \in txs[t].ins : c.tx \in DOMAIN txs
      BY <3>1, <3>2, Ancestors
    <3> QED BY <3>2, <3>3, OutputsTyped DEF Worth
  <2> QED BY <2>1, <2>2
<1>2. Numbers(txs[t].ins, f)
  BY <1>1 DEF Numbers
<1> QED BY <1>2, SumType DEF SpentBy

(* A transaction as a wallet makes it in this state. *)
Fits(tx) ==
  LET spent == Sum(tx.ins, [c \in tx.ins |-> Worth(c)]) IN
  /\ tx \in Txs /\ tx.kind \in Kinds /\ IsFiniteSet(tx.ins)
  /\ \A c \in tx.ins : c.tx \in DOMAIN txs /\ c.vout \in DOMAIN txs[c.tx].outs
  /\ tx.kind \in Tracked =>
       /\ tx.kind = tx.asked.kind
       /\ Enough(tx.asked, spent) /\ tx.outs = TrackedOutputs(tx.asked, spent)
  /\ tx.kind = "card" =>
       CardRest(tx.asked, spent) >= 0 /\ tx.outs = CardOutputs(tx.asked, spent)
  /\ \/ tx.kind = "proposal" /\ tx.refers = 0
     \/ /\ tx.refers \in DOMAIN txs
        /\ \/ tx.kind \in Tracked /\ txs[tx.refers].kind = "proposal"
           \/ tx.kind = "card" /\ txs[tx.refers].kind = "donation"
  /\ tx.kind = "donation" => Height(tx.refers) > 0

LEMMA SubmitKeeps ==
  ASSUME ChainInv, ParseInv, NEW tx, Fits(tx), Submit(tx)
  PROVE  ChainInv' /\ ParseInv'
<1> USE DEF ChainInv
<1>0. PICK n : n = Len(txs) + 1
  OBVIOUS
<1>1. /\ txs' = Append(txs, tx) /\ blocks' = blocks
      /\ listed' = [listed EXCEPT ![tx.kind] = @ \o Entries(n, tx.asked.from)]
      /\ UNCHANGED <<stage, start, found, read, known>>
  BY <1>0 DEF Submit, parser
<1>2. /\ DOMAIN txs = 1 .. Len(txs) /\ Len(txs) \in Nat /\ 1 \in DOMAIN txs
      /\ tx \in Txs /\ tx.kind \in Kinds
  BY Ancestors DEF Fits
<1>3. /\ txs' \in Seq(Txs) /\ Len(txs') = n /\ DOMAIN txs' = 1 .. n /\ txs'[n] = tx
      /\ \A t \in DOMAIN txs : t \in DOMAIN txs' /\ txs'[t] = txs[t]
  <2>1. txs \in Seq(Txs)
    BY DEF Made
  <2> QED BY <1>0, <1>1, <1>2, <2>1
<1>4. Made'
  <2>1. ASSUME NEW t \in 2 .. Len(txs)
        PROVE  Built(t)'
    <3>1. /\ txs'[t] = txs[t]
          /\ \A c \in txs[t].ins : c.tx \in DOMAIN txs /\ Worth(c)' = Worth(c)
      <4>1. \A c \in txs[t].ins : c.tx \in DOMAIN txs
        BY <1>2, <2>1 DEF Made, Built
      <4> QED BY <1>2, <1>3, <2>1, <4>1 DEF Worth
    <3>2. SpentBy(t)' = SpentBy(t)
      BY <3>1 DEF SpentBy
    <3> QED BY <1>3, <2>1, <3>1, <3>2 DEF Made, Built
  <2>2. ASSUME NEW t \in 2 .. Len(txs)
        PROVE  Refers(t)'
    <3>1. Refers(t) /\ txs'[t] = txs[t]
      BY <1>2, <1>3, <2>2 DEF Made
    <3> QED BY <1>3, <3>1 DEF Refers
  <2>3. Built(n)'
    <3>1. \A c \in tx.ins : c.tx \in 1 .. n - 1 /\ Worth(c)' = Worth(c)
      BY <1>0, <1>2, <1>3 DEF Fits, Worth
    <3>2. SpentBy(n)' = Sum(tx.ins, [c \in tx.ins |-> Worth(c)])
      BY <1>3, <3>1 DEF SpentBy
    <3> QED BY <1>2, <1>3, <3>1, <3>2 DEF Fits, Built
  <2>4. Refers(n)'
    BY <1>3 DEF Fits, Refers
  <2>5. \A t \in 2 .. n : t = n \/ t \in 2 .. Len(txs)
    BY <1>0, <1>2
  <2>6. \A t \in 2 .. n : txs'[t].kind \in Kinds
    <3>1. \A t \in 2 .. Len(txs) : txs[t].kind \in Kinds /\ t \in DOMAIN txs
      BY <1>2 DEF Made
    <3> QED BY <1>2, <1>3, <2>5, <3>1
  <2>7. txs'[1].kind = "funds" /\ Len(txs') > 0
    BY <1>2, <1>3 DEF Made
  <2>8. \A t \in 2 .. n : Built(t)' /\ Refers(t)'
    BY <2>1, <2>2, <2>3, <2>4, <2>5
  <2> QED BY <1>3, <2>6, <2>7, <2>8 DEF Made
<1> DEFINE old == listed[tx.kind]
           new == Entries(n, tx.asked.from)
<1>5. /\ n \in Nat /\ old \in Seq(Nat) /\ new \in Seq(Nat) /\ Len(new) > 0
      /\ \A i \in DOMAIN new : new[i] = n
  BY <1>0, <1>2 DEF Listed, Entries
<1> HIDE DEF old, new
<1>6. /\ old \o new \in Seq(Nat) /\ Len(old \o new) = Len(old) + Len(new)
      /\ Len(old) \in Nat /\ Len(new) \in Nat
      /\ \A i \in 1 .. Len(old) : (old \o new)[i] = old[i]
      /\ \A i \in 1 .. Len(new) : (old \o new)[Len(old) + i] = new[i]
  BY <1>5, ConcatIs
<1>7. /\ listed' \in [Kinds -> Seq(Nat)] /\ listed'[tx.kind] = old \o new
      /\ \A k \in Kinds \ {tx.kind} : listed'[k] = listed[k]
  <2>1. PICK both : both = old \o new
    OBVIOUS
  <2>2. listed' = [listed EXCEPT ![tx.kind] = both]
    BY <1>1, <2>1 DEF old, new
  <2>3. listed \in [Kinds -> Seq(Nat)] /\ both \in Seq(Nat)
    BY <1>6, <2>1 DEF Listed
  <2> QED BY <1>2, <2>1, <2>2, <2>3
<1>8. /\ \A i \in DOMAIN old : i \in DOMAIN (old \o new) /\ (old \o new)[i] = old[i]
      /\ \A i \in DOMAIN (old \o new) : i \notin DOMAIN old => (old \o new)[i] = n
      /\ \A i, j \in DOMAIN (old \o new) : i \notin DOMAIN old /\ i < j => j \notin DOMAIN old
      /\ \E i \in DOMAIN (old \o new) : (old \o new)[i] = n
  <2>1. /\ DOMAIN old = 1 .. Len(old) /\ DOMAIN new = 1 .. Len(new)
        /\ DOMAIN (old \o new) = 1 .. Len(old) + Len(new)
    BY <1>5, <1>6
  <2>2. \A i \in DOMAIN old : i \in DOMAIN (old \o new) /\ (old \o new)[i] = old[i]
    BY <1>6, <2>1
  <2>3. ASSUME NEW i \in DOMAIN (old \o new), i \notin DOMAIN old
        PROVE  (old \o new)[i] = n
    <3>1. i - Len(old) \in 1 .. Len(new) /\ Len(old) + (i - Len(old)) = i
      BY <1>6, <2>1, <2>3
    <3> QED BY <1>5, <1>6, <2>1, <3>1
  <2>4. ASSUME NEW i \in DOMAIN (old \o new), NEW j \in DOMAIN (old \o new),
               i \notin DOMAIN old, i < j
        PROVE  j \notin DOMAIN old
    BY <1>6, <2>1, <2>4
  <2>5. Len(old) + 1 \in DOMAIN (old \o new) /\ Len(old) + 1 \notin DOMAIN old
    BY <1>5, <1>6, <2>1
  <2> QED BY <2>2, <2>3, <2>4, <2>5
<1>9. Listed'
  <2>1. ASSUME NEW k \in Kinds, NEW i \in DOMAIN listed[k]
        PROVE  /\ listed[k][i] \in 2 .. Len(txs) /\ listed[k][i] \in 2 .. n
               /\ listed[k][i] # n
               /\ txs'[listed[k][i]].kind = k
               /\ \A j \in DOMAIN listed[k] : i < j => listed[k][i] <= listed[k][j]
    <3>1. listed[k][i] \in 2 .. Len(txs) /\ txs[listed[k][i]].kind = k
          /\ \A j \in DOMAIN listed[k] : i < j => listed[k][i] <= listed[k][j]
      BY <2>1 DEF Listed
    <3>2. listed[k][i] \in 2 .. n /\ listed[k][i] # n /\ listed[k][i] \in DOMAIN txs
      BY <1>0, <1>2, <3>1
    <3> QED BY <1>3, <3>1, <3>2
  <2>2. n \in 2 .. n /\ n <= n /\ n \in Nat
    BY <1>0, <1>2
  <2>3. ASSUME NEW k \in Kinds, NEW i \in DOMAIN listed'[k]
        PROVE  /\ listed'[k][i] \in 2 .. n /\ txs'[listed'[k][i]].kind = k
               /\ \A j \in DOMAIN listed'[k] : i < j => listed'[k][i] <= listed'[k][j]
    <3>1. CASE k # tx.kind
      BY <1>7, <2>1, <2>3, <3>1, ZenonT(40)
    <3>2. CASE k = tx.kind /\ i \in DOMAIN old
      <4>1. \A j \in DOMAIN (old \o new) : i < j => (old \o new)[i] <= (old \o new)[j]
        <5> SUFFICES ASSUME NEW j \in DOMAIN (old \o new), i < j
                     PROVE  (old \o new)[i] <= (old \o new)[j]
          OBVIOUS
        <5>1. CASE j \in DOMAIN old
          BY <1>8, <2>1, <3>2, <5>1 DEF old
        <5>2. CASE j \notin DOMAIN old
          <6>1. (old \o new)[j] = n /\ (old \o new)[i] \in 2 .. n
            BY <1>8, <2>1, <3>2, <5>2 DEF old
          <6>2. \A x \in 2 .. n : x <= n
            BY <2>2
          <6> QED BY <6>1, <6>2
        <5> QED BY <5>1, <5>2
      <4>2. listed'[k] = old \o new /\ listed[k] = old
        BY <1>7, <3>2 DEF old
      <4>3. listed'[k][i] = listed[k][i]
        BY <1>8, <3>2, <4>2
      <4>4. listed'[k][i] \in 2 .. n /\ txs'[listed'[k][i]].kind = k
        BY <2>1, <2>3, <3>2, <4>2, <4>3
      <4> QED BY <4>1, <4>2, <4>4
    <3>3. CASE k = tx.kind /\ i \notin DOMAIN old
      <4>1. listed'[k] = old \o new
        BY <1>7, <3>3
      <4>2. \A j \in DOMAIN (old \o new) : i < j => (old \o new)[j] = n
        BY <1>8, <2>3, <3>3, <4>1
      <4>3. (old \o new)[i] = n
        BY <1>8, <2>3, <3>3, <4>1
      <4>4. listed'[k][i] = n /\ \A j \in DOMAIN listed'[k] : i < j => listed'[k][j] = n
        BY <4>1, <4>2, <4>3
      <4> QED BY <1>3, <2>2, <3>3, <4>4
    <3> QED BY <3>1, <3>2, <3>3
  <2>4. ASSUME NEW t \in 2 .. n
        PROVE  \E i \in DOMAIN listed'[txs'[t].kind] : listed'[txs'[t].kind][i] = t
    <3>1. CASE t = n
      BY <1>3, <1>7, <1>8, <3>1
    <3>2. CASE t # n
      <4>1. t \in 2 .. Len(txs) /\ txs'[t] = txs[t]
        BY <1>0, <1>2, <1>3, <2>4, <3>2
      <4>2. PICK i \in DOMAIN listed[txs[t].kind] : listed[txs[t].kind][i] = t
        BY <4>1 DEF Listed
      <4>3. txs[t].kind \in Kinds
        BY <4>1 DEF Made
      <4>4. CASE txs[t].kind = tx.kind
        <5>1. listed'[txs'[t].kind] = old \o new /\ listed[txs[t].kind] = old
          BY <1>7, <4>1, <4>4 DEF old
        <5>2. i \in DOMAIN (old \o new) /\ (old \o new)[i] = t
          BY <1>8, <4>2, <5>1
        <5> QED BY <5>1, <5>2
      <4>5. CASE txs[t].kind # tx.kind
        <5>1. listed'[txs'[t].kind] = listed[txs[t].kind]
          BY <1>7, <4>1, <4>3, <4>5
        <5> QED BY <4>2, <5>1
      <4> QED BY <4>4, <4>5
    <3> QED BY <3>1, <3>2
  <2> QED BY <1>3, <1>7, <2>3, <2>4 DEF Listed
<1>10. \A t : Height(t)' = Height(t)
  BY <1>1 DEF Height
<1>11. Confirmed' = Confirmed /\ n \notin Confirmed
  <2>1. n \notin DOMAIN txs
    BY <1>0, <1>2
  <2> QED BY <1>3, <1>10, <2>1, HeightOfState DEF Confirmed
<1>12. Mined'
  <2>1. \A b \in DOMAIN blocks : \A i \in DOMAIN blocks[b].txs : blocks[b].txs[i] \in DOMAIN txs'
    BY <1>3 DEF Mined
  <2>2. \A t \in Confirmed : txs'[t].ins = txs[t].ins
    BY <1>3, HeightOfState
  <2>3. ASSUME NEW t \in OfKind("donation")'
        PROVE  /\ Height(txs'[t].refers) > 0
               /\ t \in Confirmed => Height(txs'[t].refers) <= Height(t)
    <3>1. CASE t = n
      BY <1>3, <1>11, <2>3, <3>1 DEF Fits, OfKind
    <3>2. CASE t # n
      <4>1. t \in DOMAIN txs /\ txs'[t] = txs[t]
        BY <1>0, <1>2, <1>3, <2>3, <3>2 DEF OfKind
      <4> QED BY <2>3, <4>1 DEF Mined, OfKind
    <3> QED BY <3>1, <3>2
  <2>4. \A t \in OfKind("donation")' :
          (Height(txs[t].refers) > 0 /\ (t \in Confirmed => Height(txs[t].refers) <= Height(t)))'
    BY <1>10, <1>11, <2>3
  <2>5. \A t \in Confirmed' : \A c \in txs'[t].ins : Height(c.tx)' \in 1 .. Height(t)'
    BY <1>10, <1>11, <2>2 DEF Mined
  <2>6. /\ blocks' \in Seq([time : Int, txs : Seq(Nat)]) /\ Len(blocks') > 0
        /\ \A b, d \in DOMAIN blocks' :
             \A i \in DOMAIN blocks'[b].txs, j \in DOMAIN blocks'[d].txs :
               blocks'[b].txs[i] = blocks'[d].txs[j] => b = d
        /\ \A b \in DOMAIN blocks' : \A i \in DOMAIN blocks'[b].txs :
             blocks'[b].txs[i] \in DOMAIN txs'
    BY <1>1, <2>1 DEF Mined
  <2> QED BY <2>4, <2>5, <2>6 DEF Mined
<1>13. Grows
  <2>1. Len(txs) <= Len(txs')
    BY <1>0, <1>2, <1>3
  <2>2. \A k \in Kinds : /\ Len(listed[k]) <= Len(listed'[k])
                         /\ \A i \in DOMAIN listed[k] : listed'[k][i] = listed[k][i]
    <3> SUFFICES ASSUME NEW k \in Kinds
                 PROVE  /\ Len(listed[k]) <= Len(listed'[k])
                        /\ \A i \in DOMAIN listed[k] : listed'[k][i] = listed[k][i]
      OBVIOUS
    <3>1. CASE k = tx.kind
      <4>1. listed[k] = old /\ listed'[k] = old \o new
        BY <1>7, <3>1 DEF old
      <4> QED BY <1>6, <1>8, <4>1
    <3>2. CASE k # tx.kind
      <4>1. listed'[k] = listed[k] /\ Len(listed[k]) \in Nat
        BY <1>7, <3>2 DEF Listed
      <4> QED BY <4>1
    <3> QED BY <3>1, <3>2
  <2>3. Len(blocks) \in Nat
    BY HeightOfState DEF OnceEach
  <2>4. Len(blocks) <= Len(blocks') /\ \A b \in DOMAIN blocks : blocks'[b] = blocks[b]
    BY <1>1, <2>3
  <2> QED BY <1>3, <2>1, <2>2, <2>4 DEF Grows
<1> QED BY <1>1, <1>4, <1>9, <1>12, <1>13, GrowthKeepsParse

LEMMA ImageFinite ==
  ASSUME NEW S, IsFiniteSet(S), NEW f
  PROVE  IsFiniteSet({f[x] : x \in S})
<1> DEFINE g == [x \in S |-> f[x]]
           T == {f[x] : x \in S}
<1>1. g \in Surjection(S, T)
  BY DEF Surjection
<1> QED BY <1>1, FS_Surjection

(* Coins are found by their places. *)
IsCoin(c) == c.tx \in DOMAIN txs /\ c.vout \in DOMAIN txs[c.tx].outs /\ c = Coin(c.tx, c.vout)

LEMMA CoinsSpent ==
  ASSUME Made, NEW coins, IsFiniteSet(coins), \A c \in coins : IsCoin(c)
  PROVE  /\ Value(coins) \in Nat
         /\ IsFiniteSet(Places(coins)) /\ Places(coins) \in SUBSET [tx : Nat, vout : Nat]
         /\ \A c \in Places(coins) : c.tx \in DOMAIN txs /\ c.vout \in DOMAIN txs[c.tx].outs
         /\ Sum(Places(coins), [c \in Places(coins) |-> Worth(c)]) = Value(coins)
<1> DEFINE K == Places(coins)
           f == [c \in coins |-> c.value]
           key == [c \in coins |-> [tx |-> c.tx, vout |-> c.vout]]
           g == [c \in K |-> Worth(c)]
<1>1. \A t \in DOMAIN txs : t \in Nat /\ \A n \in DOMAIN txs[t].outs : n \in Nat
  BY OutputsTyped DEF Made
<1>2. \A c \in coins : /\ c.tx \in DOMAIN txs /\ c.vout \in DOMAIN txs[c.tx].outs
                       /\ c.value = txs[c.tx].outs[c.vout].value
  BY DEF IsCoin, Coin
<1>3. Numbers(coins, f)
  BY <1>2, OutputsTyped DEF Numbers
<1>4. K = {key[c] : c \in coins}
  BY DEF Places
<1>5. \A c \in coins : key[c] \in K /\ key[c].tx = c.tx /\ key[c].vout = c.vout
  BY <1>4
<1>6. IsFiniteSet(K)
  <2>1. IsFiniteSet({key[c] : c \in coins})
    <3> HIDE DEF key
    <3> QED BY ImageFinite
  <2> QED BY <1>4, <2>1
<1>7. /\ K \in SUBSET [tx : Nat, vout : Nat]
      /\ \A c \in K : c.tx \in DOMAIN txs /\ c.vout \in DOMAIN txs[c.tx].outs
  BY <1>1, <1>2 DEF Places
<1>8. ASSUME NEW k \in K
      PROVE  g[k] = Sum(WithKey(coins, key, k), f)
  <2>1. PICK c \in coins : k = key[c]
    BY <1>4
  <2>2. k.tx = c.tx /\ k.vout = c.vout
    BY <2>1
  <2>3. \A d \in coins : key[d] = k => d = c
    <3> SUFFICES ASSUME NEW d \in coins, key[d] = k PROVE d = c
      OBVIOUS
    <3>1. d.tx = c.tx /\ d.vout = c.vout
      BY <1>5, <2>2
    <3>2. d = Coin(d.tx, d.vout) /\ c = Coin(c.tx, c.vout)
      BY DEF IsCoin
    <3> QED BY <3>1, <3>2
  <2>4. WithKey(coins, key, k) = {c}
    BY <2>1, <2>3 DEF WithKey
  <2>5. f[c] = g[k] /\ f[c] \in Nat
    BY <1>2, <2>2, OutputsTyped DEF Worth
  <2>6. Sum({c}, f) = f[c]
    BY <2>5, SumOne
  <2> QED BY <2>4, <2>5, <2>6
<1> HIDE DEF K, f, key, g
<1>9. Sum(K, g) = Sum(coins, f)
  BY <1>3, <1>5, <1>8, SumByKey
<1>10. Value(coins) = Sum(coins, f)
  BY DEF Value, f
<1>11. Value(coins) \in Nat
  BY <1>3, <1>10, SumType, SMTT(30)
<1> QED BY <1>6, <1>7, <1>9, <1>10, <1>11 DEF K, g

LEMMA CoinsOfAreCoins ==
  ASSUME Made, NEW address
  PROVE  IsFiniteSet(CoinsOf(address)) /\ \A c \in CoinsOf(address) : IsCoin(c)
<1> DEFINE Of(t) == {<<t, n>> : n \in DOMAIN txs[t].outs}
           All == UNION {Of(t) : t \in DOMAIN txs}
           D == {d \in Unspent : /\ Height(d[1]) > 0 /\ txs[d[1]].outs[d[2]].script = "p2pkh"
                                 /\ txs[d[1]].outs[d[2]].to = address}
<1>1. \A d \in Unspent : d[1] \in DOMAIN txs /\ d[2] \in DOMAIN txs[d[1]].outs
  BY DEF Unspent
<1>2. IsFiniteSet(Unspent)
  <2>1. DOMAIN txs = 1 .. Len(txs) /\ Len(txs) \in Nat
    BY DEF Made
  <2>2. IsFiniteSet(DOMAIN txs)
    BY <2>1, FS_Interval
  <2>3. \A t \in DOMAIN txs : IsFiniteSet(Of(t))
    <3> SUFFICES ASSUME NEW t \in DOMAIN txs PROVE IsFiniteSet(Of(t))
      OBVIOUS
    <3>1. DOMAIN txs[t].outs = 1 .. Len(txs[t].outs) /\ Len(txs[t].outs) \in Nat
      BY OutputsTyped
    <3>2. IsFiniteSet(DOMAIN txs[t].outs)
      BY <3>1, FS_Interval
    <3> DEFINE f == [n \in DOMAIN txs[t].outs |-> <<t, n>>]
    <3>3. IsFiniteSet({f[n] : n \in DOMAIN txs[t].outs})
      BY <3>2, ImageFinite
    <3>4. {f[n] : n \in DOMAIN txs[t].outs} = Of(t)
      OBVIOUS
    <3> QED BY <3>3, <3>4
  <2> DEFINE g == [t \in DOMAIN txs |-> Of(t)]
  <2>4. IsFiniteSet({g[t] : t \in DOMAIN txs})
    BY <2>2, ImageFinite
  <2>5. {g[t] : t \in DOMAIN txs} = {Of(t) : t \in DOMAIN txs}
    OBVIOUS
  <2>6. IsFiniteSet(All)
    <3>1. /\ IsFiniteSet({Of(t) : t \in DOMAIN txs})
          /\ \A T \in {Of(t) : t \in DOMAIN txs} : IsFiniteSet(T)
      BY <2>3, <2>4, <2>5
    <3> HIDE DEF Of
    <3> QED BY <3>1, FS_UNION
  <2>7. Unspent \in SUBSET All
    BY DEF Unspent
  <2> QED BY <2>6, <2>7, FS_Subset
<1>3. IsFiniteSet(D)
  BY <1>2, FS_Subset
<1> DEFINE h == [d \in D |-> Coin(d[1], d[2])]
<1>4. CoinsOf(address) = {h[d] : d \in D}
  BY DEF CoinsOf
<1>5. IsFiniteSet({h[d] : d \in D})
  <2> HIDE DEF h, D
  <2> QED BY <1>3, ImageFinite
<1>6. \A d \in D : IsCoin(Coin(d[1], d[2]))
  BY <1>1 DEF IsCoin, Coin
<1>7. \A c \in CoinsOf(address) : IsCoin(c)
  BY <1>4, <1>6
<1> QED BY <1>4, <1>5, <1>7

LEMMA NamedCoinsAreCoins ==
  ASSUME NEW r
  PROVE  \A c \in NamedCoins(r) : IsCoin(c)
<1>1. \A d \in Unspent : d[1] \in DOMAIN txs /\ d[2] \in DOMAIN txs[d[1]].outs
  BY DEF Unspent
<1> QED BY <1>1 DEF NamedCoins, IsCoin, Coin

LEMMA SendTrackedFits ==
  ASSUME ChainInv, SendTracked
  PROVE  \E tx : Fits(tx) /\ Submit(tx)
<1> USE DEF ChainInv
<1>1. PICK s \in {q \in Requests : q.kind \in Tracked} :
        \E p \in IF s.kind = "proposal" THEN {0} ELSE OfKind("proposal") :
          /\ s.kind = "donation" => Height(p) > 0
          /\ LET r == Addressed(s, p) IN
             \E coins \in IF r.spends # "any" THEN {{c} : c \in NamedCoins(r)}
                          ELSE Selections(CoinsOf(r.from), Complete(r)) :
               /\ Enough(r, Value(coins))
               /\ Submit([kind |-> r.kind, refers |-> p, ins |-> Places(coins),
                          outs |-> TrackedOutputs(r, Value(coins)), asked |-> r])
  BY Zenon DEF SendTracked
<1>2. PICK p \in IF s.kind = "proposal" THEN {0} ELSE OfKind("proposal") :
        /\ s.kind = "donation" => Height(p) > 0
        /\ LET r == Addressed(s, p) IN
           \E coins \in IF r.spends # "any" THEN {{c} : c \in NamedCoins(r)}
                        ELSE Selections(CoinsOf(r.from), Complete(r)) :
             /\ Enough(r, Value(coins))
             /\ Submit([kind |-> r.kind, refers |-> p, ins |-> Places(coins),
                        outs |-> TrackedOutputs(r, Value(coins)), asked |-> r])
  BY <1>1
<1>3. PICK r : r = Addressed(s, p)
  OBVIOUS
<1>4. PICK coins \in IF r.spends # "any" THEN {{c} : c \in NamedCoins(r)}
                     ELSE Selections(CoinsOf(r.from), Complete(r)) :
        /\ Enough(r, Value(coins))
        /\ Submit([kind |-> r.kind, refers |-> p, ins |-> Places(coins),
                   outs |-> TrackedOutputs(r, Value(coins)), asked |-> r])
  BY <1>2, <1>3
<1>5. "card" \notin Tracked /\ Tracked \subseteq Kinds /\ Tracked \subseteq Kinds
      /\ "proposal" \in Tracked /\ "funds" \notin Tracked
  BY KindsAre DEF Tracked
<1>6. s \in TrackedRequests
  BY <1>5, RequestsAssumption DEF CardRequests
<1>7. /\ s.kind = "proposal" => p = 0
      /\ s.kind # "proposal" => p \in DOMAIN txs /\ txs[p].kind = "proposal"
  BY <1>2 DEF OfKind
<1>8. r \in TrackedRequests /\ r.kind = s.kind /\ r.kind \in Tracked
  <2>1. CASE s.kind = "donation"
    <3>1. p \in DOMAIN txs /\ txs[p].kind = "proposal"
      BY <1>7, <2>1
    <3>2. txs[p] \in Txs
      BY <3>1 DEF Made
    <3>3. txs[p].asked \in TrackedRequests
      BY <1>5, <3>1, <3>2 DEF Txs
    <3>4. txs[p].asked.from \in STRING
      BY <3>3 DEF TrackedRequests
    <3>5. r = [s EXCEPT !.to = txs[p].asked.from]
      BY <1>3, <2>1 DEF Addressed
    <3> QED BY <1>6, <3>4, <3>5 DEF TrackedRequests
  <2>2. CASE s.kind # "donation"
    BY <1>3, <1>6, <2>2 DEF Addressed, TrackedRequests
  <2> QED BY <2>1, <2>2
<1>9. IsFiniteSet(coins) /\ \A c \in coins : IsCoin(c)
  <2>1. CASE r.spends # "any"
    <3>1. PICK c \in NamedCoins(r) : coins = {c}
      BY <1>4, <2>1
    <3> QED BY <3>1, NamedCoinsAreCoins, FS_Singleton
  <2>2. CASE r.spends = "any"
    <3>1. coins \in SUBSET CoinsOf(r.from)
      BY <1>4, <2>2 DEF Selections
    <3> QED BY <3>1, CoinsOfAreCoins, FS_Subset
  <2> QED BY <2>1, <2>2
<1> DEFINE v == Value(coins)
<1>10. /\ v \in Nat
       /\ IsFiniteSet(Places(coins)) /\ Places(coins) \in SUBSET [tx : Nat, vout : Nat]
       /\ \A c \in Places(coins) : c.tx \in DOMAIN txs /\ c.vout \in DOMAIN txs[c.tx].outs
       /\ Sum(Places(coins), [c \in Places(coins) |-> Worth(c)]) = v
  BY <1>9, CoinsSpent
<1>11. Enough(r, v) /\ TrackedOutputs(r, v) \in Seq(Outputs)
  BY <1>4, <1>8, <1>10, TrackedOutputsAre
<1>12. PICK tx : tx = [kind |-> r.kind, refers |-> p, ins |-> Places(coins),
                       outs |-> TrackedOutputs(r, v), asked |-> r]
  OBVIOUS
<1>13. Submit(tx)
  BY <1>4, <1>12
<1> HIDE DEF v
<1>14. /\ tx.kind = r.kind /\ tx.refers = p /\ tx.ins = Places(coins)
       /\ tx.outs = TrackedOutputs(r, v) /\ tx.asked = r
  BY <1>12
<1>15. p \in Nat
  BY <1>7, Ancestors
<1>16. tx \in Txs
  <2>1. tx \in [kind : Tracked, refers : Nat, ins : SUBSET [tx : Nat, vout : Nat],
                outs : Seq(Outputs), asked : TrackedRequests]
    BY <1>8, <1>10, <1>11, <1>12, <1>15
  <2> QED BY <2>1 DEF Txs
<1>17. Fits(tx)
  <2>1. Sum(tx.ins, [c \in tx.ins |-> Worth(c)]) = v
    BY <1>10, <1>14
  <2>2. /\ \/ tx.kind = "proposal" /\ tx.refers = 0
           \/ /\ tx.refers \in DOMAIN txs
              /\ \/ tx.kind \in Tracked /\ txs[tx.refers].kind = "proposal"
                 \/ tx.kind = "card" /\ txs[tx.refers].kind = "donation"
        /\ tx.kind = "donation" => Height(tx.refers) > 0
    BY <1>2, <1>7, <1>8, <1>14
  <2>3. tx.kind \in Tracked /\ tx.kind \in Kinds /\ tx.kind # "card" /\ tx.kind = tx.asked.kind
    BY <1>5, <1>8, <1>14
  <2>4. Enough(tx.asked, v) /\ tx.outs = TrackedOutputs(tx.asked, v) /\ IsFiniteSet(tx.ins)
        /\ \A c \in tx.ins : c.tx \in DOMAIN txs /\ c.vout \in DOMAIN txs[c.tx].outs
    BY <1>10, <1>11, <1>14
  <2> QED BY <1>16, <2>1, <2>2, <2>3, <2>4 DEF Fits
<1> QED BY <1>13, <1>17

(* The outputs of a card have values that are numbers. *)
LEMMA CardOutputsAre ==
  ASSUME NEW r \in CardRequests, NEW v \in Nat, CardRest(r, v) >= 0
  PROVE  /\ CardRest(r, v) \in Nat
         /\ CardOutputs(r, v) \in Seq(Outputs)
<1> DEFINE n == Len(r.receivers)
           h == Heading("card")
           to == [i \in DOMAIN r.receivers |-> Output(DataFee, "p2pkh", r.receivers[i])]
           rest == <<Output(CardRest(r, v), "p2pkh", r.from)>>
           Scripts == {"p2pkh", "p2sh", "nulldata"}
           Addresses == Tracked \cup {"card"} \cup STRING
<1>1. r.receivers \in Seq(STRING) /\ r.from \in STRING /\ n \in Nat
  BY DEF CardRequests
<1>2. \A value \in Nat : \A script \in Scripts : \A a \in Addresses :
        Output(value, script, a) \in Outputs
  BY DEF Output, Outputs
<1>3. CardRest(r, v) \in Nat
  <2>1. (1 + n) * DataFee \in Nat
    <3>1. \A a, b \in Nat : a * b \in Nat
      OBVIOUS
    <3>2. 1 + n \in Nat /\ DataFee \in Nat
      BY <1>1, FeesAssumption
    <3> QED BY <3>1, <3>2
  <2>2. CardRest(r, v) = v - TxFee - P2thFee - (1 + n) * DataFee
    BY DEF CardRest
  <2>3. CardRest(r, v) \in Int
    <3> HIDE DEF n
    <3> QED BY <2>1, <2>2, FeesAssumption
  <2> QED BY <2>3
<1>4. h \in Seq(Outputs)
  BY <1>2, FeesAssumption DEF Heading
<1>5. to \in Seq(Outputs)
  <2>1. DOMAIN r.receivers = 1 .. n /\ \A i \in 1 .. n : r.receivers[i] \in Addresses
    BY <1>1
  <2>2. \A i \in 1 .. n : to[i] \in Outputs
    BY <1>2, <2>1, FeesAssumption
  <2>3. to \in [1 .. n -> Outputs]
    BY <2>1, <2>2
  <2> QED BY <1>1, <2>3
<1>6. rest \in Seq(Outputs)
  BY <1>1, <1>2, <1>3
<1>7. CardOutputs(r, v) = (h \o to) \o rest
  BY DEF CardOutputs
<1> HIDE DEF h, to, rest
<1> QED BY <1>3, <1>4, <1>5, <1>6, <1>7

LEMMA SendCardFits ==
  ASSUME ChainInv, SendCard
  PROVE  \E tx : Fits(tx) /\ Submit(tx)
<1> USE DEF ChainInv
<1>1. PICK r \in {q \in Requests : q.kind = "card"}, d \in OfKind("donation") :
        \E coins \in Selections(CoinsOf(r.from),
                                TxFee + P2thFee + (1 + Len(r.receivers)) * DataFee) :
          /\ CardRest(r, Value(coins)) >= 0
          /\ Submit([kind |-> "card", refers |-> d, ins |-> Places(coins),
                     outs |-> CardOutputs(r, Value(coins)), asked |-> r])
  BY DEF SendCard
<1>2. PICK coins \in Selections(CoinsOf(r.from),
                                TxFee + P2thFee + (1 + Len(r.receivers)) * DataFee) :
        /\ CardRest(r, Value(coins)) >= 0
        /\ Submit([kind |-> "card", refers |-> d, ins |-> Places(coins),
                   outs |-> CardOutputs(r, Value(coins)), asked |-> r])
  BY <1>1
<1>3. "card" \notin Tracked /\ "card" \in Kinds
  BY KindsAre DEF Tracked
<1>4. r \in CardRequests
  BY <1>3, RequestsAssumption DEF TrackedRequests
<1>5. IsFiniteSet(coins) /\ \A c \in coins : IsCoin(c)
  <2>1. coins \in SUBSET CoinsOf(r.from)
    BY DEF Selections
  <2> QED BY <2>1, CoinsOfAreCoins, FS_Subset
<1> DEFINE v == Value(coins)
<1>6. /\ v \in Nat
      /\ IsFiniteSet(Places(coins)) /\ Places(coins) \in SUBSET [tx : Nat, vout : Nat]
      /\ \A c \in Places(coins) : c.tx \in DOMAIN txs /\ c.vout \in DOMAIN txs[c.tx].outs
      /\ Sum(Places(coins), [c \in Places(coins) |-> Worth(c)]) = v
  BY <1>5, CoinsSpent
<1>7. CardRest(r, v) >= 0 /\ CardOutputs(r, v) \in Seq(Outputs)
  BY <1>2, <1>4, <1>6, CardOutputsAre
<1>8. PICK tx : tx = [kind |-> "card", refers |-> d, ins |-> Places(coins),
                      outs |-> CardOutputs(r, v), asked |-> r]
  OBVIOUS
<1>9. Submit(tx)
  BY <1>2, <1>8
<1> HIDE DEF v
<1>10. /\ tx.kind = "card" /\ tx.refers = d /\ tx.ins = Places(coins)
       /\ tx.outs = CardOutputs(r, v) /\ tx.asked = r
  BY <1>8
<1>11. d \in DOMAIN txs /\ txs[d].kind = "donation" /\ d \in Nat
  BY Ancestors DEF OfKind
<1>12. tx \in Txs
  <2>1. tx \in [kind : {"card"}, refers : Nat, ins : SUBSET [tx : Nat, vout : Nat],
                outs : Seq(Outputs), asked : CardRequests]
    BY <1>4, <1>6, <1>7, <1>8, <1>11
  <2> QED BY <2>1 DEF Txs
<1>13. Sum(tx.ins, [c \in tx.ins |-> Worth(c)]) = v
  BY <1>6, <1>10
<1>14. Fits(tx)
  BY <1>3, <1>6, <1>7, <1>10, <1>11, <1>12, <1>13 DEF Fits
<1> QED BY <1>9, <1>14

(* A block is mined of pending transactions, each after its inputs. *)
LEMMA BlockIsMined ==
  ASSUME ChainInv, Mine
  PROVE  \E S \in SUBSET Pending : \E order \in Seq(S), lag \in 0 .. Lag, new \in Blocks :
           /\ \A t \in S : t \in DOMAIN txs /\ t \in Nat /\ Height(t) = 0
           /\ \A i \in DOMAIN order : \A c \in txs[order[i]].ins :
                Height(c.tx) > 0 \/ \E j \in 1 .. i - 1 : order[j] = c.tx
           /\ new = [time |-> blocks[Len(blocks)].time + 1 - lag, txs |-> order]
           /\ blocks' = Append(blocks, new)
<1> USE DEF ChainInv
<1>1. PICK S \in SUBSET Pending : \E order \in Orders(S), lag \in 0 .. Lag :
        /\ \A i \in DOMAIN order : \A c \in txs[order[i]].ins :
             Height(c.tx) > 0 \/ \E j \in 1 .. i - 1 : order[j] = c.tx
        /\ blocks' = Append(blocks, [time |-> blocks[Len(blocks)].time + 1 - lag, txs |-> order])
  BY DEF Mine
<1>2. PICK order \in Orders(S), lag \in 0 .. Lag :
        /\ \A i \in DOMAIN order : \A c \in txs[order[i]].ins :
             Height(c.tx) > 0 \/ \E j \in 1 .. i - 1 : order[j] = c.tx
        /\ blocks' = Append(blocks, [time |-> blocks[Len(blocks)].time + 1 - lag, txs |-> order])
  BY <1>1
<1>3. order \in Seq(S)
  <2>1. S \in SUBSET (DOMAIN txs)
    BY DEF Pending
  <2>2. IsFiniteSet(DOMAIN txs)
    BY Ancestors, FS_Interval
  <2>3. IsFiniteSet(S)
    BY <2>1, <2>2, FS_Subset
  <2> QED BY <2>3, OrdersAll
<1>4. \A t \in S : t \in DOMAIN txs /\ t \in Nat /\ Height(t) = 0
  <2>1. \A t \in S : t \in DOMAIN txs /\ t \notin Confirmed
    BY DEF Pending
  <2> QED BY <2>1, HeightOfState, Ancestors
<1>5. PICK new : new = [time |-> blocks[Len(blocks)].time + 1 - lag, txs |-> order]
  OBVIOUS
<1>6. new \in Blocks
  <2>1. order \in Seq(Nat)
    BY <1>3, <1>4
  <2>2. blocks[Len(blocks)].time + 1 - lag \in Int
    <3>1. OnceEach(blocks) /\ Len(blocks) \in DOMAIN blocks
      BY HeightOfState DEF Mined
    <3>2. blocks[Len(blocks)] \in Blocks
      BY <3>1 DEF OnceEach
    <3> QED BY <3>2 DEF Blocks
  <2> QED BY <1>5, <2>1, <2>2 DEF Blocks
<1> QED BY <1>2, <1>3, <1>4, <1>5, <1>6

LEMMA BlockAdded ==
  ASSUME NEW bs \in Seq(Blocks), NEW new \in Blocks, NEW cs, cs = Append(bs, new),
         NEW n, n = Len(bs) + 1
  PROVE  /\ DOMAIN cs = 1 .. n /\ Len(cs) = n /\ cs[n] = new /\ n \notin DOMAIN bs
         /\ cs \in Seq(Blocks) /\ \A b \in DOMAIN bs : cs[b] = bs[b]
         /\ \A b \in DOMAIN cs : b = n \/ b \in DOMAIN bs
         /\ DOMAIN bs = 1 .. Len(bs) /\ Len(bs) \in Nat
OBVIOUS

LEMMA MineGrows ==
  ASSUME ChainInv, Mine
  PROVE  Grows
<1> USE DEF ChainInv
<1>1. PICK new \in Blocks : blocks' = Append(blocks, new)
  BY BlockIsMined
<1>2. blocks \in Seq(Blocks)
  BY DEF Mined, Blocks
<1>3. PICK n : n = Len(blocks) + 1
  OBVIOUS
<1>4. /\ Len(blocks') = n /\ Len(blocks) \in Nat
      /\ \A b \in DOMAIN blocks : blocks'[b] = blocks[b]
  BY <1>1, <1>2, <1>3, BlockAdded
<1>5. Len(txs) \in Nat /\ \A k \in Kinds : Len(listed[k]) \in Nat
  BY Ancestors DEF Listed
<1>6. txs' = txs /\ listed' = listed
  BY DEF Mine
<1> QED BY <1>3, <1>4, <1>5, <1>6 DEF Grows

LEMMA MineKeeps ==
  ASSUME ChainInv, ParseInv, Mine
  PROVE  ChainInv' /\ ParseInv'
<1> USE DEF ChainInv
<1>1. PICK S \in SUBSET Pending : \E order \in Seq(S), lag \in 0 .. Lag, new \in Blocks :
        /\ \A t \in S : t \in DOMAIN txs /\ t \in Nat /\ Height(t) = 0
        /\ \A i \in DOMAIN order : \A c \in txs[order[i]].ins :
             Height(c.tx) > 0 \/ \E j \in 1 .. i - 1 : order[j] = c.tx
        /\ new = [time |-> blocks[Len(blocks)].time + 1 - lag, txs |-> order]
        /\ blocks' = Append(blocks, new)
  BY BlockIsMined
<1>2. PICK order \in Seq(S), lag \in 0 .. Lag, new \in Blocks :
        /\ \A t \in S : t \in DOMAIN txs /\ t \in Nat /\ Height(t) = 0
        /\ \A i \in DOMAIN order : \A c \in txs[order[i]].ins :
             Height(c.tx) > 0 \/ \E j \in 1 .. i - 1 : order[j] = c.tx
        /\ new = [time |-> blocks[Len(blocks)].time + 1 - lag, txs |-> order]
        /\ blocks' = Append(blocks, new)
  BY <1>1
<1>3. txs' = txs /\ listed' = listed /\ UNCHANGED <<stage, start, found, read, known>>
  BY DEF Mine
<1>4. /\ OnceEach(blocks) /\ DOMAIN blocks = 1 .. Len(blocks) /\ Len(blocks) \in Nat
      /\ \A t : Height(t) = HeightIn(blocks, t)
      /\ \A t : Height(t) \in 0 .. Len(blocks)
      /\ \A t : Height(t) > 0 => t \in Confirmed
      /\ \A t \in Confirmed : t \in DOMAIN txs /\ Height(t) > 0
  BY HeightOfState DEF OnceEach
<1>5. new.txs = order /\ \A t \in Range(new.txs) : t \in S
  BY <1>2 DEF Range
<1> DEFINE n == Len(blocks) + 1
<1>6. /\ DOMAIN blocks' = 1 .. n /\ Len(blocks') = n /\ blocks'[n] = new /\ n \notin DOMAIN blocks
      /\ blocks' \in Seq(Blocks) /\ \A b \in DOMAIN blocks : blocks'[b] = blocks[b]
      /\ \A b \in DOMAIN blocks' : b = n \/ b \in DOMAIN blocks
  <2>1. blocks \in Seq(Blocks)
    BY <1>4 DEF OnceEach
  <2>2. n = Len(blocks) + 1
    OBVIOUS
  <2> HIDE DEF n
  <2> QED BY <1>2, <2>1, <2>2, BlockAdded
<1>7. OnceEach(blocks')
  <2>1. \A b \in DOMAIN blocks : \A t \in S : t \notin Range(blocks[b].txs)
    <3> SUFFICES ASSUME NEW b \in DOMAIN blocks, NEW t \in S, t \in Range(blocks[b].txs)
                 PROVE  FALSE
      OBVIOUS
    <3>1. HeightIn(blocks, t) = b
      <4>1. PICK bs : bs = blocks
        OBVIOUS
      <4> QED BY <1>4, <4>1, HeightIs
    <3> QED BY <1>4, <1>2, <3>1
  <2> QED BY <1>4, <1>5, <1>6, <2>1 DEF OnceEach
<1>8. Grows
  BY MineGrows
<1>9. Made'
  <2>1. \A t : SpentBy(t)' = SpentBy(t)
    BY <1>3 DEF SpentBy, Worth
  <2>2. \A t : (Built(t) <=> Built(t)') /\ (Refers(t) <=> Refers(t)')
    BY <1>3, <2>1 DEF Built, Refers
  <2> QED BY <1>3, <2>2 DEF Made
<1>10. Listed'
  BY <1>3 DEF Listed
<1>11. /\ \A t \in Confirmed : t \in Confirmed' /\ Height(t)' = Height(t)
       /\ \A t \in DOMAIN txs : t \notin Confirmed => Height(t)' = 0 \/ Height(t)' > Len(blocks)
  BY <1>7, <1>8, <1>9, ConfirmedStays
<1>12. \A t : Height(t)' = HeightIn(blocks', t)
  BY DEF Height, HeightIn
<1>13. \A t \in Range(order) : Height(t)' = n
  <2>1. PICK bs : bs = blocks'
    OBVIOUS
  <2>2. \A t \in Range(order) : HeightIn(bs, t) = n
    BY <1>5, <1>6, <1>7, <2>1, HeightIs
  <2> QED BY <1>12, <2>1, <2>2
<1>14. ASSUME NEW t \in Confirmed', t \notin Confirmed
       PROVE  Height(t)' = n /\ t \in Range(order)
  <2>1. t \in DOMAIN txs /\ Height(t)' > 0
    BY <1>3, <1>14 DEF Confirmed
  <2>2. PICK bs : bs = blocks'
    OBVIOUS
  <2>3. HeightIn(bs, t) > 0
    BY <1>12, <2>1, <2>2
  <2>4. HeightIn(bs, t) \in DOMAIN bs /\ t \in Range(bs[HeightIn(bs, t)].txs)
    BY <1>7, <2>2, <2>3, HeightIs
  <2>5. HeightIn(bs, t) > Len(blocks)
    BY <1>11, <1>12, <1>14, <2>1, <2>2, <2>3
  <2>6. HeightIn(bs, t) = n
    BY <1>4, <1>6, <2>2, <2>4, <2>5
  <2> QED BY <1>5, <1>6, <1>12, <2>2, <2>4, <2>6
<1>15. ASSUME NEW t \in Confirmed'
       PROVE  \A c \in txs'[t].ins : Height(c.tx)' \in 1 .. Height(t)'
  <2> SUFFICES ASSUME NEW c \in txs[t].ins
               PROVE  Height(c.tx)' \in 1 .. Height(t)'
    BY <1>3
  <2>1. CASE t \in Confirmed
    <3>1. Height(c.tx) \in 1 .. Height(t) /\ Height(c.tx) > 0
      BY <1>4, <2>1 DEF Mined
    <3>2. Height(c.tx)' = Height(c.tx) /\ Height(t)' = Height(t)
      BY <1>4, <1>11, <2>1, <3>1
    <3> QED BY <3>1, <3>2
  <2>2. CASE t \notin Confirmed
    <3>1. Height(t)' = n /\ t \in Range(order)
      BY <1>14, <2>2
    <3>2. PICK i \in DOMAIN order : order[i] = t
      BY <3>1 DEF Range
    <3>3. CASE Height(c.tx) > 0
      <4>1. Height(c.tx)' = Height(c.tx) /\ Height(c.tx) \in 1 .. Len(blocks)
        BY <1>4, <1>11, <3>3
      <4> QED BY <1>4, <3>1, <4>1
    <3>4. CASE \E j \in 1 .. i - 1 : order[j] = c.tx
      <4>1. PICK j \in 1 .. i - 1 : order[j] = c.tx
        BY <3>4
      <4>2. j \in DOMAIN order
        <5>1. DOMAIN order = 1 .. Len(order) /\ Len(order) \in Nat
          BY <1>2
        <5> QED BY <5>1
      <4>3. Height(c.tx)' = n
        BY <1>13, <4>1, <4>2 DEF Range
      <4> QED BY <1>4, <3>1, <4>3
    <3> QED BY <1>2, <3>2, <3>3, <3>4
  <2> QED BY <2>1, <2>2
<1>16. ASSUME NEW t \in OfKind("donation")'
       PROVE  /\ Height(txs[t].refers)' > 0
              /\ t \in Confirmed' => Height(txs[t].refers)' <= Height(t)'
  <2>1. t \in OfKind("donation")
    BY <1>3, <1>16 DEF OfKind
  <2>2. Height(txs[t].refers) > 0 /\ (t \in Confirmed => Height(txs[t].refers) <= Height(t))
    BY <2>1 DEF Mined
  <2>3. Height(txs[t].refers)' = Height(txs[t].refers)
        /\ Height(txs[t].refers) \in 0 .. Len(blocks)
    <3>1. PICK p : p = txs[t].refers
      OBVIOUS
    <3>2. p \in Confirmed /\ Height(p) \in 0 .. Len(blocks)
      BY <1>4, <2>2, <3>1
    <3>3. Height(p)' = Height(p)
      BY <1>11, <3>2
    <3>4. p = txs'[t].refers
      BY <1>3, <3>1
    <3> QED BY <3>1, <3>2, <3>3, <3>4
  <2>4. CASE t \in Confirmed
    BY <1>11, <2>2, <2>3, <2>4
  <2>5. CASE t \notin Confirmed /\ t \in Confirmed'
    <3>1. Height(t)' = n
      BY <1>14, <2>5
    <3>2. Height(txs[t].refers) <= n
      BY <1>4, <2>3
    <3> QED BY <2>2, <2>3, <3>1, <3>2
  <2>6. CASE t \notin Confirmed'
    BY <2>2, <2>3, <2>6
  <2> QED BY <2>4, <2>5, <2>6
<1>17. Mined'
  <2>1. blocks' \in Seq([time : Int, txs : Seq(Nat)]) /\ Len(blocks') > 0
    BY <1>4, <1>6 DEF Blocks
  <2>2. \A b \in DOMAIN blocks' : \A i \in DOMAIN blocks'[b].txs : blocks'[b].txs[i] \in DOMAIN txs'
    <3>1. \A i \in DOMAIN new.txs : new.txs[i] \in DOMAIN txs
      BY <1>2, <1>5 DEF Range
    <3>2. \A b \in DOMAIN blocks : \A i \in DOMAIN blocks[b].txs : blocks[b].txs[i] \in DOMAIN txs
      BY DEF Mined
    <3> QED BY <1>3, <1>6, <3>1, <3>2
  <2>3. \A b, d \in DOMAIN blocks' : \A i \in DOMAIN blocks'[b].txs, j \in DOMAIN blocks'[d].txs :
          blocks'[b].txs[i] = blocks'[d].txs[j] => b = d
    BY <1>7, SMTT(30) DEF OnceEach, Range
  <2>4. \A t \in OfKind("donation")' :
          (Height(txs[t].refers) > 0 /\ (t \in Confirmed => Height(txs[t].refers) <= Height(t)))'
    BY <1>3, <1>16
  <2>5. \A t \in Confirmed' : \A c \in txs'[t].ins : Height(c.tx)' \in 1 .. Height(t)'
    BY <1>15
  <2> QED BY <2>1, <2>2, <2>3, <2>4, <2>5 DEF Mined
<1>18. ChainInv'
  BY <1>9, <1>10, <1>17
<1>19. ParseInv'
  BY <1>3, <1>8, <1>18, GrowthKeepsParse
<1> QED BY <1>18, <1>19

-----------------------------------------------------------------------------
(* The invariants *)

LEMMA InitHolds ==
  ASSUME Init
  PROVE  ChainInv /\ ParseInv
<1> DEFINE first == [kind |-> "funds", refers |-> 0, ins |-> {}, outs |-> Funds]
           genesis == [time |-> 1, txs |-> <<1>>]
<1>1. txs = <<first>> /\ blocks = <<genesis>> /\ listed = Empty
      /\ stage = 0 /\ start = 0 /\ found = {} /\ read = Empty /\ known = {}
  BY DEF Init
<1>2. first \in Txs
  BY DEF Txs
<1>3. genesis \in [time : Int, txs : Seq(Nat)] /\ DOMAIN genesis.txs = {1} /\ genesis.txs[1] = 1
  OBVIOUS
<1>4. /\ Len(txs) = 1 /\ DOMAIN txs = {1} /\ txs[1] = first /\ txs \in Seq(Txs)
      /\ Len(blocks) = 1 /\ DOMAIN blocks = {1} /\ blocks[1] = genesis
      /\ blocks \in Seq([time : Int, txs : Seq(Nat)])
  <2> HIDE DEF first, genesis
  <2> QED BY <1>1, <1>2, <1>3
<1>5. first.kind = "funds" /\ first.ins = {}
  OBVIOUS
<1>6. \A t \in 2 .. Len(txs) : FALSE
  BY <1>4
<1> HIDE DEF first, genesis
<1>7. Made
  BY <1>4, <1>5, <1>6 DEF Made
<1>8. listed \in [Kinds -> Seq(Nat)] /\ \A k \in Kinds : listed[k] = <<>>
  BY <1>1 DEF Empty
<1>9. Listed
  BY <1>6, <1>8 DEF Listed
<1>10. Confirmed \in SUBSET {1} /\ OfKind("donation") = {}
  BY <1>4, <1>5 DEF Confirmed, OfKind
<1>11. Mined
  BY <1>3, <1>4, <1>5, <1>10 DEF Mined
<1>12. ~Reading /\ \A k : ~Done(k)
  BY <1>1 DEF Reading, Done, Over, Accounts
<1>13. read \in [Kinds -> Seq(Nat)] /\ \A k \in Kinds : read[k] = <<>> /\ Range(read[k]) = {}
  BY <1>1 DEF Empty, Range
<1>14. 0 \in 0 .. Raised /\ Tracked \subseteq Kinds
  BY KindsAre
<1>15. Holds
  BY <1>1, <1>12, <1>13, <1>14 DEF Holds
<1>16. Covered
  BY <1>12 DEF Covered
<1>17. Thorough
  BY <1>12 DEF Thorough
<1> QED BY <1>7, <1>9, <1>11, <1>15, <1>16, <1>17 DEF ChainInv, ParseInv

LEMMA StepKeeps ==
  ASSUME ChainInv, ParseInv, [Next]_vars
  PROVE  ChainInv' /\ ParseInv'
<1>1. CASE SendTracked
  BY <1>1, SendTrackedFits, SubmitKeeps
<1>2. CASE SendCard
  BY <1>2, SendCardFits, SubmitKeeps
<1>3. CASE Mine
  BY <1>3, MineKeeps
<1>4. CASE Begin
  BY <1>4, BeginKeeps
<1>5. CASE ListCards
  BY <1>5, CardsKeep
<1>6. CASE NextPage
  BY <1>6, NextPageKeeps
<1>7. CASE LastPage
  BY <1>7, LastPageKeeps, SpentIsNumber DEF ChainInv
<1>8. CASE PageFails
  BY <1>8, FailKeeps
<1>9. CASE UNCHANGED vars
  <2>1. UNCHANGED chain /\ UNCHANGED <<stage, start, found, read, known>>
    BY <1>9 DEF vars, parser
  <2>2. ChainInv'
    BY <2>1, SameChain
  <2>3. Grows
    <3>1. /\ txs' = txs /\ listed' = listed /\ blocks' = blocks
          /\ Len(txs) \in Nat /\ Len(blocks) \in Nat /\ \A k \in Kinds : Len(listed[k]) \in Nat
      BY <2>1 DEF chain, ChainInv, Made, Listed, Mined
    <3> QED BY <3>1 DEF Grows
  <2> QED BY <2>1, <2>2, <2>3, GrowthKeepsParse
<1> QED BY <1>1, <1>2, <1>3, <1>4, <1>5, <1>6, <1>7, <1>8, <1>9 DEF Next, Parse

(* The chain is well formed, and the parse has what it is to have found.   *)
THEOREM ParsesAreThorough == Spec => [](ChainInv /\ ParseInv)
<1>1. Init => ChainInv /\ ParseInv
  BY InitHolds
<1>2. ChainInv /\ ParseInv /\ [Next]_vars => (ChainInv /\ ParseInv)'
  BY StepKeeps
<1> QED BY <1>1, <1>2, PTL DEF Spec

(* A parse that is over has done with all accounts.                        *)
LEMMA AllDone ==
  ASSUME Finished
  PROVE  \A k \in Kinds : Done(k)
BY DEF Finished, Done, Kinds, Over, Accounts

(* A proposal that has outputs enough is accepted, and so is a donation    *)
(* of an accepted proposal.                                                *)
LEMMA AcceptedAre ==
  ASSUME ChainInv, NEW t \in DOMAIN txs, HasFormat(txs[t].outs),
         txs[t].kind = "proposal" \/ txs[t].refers \in Range(read["proposal"])
  PROVE  Accepts(t)
BY DEF Accepts

(* get_marked_txes and the sets of dt_parser_utils: every tracked          *)
(* transaction known when the parse began is read, and none is read twice, *)
(* however long the pages are and however much is sent meanwhile.          *)
THEOREM TransactionsFoundOnce == Spec => []FoundOnce
<1>1. ASSUME ChainInv, ParseInv
      PROVE  FoundOnce
  <2> USE DEF ChainInv, ParseInv
  <2> SUFFICES ASSUME Finished, NEW t \in DOMAIN txs, txs[t].kind \in Tracked
               PROVE  /\ Times(read[txs[t].kind], t) <= 1
                      /\ Readable(t) /\ (txs[t].refers = 0 \/ Readable(txs[t].refers))
                           => Times(read[txs[t].kind], t) = 1
    BY <1>1 DEF FoundOnce
  <2>1. PICK k : k = txs[t].kind
    OBVIOUS
  <2>2. k \in Tracked /\ k \in Kinds /\ "proposal" \in Kinds /\ k # "funds"
    BY <2>1, KindsAre DEF Tracked
  <2> DEFINE P == {i \in DOMAIN read[k] : read[k][i] = t}
  <2>3. \A i, j \in P : i = j
    BY <1>1, <2>2 DEF Holds
  <2>4. P = {} \/ \E i \in P : P = {i}
    BY <2>3
  <2>5. Cardinality(P) <= 1 /\ (P # {} => Cardinality(P) = 1)
    <3> HIDE DEF P
    <3> QED BY <2>4, FS_EmptySet, FS_Singleton
  <2>6. ASSUME Readable(t), txs[t].refers = 0 \/ Readable(txs[t].refers)
        PROVE  P # {}
    <3>1. Accepts(t)
      <4>1. CASE k = "proposal"
        BY <1>1, <2>1, <2>6, <4>1, AcceptedAre DEF Readable
      <4>2. CASE k # "proposal"
        <5>1. txs[t].refers \in DOMAIN txs /\ txs[txs[t].refers].kind = "proposal"
          BY <1>1, <2>1, <2>2, <4>2, Ancestors DEF Refers, Tracked
        <5>2. Readable(txs[t].refers)
          <6>1. 0 \notin DOMAIN txs
            BY <1>1, Ancestors
          <6> QED BY <2>6, <5>1, <6>1
        <5>3. Accepts(txs[t].refers)
          BY <1>1, <5>1, <5>2, AcceptedAre DEF Readable
        <5>4. txs[t].refers \in Range(read["proposal"])
          BY <1>1, <2>2, <5>1, <5>2, <5>3, AllDone DEF Thorough, Readable, Tracked
        <5> QED BY <1>1, <2>6, <5>4, AcceptedAre DEF Readable
      <4> QED BY <4>1, <4>2
    <3>2. t \in Range(read[k])
      BY <1>1, <2>1, <2>2, <2>6, <3>1, AllDone DEF Thorough, Readable
    <3> QED BY <3>2 DEF Range
  <2> QED BY <2>1, <2>5, <2>6 DEF Times
<1>2. Spec => [](ChainInv /\ ParseInv)
  BY ParsesAreThorough
<1> QED BY <1>1, <1>2, PTL

(* init_parser reads the accounts one after the other while the chain      *)
(* grows: it never has a donation without the lock it was paid from, a     *)
(* lock without the signal, nor a card without the donation it claims.     *)
THEOREM ParsesAreClosed == Spec => []PredecessorsRead
<1>1. ASSUME ChainInv, ParseInv
      PROVE  PredecessorsRead
  <2> USE DEF ChainInv, ParseInv
  <2>1. {"card", "donation", "locking", "signalling", "proposal"} \subseteq Kinds
    BY KindsAre
  <2>2. ASSUME Finished, NEW k \in {"donation", "locking"}, NEW t \in Range(read[k]),
               NEW c \in txs[t].ins, txs[c.tx].kind \in {"locking", "signalling"},
               txs[c.tx].refers = txs[t].refers
        PROVE  c.tx \in Range(read[txs[c.tx].kind])
    <3>1. c.tx \in InputsOf(t) /\ Done(txs[c.tx].kind)
      BY <2>1, <2>2, AllDone DEF InputsOf
    <3> QED BY <1>1, <2>2, <3>1 DEF Thorough
  <2>3. ASSUME Finished, NEW t \in Range(read["card"]),
               Height(txs[t].refers) \in 1 .. Height(t),
               HasFormat(txs[txs[txs[t].refers].refers].outs)
        PROVE  txs[t].refers \in Range(read["donation"])
    <3>1. PICK d : d = txs[t].refers
      OBVIOUS
    <3>2. PICK p : p = txs[d].refers
      OBVIOUS
    <3>3. d \in CitedBy(t) /\ p \in CitedBy(t)
      BY <2>3, <3>1, <3>2 DEF CitedBy
    <3>4. t \in DOMAIN txs /\ txs[t].kind = "card"
      BY <1>1, <2>1, HeightOfState DEF Holds
    <3>5. d \in DOMAIN txs /\ txs[d].kind = "donation"
      BY <1>1, <3>1, <3>4, Ancestors DEF Refers, Tracked
    <3>6. p \in DOMAIN txs /\ txs[p].kind = "proposal"
      BY <1>1, <3>2, <3>5, Ancestors DEF Refers, Tracked
    <3>7. p \in Range(read["proposal"])
      <4>1. Accepts(p)
        BY <1>1, <2>3, <3>1, <3>2, <3>6, AcceptedAre
      <4> QED BY <1>1, <2>1, <2>3, <3>3, <3>6, <4>1, AllDone DEF Thorough
    <3>8. Accepts(d)
      <4>1. HasFormat(txs[d].outs)
        BY <1>1, <3>5, SpentIsNumber, PayingHasFormat DEF Paying
      <4> QED BY <1>1, <3>2, <3>5, <3>7, <4>1, AcceptedAre
    <3> QED BY <1>1, <2>1, <2>3, <3>1, <3>3, <3>5, <3>8, AllDone DEF Thorough
  <2> QED BY <2>2, <2>3 DEF PredecessorsRead
<1>2. Spec => [](ChainInv /\ ParseInv)
  BY ParsesAreThorough
<1> QED BY <1>1, <1>2, PTL

(* create_unsigned_tx and the constructors of dt_entities agree: the       *)
(* amount and the reservation that a parse reads are those asked for.      *)
THEOREM ReadersReadWhatWasAsked == Spec => []AskedIsRead
<1>1. ASSUME ChainInv, ParseInv
      PROVE  AskedIsRead
  <2> USE DEF ChainInv, ParseInv
  <2> SUFFICES ASSUME NEW k \in Tracked, NEW t \in Range(read[k])
               PROVE  LET r == txs[t].asked IN
                      /\ k \in Paying => ReadAmount(k, txs[t].outs) = r.amount
                      /\ k \in {"locking", "donation"} /\ (r.reserved # None \/ ~ChangeOf(t))
                           => ReadReserve(k, txs[t].outs) = r.reserved
    BY <1>1 DEF AskedIsRead
  <2>1. k \in Kinds /\ "funds" \notin Tracked
    BY KindsAre DEF Tracked
  <2>2. t \in DOMAIN txs /\ txs[t].kind = k
    BY <1>1, <2>1, HeightOfState DEF Holds
  <2>3. t \in 2 .. Len(txs)
    BY <1>1, <2>1, <2>2, Ancestors
  <2>4. PICK r : r = txs[t].asked
    OBVIOUS
  <2>5. PICK v : v = SpentBy(t)
    OBVIOUS
  <2>6. r.kind = k /\ Enough(r, v) /\ txs[t].outs = TrackedOutputs(r, v)
    BY <1>1, <2>2, <2>3, <2>4, <2>5 DEF Made, Built
  <2>7. v \in Nat
    BY <1>1, <2>2, <2>5, SpentIsNumber
  <2>8. r \in TrackedRequests
    <3>1. txs[t] \in Txs
      BY <1>1, <2>2 DEF Made
    <3>2. "card" \notin Tracked
      BY DEF Tracked
    <3> QED BY <2>1, <2>2, <2>4, <3>1, <3>2 DEF Txs
  <2>9. LET outs == txs[t].outs IN
        /\ k \in Paying => Len(outs) >= 3 /\ outs[3].value = r.amount
        /\ k \in Paying /\ r.reserved # None => Len(outs) >= 4 /\ outs[4].value = r.reserved
        /\ k \in Paying /\ r.reserved = None
             /\ ~(Len(outs) > Len(Heading(r.kind) \o ValueOutput(r) \o ReserveOutput(r)))
             => Len(outs) = 3
    BY <2>6, <2>7, <2>8, TrackedOutputsAre
  <2>10. k \in Paying => ReadAmount(k, txs[t].outs) = r.amount
    BY <2>9 DEF ReadAmount
  <2>11. ASSUME k \in {"locking", "donation"}, r.reserved # None \/ ~ChangeOf(t)
         PROVE  ReadReserve(k, txs[t].outs) = r.reserved
    <3>1. k \in Paying
      BY <2>11 DEF Paying
    <3>2. CASE r.reserved # None
      <4>1. Len(txs[t].outs) >= 4 /\ txs[t].outs[4].value = r.reserved
        BY <2>9, <3>1, <3>2
      <4>2. Len(txs[t].outs) > 3
        <5>1. Len(txs[t].outs) \in Nat
          BY <1>1, <2>2, OutputsTyped
        <5> QED BY <4>1, <5>1
      <4> QED BY <2>11, <4>1, <4>2 DEF ReadReserve
    <3>3. CASE r.reserved = None
      <4>1. Len(txs[t].outs) = 3
        BY <2>2, <2>4, <2>6, <2>9, <2>11, <3>1, <3>3 DEF ChangeOf
      <4>2. ~(Len(txs[t].outs) > 3)
        BY <4>1
      <4> QED BY <3>3, <4>2 DEF ReadReserve
    <3> QED BY <3>2, <3>3
  <2> QED BY <2>4, <2>10, <2>11
<1>2. Spec => [](ChainInv /\ ParseInv)
  BY ParsesAreThorough
<1> QED BY <1>1, <1>2, PTL

-----------------------------------------------------------------------------
(* What the outputs of a transaction are worth *)

ValuesOf(outs) == [n \in DOMAIN outs |-> outs[n].value]
OutputSum(outs) == Sum(DOMAIN outs, ValuesOf(outs))

LEMMA ValuesAre ==
  ASSUME NEW outs \in Seq(Outputs)
  PROVE  Numbers(DOMAIN outs, ValuesOf(outs)) /\ OutputSum(outs) \in Nat
<1>1. DOMAIN outs = 1 .. Len(outs) /\ Len(outs) \in Nat
  OBVIOUS
<1>2. \A n \in DOMAIN outs : ValuesOf(outs)[n] \in Nat
  <2>1. \A n \in DOMAIN outs : outs[n] \in Outputs
    BY <1>1
  <2> QED BY <2>1 DEF ValuesOf, Outputs
<1>3. IsFiniteSet(DOMAIN outs)
  BY <1>1, FS_Interval
<1>4. Numbers(DOMAIN outs, ValuesOf(outs))
  BY <1>2, <1>3 DEF Numbers
<1> QED BY <1>4, SumType DEF OutputSum

LEMMA OneOutput ==
  ASSUME NEW x \in Outputs
  PROVE  OutputSum(<<x>>) = x.value /\ x.value \in Nat
<1>1. x.value \in Nat
  BY DEF Outputs
<1>2. DOMAIN <<x>> = {1} /\ ValuesOf(<<x>>)[1] = x.value
  BY DEF ValuesOf
<1>3. Sum({1}, ValuesOf(<<x>>)) = x.value
  BY <1>1, <1>2, SumOne
<1> QED BY <1>1, <1>2, <1>3 DEF OutputSum

LEMMA NoOutput == OutputSum(<<>>) = 0
BY SumEmpty DEF OutputSum

(* Values add up where outputs are put one after the other. *)
LEMMA OutputsAdd ==
  ASSUME NEW a \in Seq(Outputs), NEW b \in Seq(Outputs)
  PROVE  OutputSum(a \o b) = OutputSum(a) + OutputSum(b)
<1>1. PICK ab : ab = a \o b
  OBVIOUS
<1>2. /\ ab \in Seq(Outputs) /\ Len(ab) = Len(a) + Len(b)
      /\ Len(a) \in Nat /\ Len(b) \in Nat
      /\ \A i \in 1 .. Len(a) : ab[i] = a[i]
      /\ \A i \in 1 .. Len(b) : ab[Len(a) + i] = b[i]
  BY <1>1, ConcatIs
<1> DEFINE f == ValuesOf(ab)
           l == Len(a)
           First == 1 .. l
           Then == l + 1 .. l + Len(b)
           key == [n \in Then |-> n - l]
<1>3. DOMAIN a = First /\ DOMAIN b = 1 .. Len(b) /\ DOMAIN ab = First \cup Then
      /\ First \cap Then = {}
  BY <1>2
<1>4. Numbers(First \cup Then, f)
  BY <1>2, <1>3, ValuesAre
<1>5. Numbers(First, f) /\ Numbers(Then, f)
  BY <1>4, SumSubset
<1>6. Sum(First, f) = OutputSum(a)
  <2>1. \A n \in First : f[n] = ValuesOf(a)[n]
    BY <1>2, <1>3 DEF ValuesOf
  <2> QED BY <1>3, <2>1, SumAgree DEF OutputSum
<1>7. Sum(Then, f) = OutputSum(b)
  <2>1. \A n \in Then : key[n] \in DOMAIN b /\ key[n] = n - l
    BY <1>2, <1>3
  <2>2. ASSUME NEW k \in DOMAIN b
        PROVE  ValuesOf(b)[k] = Sum(WithKey(Then, key, k), f)
    <3>1. PICK m : m = l + k
      OBVIOUS
    <3>2. m \in Then /\ k \in 1 .. Len(b)
      BY <1>2, <1>3, <3>1
    <3>3. \A n \in Then : n - l = k => n = m
      BY <1>2, <1>3, <3>1
    <3>4. m - l = k
      BY <1>2, <1>3, <3>1
    <3>5. WithKey(Then, key, k) = {m}
      BY <2>1, <3>2, <3>3, <3>4 DEF WithKey
    <3>6. f[m] = ValuesOf(b)[k]
      BY <1>2, <1>3, <3>1, <3>2 DEF ValuesOf
    <3>7. f[m] \in Nat
      BY <1>5, <3>2 DEF Numbers
    <3>8. Sum({m}, f) = f[m]
      <4> HIDE DEF f
      <4> QED BY <3>7, SumOne
    <3> QED BY <3>5, <3>6, <3>8
  <2> HIDE DEF f, Then, key
  <2> QED BY <1>5, <2>1, <2>2, SumByKey, SMTT(30) DEF OutputSum
<1>8. Sum(First \cup Then, f) = Sum(First, f) + Sum(Then, f)
  <2> HIDE DEF f, First, Then
  <2> QED BY <1>3, <1>5, SumUnion
<1> QED BY <1>1, <1>3, <1>6, <1>7, <1>8 DEF OutputSum

(* What is in no output of a tracked transaction is its fee, and change    *)
(* that is too small.                                                      *)
LEMMA TrackedFee ==
  ASSUME NEW r \in TrackedRequests, NEW v \in Nat, Enough(r, v)
  PROVE  v - OutputSum(TrackedOutputs(r, v)) \in TxFee .. TxFee + P2thFee - 1
<1> DEFINE h == Heading(r.kind)
           p == ValueOutput(r)
           q == ReserveOutput(r)
           change == v - Complete(r)
           Scripts == {"p2pkh", "p2sh", "nulldata"}
           Addresses == Tracked \cup {"card"} \cup STRING
           paid == IF r.kind \in Paying THEN r.amount ELSE 0
           kept == IF r.reserved = None THEN 0 ELSE r.reserved
<1>1. /\ r.kind \in Addresses /\ r.from \in Addresses /\ r.to \in Addresses /\ r.amount \in Nat
      /\ r.reserved \in Nat \cup {None}
  BY DEF TrackedRequests
<1>2. \A value \in Nat : \A script \in Scripts : \A to \in Addresses :
        Output(value, script, to) \in Outputs /\ Output(value, script, to).value = value
  BY DEF Output, Outputs
<1>3. h \in Seq(Outputs) /\ OutputSum(h) = P2thFee + DataFee
  <2>1. PICK x \in Outputs : x = Output(P2thFee, "p2pkh", r.kind)
    BY <1>1, <1>2, FeesAssumption
  <2>2. PICK y \in Outputs : y = Output(DataFee, "nulldata", r.kind)
    BY <1>1, <1>2, FeesAssumption
  <2>3. h = <<x>> \o <<y>> /\ <<x>> \in Seq(Outputs) /\ <<y>> \in Seq(Outputs)
    BY <2>1, <2>2 DEF Heading
  <2>4. x.value = P2thFee /\ y.value = DataFee
    BY <1>1, <1>2, <2>1, <2>2, FeesAssumption
  <2>5. OutputSum(h) = OutputSum(<<x>>) + OutputSum(<<y>>)
    BY <2>3, OutputsAdd
  <2> HIDE DEF h
  <2> QED BY <2>3, <2>4, <2>5, OneOutput
<1>4. p \in Seq(Outputs) /\ OutputSum(p) = paid
  <2>1. CASE r.kind \in Paying
    <3>1. PICK script \in Scripts : p = <<Output(r.amount, script, r.to)>>
      BY <2>1 DEF ValueOutput
    <3>2. Output(r.amount, script, r.to) \in Outputs
          /\ Output(r.amount, script, r.to).value = r.amount
      BY <1>1, <1>2
    <3> QED BY <2>1, <3>1, <3>2, OneOutput
  <2>2. CASE r.kind \notin Paying
    BY <2>2, NoOutput DEF ValueOutput
  <2> QED BY <2>1, <2>2
<1>5. q \in Seq(Outputs) /\ OutputSum(q) = kept
  <2>1. CASE r.reserved = None
    BY <2>1, NoOutput DEF ReserveOutput
  <2>2. CASE r.reserved # None
    <3>1. q = <<Output(r.reserved, "p2pkh", r.from)>> /\ r.reserved \in Nat
      BY <1>1, <2>2 DEF ReserveOutput
    <3>2. Output(r.reserved, "p2pkh", r.from) \in Outputs
          /\ Output(r.reserved, "p2pkh", r.from).value = r.reserved
      BY <1>1, <1>2, <3>1
    <3> QED BY <2>2, <3>1, <3>2, OneOutput
  <2> QED BY <2>1, <2>2
<1>6. paid \in Nat /\ kept \in Nat
  BY <1>1
<1>7. Complete(r) = paid + kept + P2thFee + DataFee + TxFee
  BY DEF Complete
<1> DEFINE base == h \o p \o q
           outs == TrackedOutputs(r, v)
<1> HIDE DEF h, p, q, paid, kept
<1>8. base \in Seq(Outputs) /\ OutputSum(base) = P2thFee + DataFee + paid + kept
  <2>1. PICK hp : hp = h \o p
    OBVIOUS
  <2>2. hp \in Seq(Outputs) /\ OutputSum(hp) = OutputSum(h) + OutputSum(p)
    BY <1>3, <1>4, <2>1, ConcatIs, OutputsAdd
  <2>3. base \in Seq(Outputs) /\ OutputSum(base) = OutputSum(hp) + OutputSum(q)
    BY <1>5, <2>1, <2>2, ConcatIs, OutputsAdd
  <2> QED BY <1>3, <1>4, <1>5, <2>2, <2>3
<1>9. outs = WithChange(base, change, r.from)
  BY DEF TrackedOutputs, h, p, q
<1>10. change = v - (paid + kept + P2thFee + DataFee + TxFee) /\ change \in Nat
  BY <1>6, <1>7, FeesAssumption DEF Enough
<1> HIDE DEF base, outs, change
<1>11. CASE change >= P2thFee
  <2>1. PICK x \in Outputs : x = Output(change, "p2pkh", r.from) /\ x.value = change
    BY <1>1, <1>2, <1>10
  <2>2. outs = base \o <<x>> /\ <<x>> \in Seq(Outputs)
    <3>1. outs = Append(base, x)
      BY <1>9, <1>11, <2>1 DEF WithChange
    <3> QED BY <1>8, <3>1
  <2>3. OutputSum(outs) = OutputSum(base) + change
    BY <1>8, <2>1, <2>2, OutputsAdd, OneOutput
  <2>4. v - OutputSum(outs) = TxFee
    BY <1>6, <1>8, <1>10, <2>3, FeesAssumption
  <2> QED BY <2>4, FeesAssumption DEF outs
<1>12. CASE ~(change >= P2thFee)
  <2>1. outs = base
    BY <1>9, <1>12 DEF WithChange
  <2>2. v - OutputSum(outs) = TxFee + change
    BY <1>6, <1>8, <1>10, <2>1, FeesAssumption
  <2> QED BY <1>10, <1>12, <2>2, FeesAssumption DEF outs
<1> QED BY <1>11, <1>12

(* Each receiver of a card gets the same, and all the rest is change. *)
LEMMA CardFee ==
  ASSUME NEW r \in CardRequests, NEW v \in Nat, CardRest(r, v) >= 0
  PROVE  v - OutputSum(CardOutputs(r, v)) = TxFee
<1> DEFINE n == Len(r.receivers)
           h == Heading("card")
           to == [i \in DOMAIN r.receivers |-> Output(DataFee, "p2pkh", r.receivers[i])]
           Addresses == Tracked \cup {"card"} \cup STRING
<1>1. r.receivers \in Seq(STRING) /\ r.from \in STRING /\ n \in Nat
  BY DEF CardRequests
<1>2. \A value \in Nat : \A script \in {"p2pkh", "nulldata"} : \A a \in Addresses :
        Output(value, script, a) \in Outputs /\ Output(value, script, a).value = value
  BY DEF Output, Outputs
<1>3. CardRest(r, v) \in Nat
  BY CardOutputsAre
<1>4. h \in Seq(Outputs) /\ OutputSum(h) = P2thFee + DataFee
  <2>1. PICK x \in Outputs : x = Output(P2thFee, "p2pkh", "card") /\ x.value = P2thFee
    BY <1>2, FeesAssumption
  <2>2. PICK y \in Outputs : y = Output(DataFee, "nulldata", "card") /\ y.value = DataFee
    BY <1>2, FeesAssumption
  <2>3. h = <<x>> \o <<y>> /\ <<x>> \in Seq(Outputs) /\ <<y>> \in Seq(Outputs)
    BY <2>1, <2>2 DEF Heading
  <2>4. OutputSum(h) = OutputSum(<<x>>) + OutputSum(<<y>>)
    BY <2>3, OutputsAdd
  <2> HIDE DEF h
  <2> QED BY <2>1, <2>2, <2>3, <2>4, OneOutput
<1>5. to \in Seq(Outputs) /\ DOMAIN to = 1 .. n /\ \A i \in 1 .. n : to[i].value = DataFee
  <2>1. DOMAIN r.receivers = 1 .. n /\ \A i \in 1 .. n : r.receivers[i] \in Addresses
    BY <1>1
  <2>2. \A i \in 1 .. n : to[i] \in Outputs /\ to[i].value = DataFee
    BY <1>2, <2>1, FeesAssumption
  <2>3. to \in [1 .. n -> Outputs]
    BY <2>1, <2>2
  <2>4. to \in Seq(Outputs)
    BY <1>1, <2>3
  <2>5. DOMAIN to = 1 .. n
    BY <2>1
  <2> QED BY <2>2, <2>4, <2>5
<1>6. OutputSum(to) = DataFee * n
  <2> DEFINE S == 1 .. n
             one == [i \in S |-> 1]
  <2>1. IsFiniteSet(S) /\ Cardinality(S) = n
    <3>1. PICK k \in Nat : k = n
      BY <1>1
    <3>2. IsFiniteSet(1 .. k) /\ Cardinality(1 .. k) = IF 1 > k THEN 0 ELSE k - 1 + 1
      BY FS_Interval, SMTT(30)
    <3> QED BY <3>1, <3>2
  <2>2. Numbers(S, one) /\ Sum(S, one) = n
    <3>1. \A i \in S : one[i] = 1
      OBVIOUS
    <3> HIDE DEF one, S
    <3> QED BY <2>1, <3>1, SumOnes
  <2>3. \A i \in S : ValuesOf(to)[i] = DataFee * one[i]
    <3>1. \A i \in S : ValuesOf(to)[i] = DataFee /\ one[i] = 1
      BY <1>5 DEF ValuesOf
    <3>2. DataFee = DataFee * 1
      BY FeesAssumption
    <3> HIDE DEF one, S
    <3> QED BY <3>1, <3>2
  <2> HIDE DEF one, S
  <2>4. Sum(S, ValuesOf(to)) = DataFee * Sum(S, one)
    BY <2>2, <2>3, FeesAssumption, SumScaled
  <2> USE DEF S
  <2> QED BY <1>5, <2>2, <2>4 DEF OutputSum
<1>7. PICK x \in Outputs : x = Output(CardRest(r, v), "p2pkh", r.from) /\ x.value = CardRest(r, v)
  BY <1>1, <1>2, <1>3
<1>8. CardOutputs(r, v) = (h \o to) \o <<x>> /\ <<x>> \in Seq(Outputs)
  BY <1>7 DEF CardOutputs
<1>9. PICK m : m = DataFee * n
  OBVIOUS
<1> HIDE DEF h, to
<1>10. OutputSum(CardOutputs(r, v)) = P2thFee + DataFee + m + CardRest(r, v)
  <2>1. PICK ht : ht = h \o to
    OBVIOUS
  <2>2. ht \in Seq(Outputs) /\ OutputSum(ht) = P2thFee + DataFee + m
    BY <1>4, <1>5, <1>6, <1>9, <2>1, ConcatIs, OutputsAdd
  <2>3. OutputSum(ht \o <<x>>) = OutputSum(ht) + CardRest(r, v)
    BY <1>7, <1>8, <2>2, OutputsAdd, OneOutput
  <2> QED BY <1>8, <2>1, <2>2, <2>3
<1>11. (1 + n) * DataFee = DataFee + m /\ m \in Nat
  <2>1. \A a, b \in Nat : (1 + a) * b = b + b * a /\ b * a \in Nat
    OBVIOUS
  <2> HIDE DEF n
  <2> QED BY <1>1, <1>9, <2>1, FeesAssumption
<1>12. CardRest(r, v) = v - TxFee - P2thFee - (DataFee + m)
  BY <1>11 DEF CardRest
<1> QED BY <1>3, <1>10, <1>11, <1>12, FeesAssumption

(* create_unsigned_tx and card_transfer lose no coin: what goes into a     *)
(* transaction and not into an output is the fee, with change that is too  *)
(* small for one; card_transfer makes an output even of that.              *)
THEOREM NoCoinIsLost == Spec => []CoinsKept
<1>1. ASSUME ChainInv, ParseInv
      PROVE  CoinsKept
  <2> USE DEF ChainInv
  <2> SUFFICES ASSUME NEW t \in DOMAIN txs \ {1}
               PROVE  /\ FeeOf(t) \in TxFee .. TxFee + P2thFee - 1
                      /\ \A n \in DOMAIN txs[t].outs : txs[t].outs[n].value >= 0
    BY DEF CoinsKept
  <2>1. t \in 2 .. Len(txs) /\ t \in DOMAIN txs
    BY <1>1, Ancestors
  <2>2. PICK r : r = txs[t].asked
    OBVIOUS
  <2>3. PICK v : v = SpentBy(t)
    OBVIOUS
  <2>4. v \in Nat
    BY <1>1, <2>1, <2>3, SpentIsNumber
  <2>5. FeeOf(t) = v - OutputSum(txs[t].outs)
    BY <2>3 DEF FeeOf, SpentBy, Worth, OutputSum, ValuesOf
  <2>6. txs[t].kind \in Tracked \cup {"card"} /\ txs[t] \in Txs
    BY <1>1, <2>1, KindsAre DEF Made
  <2>7. "card" \notin Tracked /\ "funds" \notin Tracked /\ "funds" # "card"
    BY DEF Tracked
  <2>8. CASE txs[t].kind \in Tracked
    <3>1. r \in TrackedRequests
      BY <2>2, <2>6, <2>7, <2>8 DEF Txs
    <3>2. Enough(r, v) /\ txs[t].outs = TrackedOutputs(r, v)
      BY <1>1, <2>1, <2>2, <2>3, <2>8 DEF Made, Built
    <3> QED BY <1>1, <2>1, <2>4, <2>5, <3>1, <3>2, TrackedFee, OutputsTyped
  <2>9. CASE txs[t].kind = "card"
    <3>1. r \in CardRequests
      BY <2>2, <2>6, <2>7, <2>9 DEF Txs
    <3>2. CardRest(r, v) >= 0 /\ txs[t].outs = CardOutputs(r, v)
      BY <1>1, <2>1, <2>2, <2>3, <2>9 DEF Made, Built
    <3>3. FeeOf(t) = TxFee
      BY <2>4, <2>5, <3>1, <3>2, CardFee
    <3>4. TxFee \in TxFee .. TxFee + P2thFee - 1
      BY FeesAssumption
    <3> QED BY <1>1, <2>1, <3>3, <3>4, OutputsTyped
  <2> QED BY <2>6, <2>8, <2>9
<1>2. Spec => [](ChainInv /\ ParseInv)
  BY ParsesAreThorough
<1> QED BY <1>1, <1>2, PTL

-----------------------------------------------------------------------------
(* What the parse before has read *)

(* It is accepted for ever, and known to this parse from its beginning.    *)
Remembered ==
  \A k \in Tracked : \A t \in Range(last[k]) :
    /\ t \in Confirmed /\ txs[t].kind = k /\ HasFormat(txs[t].outs)
    /\ k # "proposal" => txs[t].refers \in Range(last["proposal"])
    /\ stage \in 1 .. Over => t \in known

(* Other steps of the parse do not touch it. *)
LEMMA ParserRemembers ==
  ASSUME Remembered, UNCHANGED <<chain, last>>,
         stage' \in 1 .. Over => stage \in 1 .. Over /\ known' = known
  PROVE  Remembered'
BY SameChain DEF Remembered

LEMMA BeginRemembers ==
  ASSUME ChainInv, ParseInv, Remembered, Begin
  PROVE  Remembered'
<1>1. UNCHANGED chain /\ known' = Confirmed
  BY DEF Begin
<1>2. Confirmed' = Confirmed /\ txs' = txs
  BY <1>1, SameChain
<1>3. Tracked \subseteq Kinds /\ "proposal" \in Kinds
  BY KindsAre
<1>4. CASE stage = Raised
  <2>1. last' = last
    BY <1>4 DEF Begin
  <2> QED BY <1>1, <1>2, <2>1 DEF Remembered
<1>5. CASE stage # Raised
  <2>1. last' = read
    BY <1>5 DEF Begin
  <2>2. ASSUME NEW k \in Tracked, NEW t \in Range(read[k])
        PROVE  /\ t \in Confirmed /\ txs[t].kind = k /\ HasFormat(txs[t].outs)
               /\ k # "proposal" => txs[t].refers \in Range(read["proposal"])
    <3>1. t \in Confirmed /\ txs[t].kind = k /\ Accepts(t)
      BY <1>3, <2>2 DEF ParseInv, Holds
    <3> QED BY <3>1 DEF Accepts
  <2> QED BY <1>1, <1>2, <2>1, <2>2 DEF Remembered
<1> QED BY <1>4, <1>5

(* Nor does a longer list or a longer chain. *)
LEMMA GrowthRemembers ==
  ASSUME ChainInv, ChainInv', Remembered, Grows, UNCHANGED <<stage, known, last>>
  PROVE  Remembered'
<1>1. OnceEach(blocks')
  BY DEF ChainInv, Mined, OnceEach, Blocks, Range
<1>2. \A t \in Confirmed : txs'[t] = txs[t] /\ t \in Confirmed'
  BY <1>1, ConfirmedStays DEF ChainInv
<1> QED BY <1>2 DEF Remembered

LEMMA SubmitGrows ==
  ASSUME ChainInv, NEW tx, Fits(tx), Submit(tx)
  PROVE  Grows
<1> USE DEF ChainInv
<1>1. PICK n : n = Len(txs) + 1
  OBVIOUS
<1>2. /\ txs' = Append(txs, tx) /\ blocks' = blocks /\ tx \in Txs
      /\ listed' = [listed EXCEPT ![tx.kind] = @ \o Entries(n, tx.asked.from)]
  BY <1>1 DEF Submit, Fits
<1>3. Len(txs) <= Len(txs') /\ \A t \in DOMAIN txs : txs'[t] = txs[t]
  <2>1. txs \in Seq(Txs)
    BY DEF Made
  <2> QED BY <1>2, <2>1
<1>4. PICK old, new, both : old = listed[tx.kind] /\ new = Entries(n, tx.asked.from)
                            /\ both = old \o new
  OBVIOUS
<1>5. listed \in [Kinds -> Seq(Nat)] /\ tx.kind \in Kinds /\ n \in Nat
  BY <1>1, Ancestors DEF Listed, Fits
<1>6. old \in Seq(Nat) /\ new \in Seq(Nat)
  BY <1>4, <1>5 DEF Entries
<1>7. Len(old) <= Len(both) /\ \A i \in DOMAIN old : both[i] = old[i]
  <2>1. /\ Len(both) = Len(old) + Len(new) /\ Len(old) \in Nat /\ Len(new) \in Nat
        /\ \A i \in 1 .. Len(old) : both[i] = old[i]
    <3>1. /\ Len(old \o new) = Len(old) + Len(new) /\ Len(old) \in Nat /\ Len(new) \in Nat
          /\ \A i \in 1 .. Len(old) : (old \o new)[i] = old[i]
      BY <1>6, ConcatIs
    <3> QED BY <1>4, <3>1
  <2> QED BY <1>6, <2>1
<1>8. ASSUME NEW k \in Kinds
      PROVE  /\ Len(listed[k]) <= Len(listed'[k])
             /\ \A i \in DOMAIN listed[k] : listed'[k][i] = listed[k][i]
  <2>1. CASE k = tx.kind
    BY <1>2, <1>4, <1>5, <1>7, <2>1
  <2>2. CASE k # tx.kind
    <3>1. listed'[k] = listed[k] /\ Len(listed[k]) \in Nat
      BY <1>2, <1>5, <2>2
    <3> QED BY <3>1
  <2> QED BY <2>1, <2>2
<1>9. Len(blocks) <= Len(blocks') /\ \A b \in DOMAIN blocks : blocks'[b] = blocks[b]
  <2>1. Len(blocks) \in Nat
    BY DEF Mined
  <2> QED BY <1>2, <2>1
<1> QED BY <1>3, <1>8, <1>9 DEF Grows

LEMMA StepRemembers ==
  ASSUME ChainInv, ParseInv, Remembered, [Next]_vars
  PROVE  Remembered'
<1>1. ChainInv'
  BY StepKeeps
<1>2. ASSUME NEW tx, Fits(tx), Submit(tx)
      PROVE  Remembered'
  <2>1. UNCHANGED <<stage, known, last>>
    BY <1>2 DEF Submit, parser
  <2> QED BY <1>1, <1>2, <2>1, SubmitGrows, GrowthRemembers
<1>3. CASE SendTracked
  BY <1>2, <1>3, SendTrackedFits
<1>4. CASE SendCard
  BY <1>2, <1>4, SendCardFits
<1>5. CASE Mine
  <2>1. UNCHANGED <<stage, known, last>>
    BY <1>5 DEF Mine
  <2> QED BY <1>1, <1>5, <2>1, MineGrows, GrowthRemembers
<1>6. CASE Begin
  BY <1>6, BeginRemembers
<1>7. CASE ListCards \/ NextPage \/ LastPage
  <2>1. UNCHANGED <<chain, last, known>> /\ stage \in 1 .. Over
    BY <1>7 DEF ListCards, NextPage, LastPage, Over, Accounts
  <2> QED BY <2>1, ParserRemembers
<1>8. CASE PageFails
  <2>1. UNCHANGED <<chain, last>> /\ stage' \notin 1 .. Over
    BY <1>8 DEF PageFails, Raised, Over, Accounts
  <2> QED BY <2>1, ParserRemembers
<1>9. CASE UNCHANGED vars
  BY <1>9, ParserRemembers DEF vars, parser
<1> QED BY <1>3, <1>4, <1>5, <1>6, <1>7, <1>8, <1>9 DEF Next, Parse

LEMMA AlwaysRemembered == Spec => [](ChainInv /\ ParseInv /\ Remembered)
<1>1. Init => Remembered
  BY KindsAre DEF Init, Remembered, Empty, Range
<1>2. ChainInv /\ ParseInv /\ Remembered /\ [Next]_vars => Remembered'
  BY StepRemembers
<1> QED BY <1>1, <1>2, ParsesAreThorough, PTL DEF Spec

(* Donation states are computed from what is read: nothing that a parse of *)
(* the deck has read is missing in the next one (get_marked_txes and       *)
(* get_tracked_txes, from page to page and account to account), whatever   *)
(* the times of the blocks are.                                            *)
THEOREM LaterParsesKeep == Spec => []LaterParsesKeepAll
<1>1. ASSUME ChainInv, ParseInv, Remembered
      PROVE  LaterParsesKeepAll
  <2> USE <1>1 DEF ParseInv
  <2> SUFFICES ASSUME Finished, NEW k \in Tracked, NEW t \in Range(last[k])
               PROVE  t \in Range(read[k])
    BY DEF LaterParsesKeepAll
  <2>1. stage \in 1 .. Over /\ Tracked \subseteq Kinds /\ "proposal" \in Tracked
    BY KindsAre DEF Finished, Tracked
  <2>2. \A j \in Tracked : Done(j)
    BY <2>1, AllDone
  <2>3. /\ t \in known /\ txs[t].kind = k /\ HasFormat(txs[t].outs)
        /\ k # "proposal" => txs[t].refers \in Range(last["proposal"])
    BY <2>1 DEF Remembered
  <2>4. ASSUME NEW p \in Range(last["proposal"])
        PROVE  p \in Range(read["proposal"])
    <3>1. p \in known /\ txs[p].kind = "proposal" /\ HasFormat(txs[p].outs)
      BY <2>1, <2>4 DEF Remembered
    <3>2. Accepts(p)
      BY <3>1 DEF Accepts
    <3> QED BY <2>1, <2>2, <3>1, <3>2 DEF Thorough
  <2>5. Accepts(t)
    BY <2>3, <2>4 DEF Accepts
  <2> QED BY <2>2, <2>3, <2>5 DEF Thorough
<1> QED BY <1>1, AlwaysRemembered, PTL

=============================================================================
