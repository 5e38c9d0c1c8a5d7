-------------------------- MODULE IssueModesProofs --------------------------
(***************************************************************************)
(* Proofs about IssueModes for all decks and lists of transactions: what   *)
(* the chained parsers leave is what each of a deck's modes allows, in the *)
(* order of the list.                                                      *)
(***************************************************************************)
EXTENDS IssueModes, CollectionsTheorems

LOCAL INSTANCE FiniteSetsExt

Card == [txid : Nat, cardseq : Nat, type : {"CardIssue", "CardBurn", "CardTransfer", "Invalid"},
         at_type : BOOLEAN, claim : DataKinds, amount : Int]

Types ==
  /\ deck \in Decks /\ txs \in Seq(Txs)
  /\ found \in Seq(Card) /\ cards \in Seq(Card)
  /\ todo \subseteq deck.modes

(* Cards are in the order of the chain; only those of a deck with a parser *)
(* of its own have its at_type.                                            *)
Precedes(c, d) == c.txid < d.txid \/ (c.txid = d.txid /\ c.cardseq < d.cardseq)
FoundSound ==
  /\ \A i, j \in DOMAIN found : i < j => Precedes(found[i], found[j])
  /\ \A i \in DOMAIN found : found[i].txid <= Len(txs) /\ (found[i].at_type => Custom)

(* The modes in M allow card k of the list.                                *)
Allowed(M, k) ==
  /\ UNFLUSHABLE \in M => IsIssue(found[k])
  /\ ONCE \in M /\ IsIssue(found[k]) => \A j \in 1 .. k - 1 : ~IsIssue(found[j])

(* The cards cs are those that h[1], h[2], ... are in the list, perhaps    *)
(* with other amounts, and without a parser those that the modes in M      *)
(* allow.                                                                  *)
Alike(c, d) == Same(c, d) /\ c.at_type = d.at_type
Mirrors(h, cs) ==
  /\ \A i \in DOMAIN cs : h[i] \in DOMAIN found /\ Alike(cs[i], found[h[i]])
  /\ \A i, j \in DOMAIN cs : i < j => h[i] < h[j]
Holds(h, cs, M) ==
  \A k \in DOMAIN found : Allowed(M, k) <=> \E i \in DOMAIN cs : h[i] = k
Left(cs, M) == \E h : Mirrors(h, cs) /\ (~Custom => Holds(h, cs, M))

Validating == phase \in {"validating", "done"}
CardsSound ==
  Validating => /\ todo # {} => cards # <<>> /\ phase = "validating"
                /\ IF deck.modes = {} THEN cards = <<>> ELSE Left(cards, deck.modes \ todo)

Inv == Types /\ FoundSound /\ CardsSound

-----------------------------------------------------------------------------
(* Cards of a transaction *)

LEMMA CardsOfTx ==
  ASSUME deck \in Decks, NEW tx \in Txs, NEW n \in Nat
  PROVE  /\ CardsOf(tx, n) \in Seq(Card)
         /\ \A i \in DOMAIN CardsOf(tx, n) :
              /\ CardsOf(tx, n)[i].txid = n
              /\ CardsOf(tx, n)[i].at_type => Custom
         /\ \A i, j \in DOMAIN CardsOf(tx, n) :
              i < j => CardsOf(tx, n)[i].cardseq < CardsOf(tx, n)[j].cardseq
<1> DEFINE all == [i \in DOMAIN tx.receivers |->
                     [txid |-> n, cardseq |-> i, type |-> TypeOf(tx, tx.receivers[i]),
                      at_type |-> Extended(tx.data),
                      claim |-> IF IsClaim(tx.data) THEN tx.data ELSE "none",
                      amount |-> tx.amounts[i]]]
           P == {i \in DOMAIN all : all[i].type # "Invalid"}
<1>1. CardsOf(tx, n) = Only(all, P)
  BY DEF CardsOf
<1>2. /\ tx.data \in DataKinds /\ Len(tx.receivers) \in Nat
      /\ DOMAIN tx.receivers = 1 .. Len(tx.receivers) /\ DOMAIN tx.amounts = DOMAIN tx.receivers
      /\ \A i \in DOMAIN tx.amounts : tx.amounts[i] \in Nat
  BY TxsAssumption
<1>3. \A i \in DOMAIN tx.receivers :
        TypeOf(tx, tx.receivers[i]) \in {"CardIssue", "CardBurn", "CardTransfer", "Invalid"}
  BY DEF TypeOf
<1>4. Extended(tx.data) \in BOOLEAN /\ (Extended(tx.data) => Custom)
  BY DEF Extended
<1>5. (IF IsClaim(tx.data) THEN tx.data ELSE "none") \in DataKinds
  BY <1>2 DEF DataKinds
<1>6. \A i \in DOMAIN tx.receivers : all[i] \in Card
  BY <1>2, <1>3, <1>4, <1>5 DEF Card
<1>7. all \in Seq(Card)
  <2>1. DOMAIN all = 1 .. Len(tx.receivers) /\ all = [i \in DOMAIN all |-> all[i]]
    BY <1>2
  <2>2. \A i \in DOMAIN all : all[i] \in Card
    BY <1>6
  <2> HIDE DEF all
  <2> QED BY <1>2, <2>1, <2>2
<1>8. \A i \in DOMAIN all : all[i].txid = n /\ all[i].cardseq = i /\ (all[i].at_type => Custom)
  BY <1>4
<1> HIDE DEF all
<1>9. Only(all, P) \in Seq(Card) /\ Lists(Only(all, P), all, P)
  BY <1>7, OnlyLists
<1>10. PICK h : Enumerates(h, Only(all, P), all, P)
  BY <1>9 DEF Lists
<1>11. \A i \in DOMAIN Only(all, P) : h[i] \in DOMAIN all /\ Only(all, P)[i] = all[h[i]]
  BY <1>10 DEF Enumerates
<1>12. \A i, j \in DOMAIN Only(all, P) : i < j => h[i] < h[j]
  BY <1>10 DEF Enumerates
<1> HIDE DEF P
<1> QED BY <1>1, <1>8, <1>9, <1>11, <1>12

-----------------------------------------------------------------------------
(* What a parser leaves *)

LEMMA LeftOnly ==
  ASSUME Types, NEW h, NEW N, Mirrors(h, cards), NEW Q \in SUBSET (DOMAIN cards),
         ~Custom => \A k \in DOMAIN found : Allowed(N, k) <=> \E i \in Q : h[i] = k
  PROVE  Left(Only(cards, Q), N) /\ Only(cards, Q) \in Seq(Card)
<1> DEFINE cs == Only(cards, Q)
<1>1. cs \in Seq(Card) /\ Lists(cs, cards, Q)
  BY OnlyLists DEF Types
<1>2. PICK g : Enumerates(g, cs, cards, Q)
  BY <1>1 DEF Lists
<1> DEFINE f == [i \in DOMAIN cs |-> h[g[i]]]
<1> HIDE DEF cs
<1>3. /\ \A i \in DOMAIN cs : g[i] \in Q /\ g[i] \in DOMAIN cards /\ cs[i] = cards[g[i]]
      /\ \A i, j \in DOMAIN cs : i < j => g[i] < g[j]
      /\ \A k \in Q : \E i \in DOMAIN cs : g[i] = k
  BY <1>2 DEF Enumerates
<1>4. Mirrors(f, cs)
  BY <1>3 DEF Mirrors
<1>5. ~Custom => Holds(f, cs, N)
  <2> SUFFICES ASSUME ~Custom, NEW k \in DOMAIN found
               PROVE  Allowed(N, k) <=> \E i \in DOMAIN cs : f[i] = k
    BY DEF Holds
  <2>1. Allowed(N, k) <=> \E i \in Q : h[i] = k
    OBVIOUS
  <2>2. (\E i \in Q : h[i] = k) <=> \E i \in DOMAIN cs : f[i] = k
    BY <1>3
  <2> QED BY <2>1, <2>2
<1> QED BY <1>1, <1>4, <1>5 DEF Left, cs

(* More modes allow less. *)
LEMMA AllowedLess ==
  ASSUME NEW M, NEW N, M \subseteq N, NEW k, Allowed(N, k)
  PROVE  Allowed(M, k)
BY DEF Allowed

(* If a parser leaves nothing, neither do those after it. *)
LEMMA LeftNothing ==
  ASSUME NEW M, NEW N, M \subseteq N, Left(<<>>, M)
  PROVE  Left(<<>>, N)
<1>1. PICK h : Mirrors(h, <<>>) /\ (~Custom => Holds(h, <<>>, M))
  BY DEF Left
<1>2. ~Custom => Holds(h, <<>>, N)
  BY <1>1, AllowedLess DEF Holds
<1> QED BY <1>1, <1>2 DEF Left

LEMMA LeftSame ==
  ASSUME NEW cs, NEW M, NEW N, \A k \in DOMAIN found : Allowed(M, k) <=> Allowed(N, k),
         Left(cs, M)
  PROVE  Left(cs, N)
<1>1. PICK h : Mirrors(h, cs) /\ (~Custom => Holds(h, cs, M))
  BY DEF Left
<1>2. ~Custom => Holds(h, cs, N)
  BY <1>1 DEF Holds
<1> QED BY <1>1, <1>2 DEF Left

(* Neither the list nor the deck changes while the list is validated.      *)
LEMMA LeftStays ==
  ASSUME found' = found, deck' = deck, NEW cs, NEW M, Left(cs, M)
  PROVE  Left(cs, M)'
<1>1. PICK h : Mirrors(h, cs) /\ (~Custom => Holds(h, cs, M))
  BY DEF Left
<1>2. Mirrors(h, cs)'
  BY <1>1 DEF Mirrors
<1>3. \A k : Allowed(M, k)' <=> Allowed(M, k)
  BY DEF Allowed
<1>4. ~Custom' => Holds(h, cs, M)'
  BY <1>1, <1>3 DEF Holds, Custom
<1> QED BY <1>1, <1>2, <1>4 DEF Left

(* A mode other than ONCE and UNFLUSHABLE allows every card.               *)
LEMMA OtherMode ==
  ASSUME NEW cs, NEW M, NEW mode, mode \notin {ONCE, UNFLUSHABLE}, Left(cs, M)
  PROVE  Left(cs, M \cup {mode})
<1>1. \A k \in DOMAIN found : Allowed(M, k) <=> Allowed(M \cup {mode}, k)
  BY DEF Allowed
<1> QED BY <1>1, LeftSame

LEMMA ModeIsLeft ==
  ASSUME Types, todo # {}
  PROVE  Mode \in todo
<1>1. todo \in SUBSET Nat
  BY DecksAssumption, SMTT(30) DEF Types, SupportedModes, CUSTOM, ONCE, MULTI, MONO, UNFLUSHABLE
<1>2. \E m \in todo : \A n \in todo : m <= n
  BY <1>1, SmallestNumber
<1> QED BY <1>2 DEF Mode, Min

-----------------------------------------------------------------------------
(* One parser *)

LEMMA UnflushableLeaves ==
  ASSUME Types, NEW M, Left(cards, M)
  PROVE  Left(Issues(cards), M \cup {UNFLUSHABLE}) /\ Issues(cards) \in Seq(Card)
<1> DEFINE N == M \cup {UNFLUSHABLE}
           Q == IssuesIn(cards)
<1>1. PICK h : Mirrors(h, cards) /\ (~Custom => Holds(h, cards, M))
  BY DEF Left
<1>2. Q \in SUBSET (DOMAIN cards)
  BY DEF IssuesIn
<1>3. ASSUME ~Custom, NEW k \in DOMAIN found
      PROVE  Allowed(N, k) <=> \E i \in Q : h[i] = k
  <2>1. Allowed(N, k) <=> Allowed(M, k) /\ IsIssue(found[k])
    BY DEF Allowed, ONCE, UNFLUSHABLE
  <2>2. Allowed(M, k) <=> \E i \in DOMAIN cards : h[i] = k
    BY <1>1, <1>3 DEF Holds
  <2>3. \A i \in DOMAIN cards : i \in Q <=> IsIssue(found[h[i]])
    BY <1>1 DEF Mirrors, Alike, Same, IssuesIn, IsIssue
  <2> HIDE DEF N, Q
  <2> QED BY <1>2, <2>1, <2>2, <2>3
<1> HIDE DEF N, Q
<1>4. Left(Only(cards, Q), N) /\ Only(cards, Q) \in Seq(Card)
  BY <1>1, <1>2, <1>3, LeftOnly
<1> QED BY <1>4 DEF Issues, N, Q

(* The first issue of the list is among the cards left by any modes, and   *)
(* is the first issue there.                                               *)
LEMMA OnceLeaves ==
  ASSUME Types, FoundSound, NEW M, Left(cards, M), IssuesIn(cards) # {}
  PROVE  Left(FirstIssue(cards), M \cup {ONCE}) /\ FirstIssue(cards) \in Seq(Card)
<1> DEFINE N == M \cup {ONCE}
           first == Min(IssuesIn(cards))
           Q == {i \in DOMAIN cards : IsIssue(cards[i]) => cards[i] = cards[first]}
<1>1. PICK h : Mirrors(h, cards) /\ (~Custom => Holds(h, cards, M))
  BY DEF Left
<1>2. /\ cards \in Seq(Card) /\ found \in Seq(Card)
      /\ DOMAIN cards \in SUBSET Nat /\ DOMAIN found = 1 .. Len(found) /\ Len(found) \in Nat
  BY DEF Types
<1>3. first \in IssuesIn(cards) /\ \A i \in IssuesIn(cards) : first <= i
  <2>1. IssuesIn(cards) \in SUBSET Nat
    BY <1>2 DEF IssuesIn
  <2>2. \E i \in IssuesIn(cards) : \A j \in IssuesIn(cards) : i <= j
    BY <2>1, SmallestNumber
  <2> QED BY <2>2 DEF Min
<1>4. Q \in SUBSET (DOMAIN cards)
  OBVIOUS
<1>5. FirstIssue(cards) = Only(cards, Q)
  BY DEF FirstIssue
<1> HIDE DEF first
<1>6. first \in DOMAIN cards /\ IsIssue(cards[first])
  BY <1>3 DEF IssuesIn
<1>7. \A i \in DOMAIN cards :
        h[i] \in DOMAIN found /\ (IsIssue(cards[i]) <=> IsIssue(found[h[i]]))
  BY <1>1 DEF Mirrors, Alike, Same, IsIssue
<1>8. \A i, j \in DOMAIN cards : i < j => h[i] < h[j]
  BY <1>1 DEF Mirrors
<1>9. \A i \in DOMAIN cards : IsIssue(cards[i]) => first <= i /\ h[first] <= h[i]
  <2> SUFFICES ASSUME NEW i \in DOMAIN cards, IsIssue(cards[i])
               PROVE  first <= i /\ h[first] <= h[i]
    OBVIOUS
  <2>1. first <= i /\ i \in Nat /\ first \in Nat
    BY <1>2, <1>3, <1>6 DEF IssuesIn
  <2>2. h[first] \in Nat /\ h[i] \in Nat
    BY <1>2, <1>6, <1>7
  <2>3. first = i \/ h[first] < h[i]
    BY <1>6, <1>8, <2>1
  <2> QED BY <2>1, <2>2, <2>3
<1>10. \A i \in DOMAIN cards : IsIssue(cards[i]) /\ i # first => cards[i] # cards[first]
  <2> SUFFICES ASSUME NEW i \in DOMAIN cards, IsIssue(cards[i]), i # first,
                      cards[i] = cards[first]
               PROVE  FALSE
    OBVIOUS
  <2>1. first < i
    BY <1>2, <1>6, <1>9
  <2>2. Precedes(found[h[first]], found[h[i]])
    BY <1>6, <1>7, <1>8, <2>1 DEF FoundSound
  <2>3. Precedes(cards[first], cards[i])
    BY <1>1, <1>6, <2>2 DEF Mirrors, Alike, Same, Precedes
  <2>4. cards[i].txid \in Nat /\ cards[i].cardseq \in Nat
    <3>1. cards[i] \in Card
      BY <1>2
    <3> QED BY <3>1 DEF Card
  <2> QED BY <2>3, <2>4 DEF Precedes
<1>11. ASSUME ~Custom, NEW k \in DOMAIN found
       PROVE  Allowed(N, k) <=> \E i \in Q : h[i] = k
  <2>1. Allowed(N, k) <=>
          Allowed(M, k) /\ (IsIssue(found[k]) => \A j \in 1 .. k - 1 : ~IsIssue(found[j]))
    BY DEF Allowed, ONCE, UNFLUSHABLE
  <2>2. \A l \in DOMAIN found : Allowed(M, l) <=> \E i \in DOMAIN cards : h[i] = l
    BY <1>1, <1>11 DEF Holds
  <2>3. \A i \in DOMAIN cards : i \in Q <=> (IsIssue(found[h[i]]) => i = first)
    BY <1>7, <1>10
  <2>4. \A j \in 1 .. h[first] - 1 : ~IsIssue(found[j])
    <3> DEFINE S == {j \in DOMAIN found : IsIssue(found[j])}
    <3>1. h[first] \in S
      BY <1>6, <1>7
    <3>2. S \in SUBSET Nat
      BY <1>2
    <3>3. PICK l \in S : \A j \in S : l <= j
      <4> HIDE DEF S
      <4> QED BY <3>1, <3>2, SmallestNumber
    <3>4. \A j \in 1 .. l - 1 : j \in DOMAIN found /\ ~IsIssue(found[j])
      BY <1>2, <3>2, <3>3
    <3>5. Allowed(M, l)
      BY <3>3, <3>4 DEF Allowed
    <3>6. PICK i \in DOMAIN cards : h[i] = l
      BY <2>2, <3>3, <3>5
    <3>7. h[first] <= l /\ h[first] \in Nat /\ l \in Nat
      BY <1>2, <1>6, <1>7, <1>9, <3>2, <3>3, <3>6
    <3> QED BY <3>4, <3>7
  <2>5. ASSUME NEW i \in DOMAIN cards, IsIssue(found[h[i]]), i # first
        PROVE  h[first] \in 1 .. h[i] - 1 /\ IsIssue(found[h[first]])
    <3>1. first < i
      BY <1>2, <1>6, <1>7, <1>9, <2>5
    <3>2. h[first] < h[i] /\ h[first] \in 1 .. Len(found) /\ h[i] \in 1 .. Len(found)
      BY <1>2, <1>6, <1>7, <1>8, <3>1
    <3> QED BY <1>2, <1>6, <1>7, <3>2
  <2> HIDE DEF N, Q
  <2> QED BY <1>4, <1>6, <1>7, <2>1, <2>2, <2>3, <2>4, <2>5
<1> HIDE DEF N, Q
<1>12. Left(Only(cards, Q), N) /\ Only(cards, Q) \in Seq(Card)
  BY <1>1, <1>4, <1>11, LeftOnly
<1> QED BY <1>5, <1>12 DEF N

LEMMA MonoLeaves ==
  ASSUME Types, NEW M, Left(cards, M)
  PROVE  Left(MonoAmounts(cards), M \cup {MONO}) /\ MonoAmounts(cards) \in Seq(Card)
<1> DEFINE cs == MonoAmounts(cards)
<1>1. cards \in Seq(Card) /\ \A i \in DOMAIN cards : cards[i] \in Card
  BY DEF Types
<1>2. DOMAIN cs = DOMAIN cards /\ \A i \in DOMAIN cards : cs[i] \in Card /\ Alike(cs[i], cards[i])
  <2> SUFFICES ASSUME NEW i \in DOMAIN cards
               PROVE  cs[i] \in Card /\ Alike(cs[i], cards[i])
    BY DEF MonoAmounts
  <2>1. cs[i] = [cards[i] EXCEPT !.amount = RoundTrip(@)]
    BY DEF MonoAmounts
  <2>2. cards[i] \in Card /\ RoundTrip(cards[i].amount) \in Int
    BY <1>1 DEF RoundTrip, Card
  <2> HIDE DEF cs
  <2> QED BY <2>1, <2>2 DEF Card, Alike, Same
<1>3. cs \in Seq(Card)
  <2>1. cs = [i \in DOMAIN cards |-> cs[i]] /\ DOMAIN cards = 1 .. Len(cards) /\ Len(cards) \in Nat
    BY <1>1 DEF MonoAmounts
  <2> HIDE DEF cs
  <2> QED BY <1>2, <2>1
<1> HIDE DEF cs
<1>4. PICK h : Mirrors(h, cards) /\ (~Custom => Holds(h, cards, M))
  BY DEF Left
<1>5. Mirrors(h, cs)
  BY <1>2, <1>4 DEF Mirrors, Alike, Same
<1>6. ~Custom => Holds(h, cs, M)
  BY <1>2, <1>4 DEF Holds
<1>7. Left(cs, M)
  BY <1>5, <1>6 DEF Left
<1>8. MONO \notin {ONCE, UNFLUSHABLE}
  BY DEF MONO, ONCE, UNFLUSHABLE
<1> QED BY <1>3, <1>7, <1>8, OtherMode DEF cs

(* Only a deck with a parser of its own has cards that call for it.        *)
LEMMA ParserLeaves ==
  ASSUME Types, FoundSound, NEW M, NEW N, Left(cards, M), cards # <<>>, WithParser
  PROVE  Left(Claims(cards), N) /\ Claims(cards) \in Seq(Card)
<1> DEFINE Q == {i \in DOMAIN cards : IsIssue(cards[i]) => cards[i].claim = "valid"}
<1>1. PICK h : Mirrors(h, cards) /\ (~Custom => Holds(h, cards, M))
  BY DEF Left
<1>2. cards \in Seq(Card) /\ 1 \in DOMAIN cards
  BY DEF Types
<1>3. Custom
  BY <1>1, <1>2 DEF Mirrors, Alike, FoundSound, WithParser
<1>4. Claims(cards) = Only(cards, Q) /\ Q \in SUBSET (DOMAIN cards)
  BY DEF Claims
<1> HIDE DEF Q
<1>5. Left(Only(cards, Q), N) /\ Only(cards, Q) \in Seq(Card)
  BY <1>1, <1>3, <1>4, LeftOnly
<1> QED BY <1>4, <1>5

-----------------------------------------------------------------------------
(* All steps *)

LEMMA InitInv == Init => Inv
BY DEF Init, Inv, Types, FoundSound, CardsSound, Validating

(* What a parser leaves goes to the next one. *)
LEMMA LeaveStep ==
  ASSUME Types, CardsSound, phase = "validating", todo # {}, NEW cs \in Seq(Card), Leave(cs),
         Left(cs, (deck.modes \ todo) \cup {Mode})
  PROVE  Types' /\ CardsSound'
<1> DEFINE M == (deck.modes \ todo) \cup {Mode}
<1>1. Mode \in todo /\ todo \subseteq deck.modes
  BY ModeIsLeft DEF Types
<1>2. /\ cards' = cs /\ deck' = deck /\ txs' = txs /\ found' = found /\ phase' = phase
      /\ todo' = IF cs = <<>> THEN {} ELSE todo \ {Mode}
  BY DEF Leave
<1>3. todo' \subseteq deck.modes /\ deck.modes # {}
  BY <1>1, <1>2
<1>4. Types'
  BY <1>2, <1>3 DEF Types
<1>5. PICK N : N = deck.modes \ todo'
  OBVIOUS
<1>6. Left(cs, N)
  <2>1. CASE cs = <<>>
    <3>1. M \subseteq N
      BY <1>1, <1>2, <1>5, <2>1
    <3> HIDE DEF M
    <3>2. Left(<<>>, M)
      BY <2>1 DEF M
    <3> QED BY <2>1, <3>1, <3>2, LeftNothing
  <2>2. CASE cs # <<>>
    <3>1. N = M
      BY <1>1, <1>2, <1>5, <2>2
    <3> QED BY <3>1
  <2> QED BY <2>1, <2>2
<1>7. Left(cs, N)'
  BY <1>2, <1>6, LeftStays
<1>8. Left(cards, deck.modes \ todo)'
  BY <1>2, <1>5, <1>7
<1>9. (todo # {} => cards # <<>>)'
  BY <1>2
<1> QED BY <1>2, <1>3, <1>4, <1>8, <1>9 DEF CardsSound

(* In the course of the validation, each mode's parser. *)
LEMMA ParserStep ==
  ASSUME Inv,
         CustomParser \/ CustomFallback \/ Once \/ Multi \/ Mono \/ Unflushable \/ Unknown
  PROVE  Inv'
<1> DEFINE M == deck.modes \ todo
<1>1. Types /\ FoundSound /\ CardsSound
  BY DEF Inv
<1>2. phase = "validating" /\ todo # {} /\ cards # <<>> /\ deck.modes # {} /\ Left(cards, M)
  <2>1. phase = "validating" /\ todo # {}
    BY DEF CustomParser, CustomFallback, Once, Multi, Mono, Unflushable, Unknown, Turn
  <2> QED BY <1>1, <2>1 DEF CardsSound, Validating, Types
<1>3. cards \in Seq(Card) /\ Mode \in deck.modes /\ Mode \in todo
  BY <1>1, <1>2, ModeIsLeft DEF Types
<1>4. ASSUME Fail
      PROVE  Inv'
  BY <1>1, <1>4
     DEF Fail, Inv, Types, FoundSound, Custom, CardsSound, Validating, Precedes
<1>5. ASSUME NEW cs \in Seq(Card), Leave(cs), Left(cs, M \cup {Mode})
      PROVE  Inv'
  <2>1. Types' /\ CardsSound'
    BY <1>1, <1>2, <1>5, LeaveStep
  <2>2. FoundSound'
    BY <1>1, <1>5 DEF Leave, FoundSound, Precedes, Custom
  <2> QED BY <2>1, <2>2 DEF Inv
<1>6. ASSUME Mode = CUSTOM, Leave(cards)
      PROVE  Inv'
  <2>1. Left(cards, M \cup {Mode})
    <3>1. Mode \notin {ONCE, UNFLUSHABLE}
      BY <1>6 DEF CUSTOM, ONCE, UNFLUSHABLE
    <3> QED BY <1>2, <3>1, OtherMode
  <2> QED BY <1>3, <1>5, <1>6, <2>1
<1>8. CASE CustomParser
  <2>1. Leave(Claims(cards)) /\ WithParser
    BY <1>8 DEF CustomParser
  <2> QED BY <1>1, <1>2, <1>5, <2>1, ParserLeaves
<1>9. CASE CustomFallback
  BY <1>6, <1>9 DEF CustomFallback, Turn
<1>10. CASE Multi \/ Unknown
  <2>1. Leave(cards) /\ Mode \notin {CUSTOM, ONCE, UNFLUSHABLE}
    BY <1>10 DEF Multi, Unknown, Turn, CUSTOM, ONCE, UNFLUSHABLE, MULTI
  <2>2. Left(cards, M \cup {Mode})
    BY <1>2, <2>1, OtherMode
  <2> QED BY <1>3, <1>5, <2>1, <2>2
<1>11. CASE Mono
  <2>1. Leave(MonoAmounts(cards)) /\ Mode = MONO /\ Mode # CUSTOM
    BY <1>11 DEF Mono, Turn, CUSTOM, MONO
  <2>2. Left(MonoAmounts(cards), M \cup {Mode}) /\ MonoAmounts(cards) \in Seq(Card)
    BY <1>1, <1>2, <2>1, MonoLeaves
  <2> QED BY <1>5, <2>1, <2>2
<1>12. CASE Unflushable
  <2>1. Leave(Issues(cards)) /\ Mode = UNFLUSHABLE /\ Mode # CUSTOM
    BY <1>12 DEF Unflushable, Turn, CUSTOM, UNFLUSHABLE
  <2>2. Left(Issues(cards), M \cup {Mode}) /\ Issues(cards) \in Seq(Card)
    BY <1>1, <1>2, <2>1, UnflushableLeaves
  <2> QED BY <1>5, <2>1, <2>2
<1>13. CASE Once
  <2>1. Mode = ONCE /\ Mode # CUSTOM
    BY <1>13 DEF Once, Turn, CUSTOM, ONCE
  <2>2. CASE IssuesIn(cards) # {}
    <3>1. Leave(FirstIssue(cards))
      BY <1>13, <2>2 DEF Once
    <3>2. Left(FirstIssue(cards), M \cup {Mode}) /\ FirstIssue(cards) \in Seq(Card)
      BY <1>1, <1>2, <2>1, <2>2, OnceLeaves
    <3> QED BY <1>5, <2>1, <3>1, <3>2
  <2>3. CASE ~(IssuesIn(cards) # {})
    BY <1>4, <1>13, <2>3 DEF Once
  <2> QED BY <2>2, <2>3
<1> QED BY <1>8, <1>9, <1>10, <1>11, <1>12, <1>13

LEMMA ListStep ==
  ASSUME Inv, List
  PROVE  Inv'
<1>1. Types /\ FoundSound
  BY DEF Inv
<1>2. PICK tx \in Txs : txs' = Append(txs, tx) /\ found' = found \o CardsOf(tx, Len(txs) + 1)
  BY DEF List
<1>3. /\ phase' = "listing" /\ deck' = deck /\ cards' = cards /\ todo' = todo
      /\ phase = "listing" /\ deck \in Decks
  BY <1>1 DEF List, Types
<1>4. PICK n \in Nat : n = Len(txs) + 1
  <2>1. Len(txs) \in Nat
    BY <1>1 DEF Types
  <2> QED BY <2>1
<1>5. PICK new \in Seq(Card) : new = CardsOf(tx, n)
  BY <1>3, CardsOfTx
<1>6. /\ \A i \in DOMAIN new : new[i].txid = n /\ (new[i].at_type => Custom)
      /\ \A i, j \in DOMAIN new : i < j => new[i].cardseq < new[j].cardseq
  BY <1>3, <1>5, CardsOfTx
<1>7. /\ found \in Seq(Card) /\ found' = found \o new
      /\ txs' \in Seq(Txs) /\ Len(txs) \in Nat /\ Len(txs') = n
  <2>1. found \in Seq(Card) /\ txs \in Seq(Txs)
    BY <1>1 DEF Types
  <2> QED BY <1>2, <1>4, <1>5, <2>1
<1>8. /\ Len(found) \in Nat /\ Len(new) \in Nat /\ found' \in Seq(Card)
      /\ DOMAIN found = 1 .. Len(found) /\ DOMAIN new = 1 .. Len(new)
      /\ DOMAIN (found') = 1 .. Len(found) + Len(new)
      /\ \A i \in DOMAIN found : found'[i] = found[i]
      /\ \A i \in DOMAIN new : found'[Len(found) + i] = new[i]
  BY <1>7
<1>9. \A i \in DOMAIN (found') :
        \/ i \in DOMAIN found /\ found'[i] = found[i]
        \/ /\ i - Len(found) \in DOMAIN new /\ i > Len(found)
           /\ found'[i] = new[i - Len(found)]
  <2> SUFFICES ASSUME NEW i \in DOMAIN (found'), i \notin DOMAIN found
               PROVE  /\ i - Len(found) \in DOMAIN new /\ i > Len(found)
                      /\ found'[i] = new[i - Len(found)]
    BY <1>8
  <2>1. i - Len(found) \in DOMAIN new /\ i > Len(found) /\ Len(found) + (i - Len(found)) = i
    BY <1>8
  <2> QED BY <1>8, <2>1
<1>10. FoundSound'
  <2>1. \A i \in DOMAIN (found') : found'[i].txid <= Len(txs') /\ (found'[i].at_type => Custom')
    <3>1. \A i \in DOMAIN found : found[i].txid <= Len(txs) /\ found[i].txid \in Nat
      <4>1. \A i \in DOMAIN found : found[i] \in Card
        BY <1>7
      <4> QED BY <1>1, <4>1 DEF FoundSound, Card
    <3>2. \A i \in DOMAIN found : found[i].txid <= n
      BY <1>4, <1>7, <3>1
    <3>3. Custom' = Custom
      BY <1>3 DEF Custom
    <3> QED BY <1>1, <1>6, <1>7, <1>9, <3>2, <3>3 DEF FoundSound
  <2>2. ASSUME NEW i \in DOMAIN (found'), NEW j \in DOMAIN (found'), i < j
        PROVE  Precedes(found'[i], found'[j])
    <3>1. CASE j \in DOMAIN found
      <4>1. i \in DOMAIN found
        BY <1>8, <2>2, <3>1
      <4> QED BY <1>1, <1>8, <2>2, <3>1, <4>1 DEF FoundSound
    <3>2. CASE i \in DOMAIN found /\ j \notin DOMAIN found
      <4>1. found'[j].txid = n
        BY <1>6, <1>9, <3>2
      <4>2. found'[i].txid <= Len(txs) /\ found'[i].txid \in Nat
        <5>1. found[i] \in Card
          BY <1>7, <3>2
        <5> QED BY <1>1, <1>8, <3>2, <5>1 DEF FoundSound, Card
      <4> QED BY <1>4, <1>7, <4>1, <4>2, SMTT(30) DEF Precedes
    <3>3. CASE i \notin DOMAIN found /\ j \notin DOMAIN found
      <4>1. /\ i - Len(found) \in DOMAIN new /\ j - Len(found) \in DOMAIN new
            /\ found'[i] = new[i - Len(found)] /\ found'[j] = new[j - Len(found)]
        BY <1>9, <3>3
      <4>2. i - Len(found) < j - Len(found)
        BY <1>8, <2>2
      <4> QED BY <1>6, <4>1, <4>2 DEF Precedes
    <3> QED BY <3>1, <3>2, <3>3
  <2> QED BY <2>1, <2>2 DEF FoundSound
<1>11. Types'
  BY <1>1, <1>3, <1>7, <1>8 DEF Types
<1> QED BY <1>3, <1>10, <1>11 DEF Inv, CardsSound, Validating

LEMMA ValidateStep ==
  ASSUME Inv, Validate
  PROVE  Inv'
<1>1. Types /\ FoundSound
  BY DEF Inv
<1>2. /\ deck' = deck /\ txs' = txs /\ found' = found /\ phase' = "validating"
      /\ cards' = IF deck.modes = {} THEN <<>> ELSE found
      /\ todo' = IF found = <<>> THEN {} ELSE deck.modes
  BY DEF Validate
<1>3. Types' /\ FoundSound'
  BY <1>1, <1>2 DEF Types, FoundSound, Custom
<1>4. ASSUME NEW N, N = {} \/ found = <<>>
      PROVE  Left(found, N)
  <2> DEFINE h == [k \in DOMAIN found |-> k]
  <2>1. Mirrors(h, found)
    BY DEF Mirrors, Alike, Same
  <2>2. Holds(h, found, N)
    BY <1>4 DEF Holds, Allowed
  <2> QED BY <2>1, <2>2 DEF Left
<1>5. PICK N : N = deck.modes \ todo'
  OBVIOUS
<1>6. Left(found, N)'
  <2>1. N = {} \/ found = <<>>
    BY <1>2, <1>5
  <2> QED BY <1>2, <1>4, <2>1, LeftStays
<1>7. CardsSound'
  BY <1>2, <1>5, <1>6 DEF CardsSound
<1> QED BY <1>3, <1>7 DEF Inv

LEMMA Inductive == Spec => []Inv
<1>1. ASSUME Inv, [Next]_vars
      PROVE  Inv'
  <2>1. CASE ListMismatch
    <3>1. Types' /\ FoundSound'
      <4>1. PICK tx \in Txs : txs' = Append(txs, tx)
        BY <2>1 DEF ListMismatch
      <4>2. txs' \in Seq(Txs) /\ Len(txs) \in Nat /\ Len(txs') = Len(txs) + 1
        <5>1. txs \in Seq(Txs)
          BY <1>1 DEF Inv, Types
        <5> QED BY <4>1, <5>1
      <4>3. /\ deck' = deck /\ found' = found /\ cards' = cards /\ todo' = todo
        BY <2>1 DEF ListMismatch
      <4>4. \A i \in DOMAIN found : found[i].txid <= Len(txs')
        <5>1. \A i \in DOMAIN found : found[i] \in Card
          BY <1>1 DEF Inv, Types
        <5>2. \A i \in DOMAIN found : found[i].txid \in Nat /\ found[i].txid <= Len(txs)
          BY <1>1, <5>1 DEF Inv, FoundSound, Card
        <5> QED BY <4>2, <5>2
      <4> QED BY <1>1, <4>2, <4>3, <4>4 DEF Inv, Types, FoundSound, Custom
    <3> QED BY <2>1, <3>1 DEF ListMismatch, Inv, CardsSound, Validating
  <2>2. CASE Return \/ UNCHANGED vars
    <3>1. /\ deck' = deck /\ txs' = txs /\ found' = found /\ cards' = cards /\ todo' = todo
          /\ Validating' <=> Validating
          /\ todo # {} => phase' = phase
      BY <2>2 DEF Return, vars, Validating
    <3>2. PICK N : N = deck.modes \ todo
      OBVIOUS
    <3>3. PICK cs : cs = cards
      OBVIOUS
    <3>4. CardsSound'
      <4>1. CASE Validating /\ deck.modes # {}
        <5>1. Left(cs, N)
          BY <1>1, <3>2, <3>3, <4>1 DEF Inv, CardsSound
        <5>2. Left(cs, N)'
          BY <3>1, <5>1, LeftStays
        <5>3. Left(cards, deck.modes \ todo)'
          BY <3>1, <3>2, <3>3, <5>2
        <5> QED BY <1>1, <3>1, <4>1, <5>3 DEF Inv, CardsSound
      <4>2. CASE ~(Validating /\ deck.modes # {})
        BY <1>1, <3>1, <4>2 DEF Inv, CardsSound
      <4> QED BY <4>1, <4>2
    <3>5. Types' /\ FoundSound'
      BY <1>1, <3>1 DEF Inv, Types, FoundSound, Custom
    <3> QED BY <3>4, <3>5 DEF Inv
  <2> QED BY <1>1, <2>1, <2>2, ListStep, ValidateStep, ParserStep DEF Next
<1> QED BY <1>1, InitInv, PTL DEF Spec

-----------------------------------------------------------------------------
(* Two positions of the list have two cards. *)
LEMMA SameCard ==
  ASSUME Types, FoundSound, NEW j \in DOMAIN found, NEW k \in DOMAIN found, NEW c,
         Same(c, found[j]), Same(c, found[k])
  PROVE  j = k
<1>1. j \in Nat /\ k \in Nat /\ found[j] \in Card /\ found[k] \in Card
  BY DEF Types
<1>2. /\ found[j].txid = found[k].txid /\ found[j].cardseq = found[k].cardseq
      /\ found[j].txid \in Nat /\ found[j].cardseq \in Nat
  BY <1>1 DEF Same, Card
<1>3. ~Precedes(found[j], found[k]) /\ ~Precedes(found[k], found[j])
  BY <1>2 DEF Precedes
<1>4. ~(j < k) /\ ~(k < j)
  BY <1>3 DEF FoundSound
<1> QED BY <1>1, <1>4

(* The chained parsers leave of the whole list what each mode allows, in   *)
(* whatever order and combination they are applied.                        *)
THEOREM ModesHoldTogether == Spec => []ModesCombine
<1>1. Inv => ModesCombine
  <2> SUFFICES ASSUME Inv, Done, ~Custom, NEW k \in DOMAIN found
               PROVE  Kept(found[k]) <=>
                        /\ deck.modes # {}
                        /\ UNFLUSHABLE \in deck.modes => IsIssue(found[k])
                        /\ ONCE \in deck.modes /\ IsIssue(found[k])
                             => \A j \in 1 .. k - 1 : ~IsIssue(found[j])
    BY DEF ModesCombine
  <2>1. todo = {} /\ deck.modes \ todo = deck.modes /\ Validating
    BY DEF Inv, CardsSound, Done, Validating
  <2>2. CASE deck.modes = {}
    <3>1. DOMAIN cards = {}
      BY <2>1, <2>2 DEF Inv, CardsSound
    <3> QED BY <2>2, <3>1 DEF Kept
  <2>3. CASE deck.modes # {}
    <3>1. PICK h : Mirrors(h, cards) /\ Holds(h, cards, deck.modes)
      BY <2>1, <2>3 DEF Inv, CardsSound, Left
    <3>2. Kept(found[k]) <=> \E i \in DOMAIN cards : h[i] = k
      BY <3>1, SameCard DEF Kept, Mirrors, Alike, Same, Inv
    <3> QED BY <2>3, <3>1, <3>2 DEF Holds, Allowed
  <2> QED BY <2>2, <2>3
<1> QED BY <1>1, Inductive, PTL

(* The result is a part of the list: cards of it, each once, in the order  *)
(* of the chain, whatever the deck's modes.                                *)
THEOREM CardsStayInOrder == Spec => []Subsequence
<1>1. Inv => Subsequence
  <2> SUFFICES ASSUME Inv, Done, NEW i \in DOMAIN cards, NEW j \in DOMAIN cards
               PROVE  /\ \E k \in DOMAIN found : Same(cards[i], found[k])
                      /\ i < j => Precedes(cards[i], cards[j])
    BY DEF Subsequence, Precedes
  <2>1. deck.modes # {} /\ Validating
    BY DEF Inv, CardsSound, Done, Validating
  <2>2. PICK h : Mirrors(h, cards)
    BY <2>1 DEF Inv, CardsSound, Left
  <2>3. \A k \in DOMAIN cards : h[k] \in DOMAIN found /\ Same(cards[k], found[h[k]])
    BY <2>2 DEF Mirrors, Alike
  <2>4. i < j => Precedes(found[h[i]], found[h[j]])
    BY <2>2, <2>3 DEF Mirrors, Inv, FoundSound
  <2> QED BY <2>3, <2>4 DEF Same, Precedes
<1> QED BY <1>1, Inductive, PTL

=============================================================================
