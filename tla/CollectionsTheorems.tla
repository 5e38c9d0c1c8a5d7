------------------------ MODULE CollectionsTheorems ------------------------
(***************************************************************************)
(* Facts about the sums of module Sums, proved from those about            *)
(* cardinalities; about recursion over the positions of a list; about      *)
(* parts of lists, which a condition leaves in the list's order; and about *)
(* the bundles of module Bundles: a bundle is found, and in a list sorted  *)
(* by transactions it is what is left of the transaction.                  *)
(***************************************************************************)
EXTENDS Bundles, Sublists, FiniteSetTheorems, TLAPS

-----------------------------------------------------------------------------
(* Sums *)

(* Functions that give every element of S a number. *)
Numbers(S, f) == IsFiniteSet(S) /\ \A x \in S : f[x] \in Nat

(* What one element holds is finite and counts f[x]. *)
LEMMA UnitsOfOne ==
  ASSUME NEW x, NEW k \in Nat
  PROVE  /\ IsFiniteSet({x} \X (1 .. k))
         /\ Cardinality({x} \X (1 .. k)) = k
<1> DEFINE g == [i \in 1 .. k |-> <<x, i>>]
<1>1. g \in Bijection(1 .. k, {x} \X (1 .. k))
  <2>1. g \in [1 .. k -> {x} \X (1 .. k)]
    OBVIOUS
  <2>2. \A i, j \in 1 .. k : g[i] = g[j] => i = j
    OBVIOUS
  <2>3. \A u \in {x} \X (1 .. k) : \E i \in 1 .. k : g[i] = u
    OBVIOUS
  <2> QED BY <2>1, <2>2, <2>3 DEF Bijection, Injection, Surjection, IsInjective
<1>2. ExistsBijection(1 .. k, {x} \X (1 .. k))
  BY <1>1 DEF ExistsBijection
<1>3. IsFiniteSet(1 .. k) /\ Cardinality(1 .. k) = k
  BY FS_Interval
<1> QED BY <1>2, <1>3, FS_Bijection

(* Finitely many elements hold finitely many units. *)
LEMMA UnitsFinite ==
  ASSUME NEW S, NEW f, Numbers(S, f)
  PROVE  IsFiniteSet(Units(S, f))
<1> DEFINE T == {{x} \X (1 .. f[x]) : x \in S}
           h == [x \in S |-> {x} \X (1 .. f[x])]
<1>1. h \in Surjection(S, T)
  BY DEF Surjection
<1>2. IsFiniteSet(T)
  BY <1>1, FS_Surjection DEF Numbers
<1>3. \A u \in T : IsFiniteSet(u)
  <2> SUFFICES ASSUME NEW x \in S PROVE IsFiniteSet({x} \X (1 .. f[x]))
    OBVIOUS
  <2>1. f[x] \in Nat
    BY DEF Numbers
  <2> HIDE DEF T, h
  <2> QED BY <2>1, UnitsOfOne
<1> QED BY <1>2, <1>3, FS_UNION DEF Units

LEMMA SumType ==
  ASSUME NEW S, NEW f, Numbers(S, f)
  PROVE  Sum(S, f) \in Nat
BY UnitsFinite, FS_CardinalityType DEF Sum

LEMMA SumEmpty ==
  ASSUME NEW f
  PROVE  Sum({}, f) = 0
<1>1. Units({}, f) = {}
  BY DEF Units
<1> QED BY <1>1, FS_EmptySet DEF Sum

(* The sum depends on the values at the elements of S only. *)
LEMMA SumAgree ==
  ASSUME NEW S, NEW f, NEW g, \A x \in S : f[x] = g[x]
  PROVE  Sum(S, f) = Sum(S, g)
<1>1. Units(S, f) = Units(S, g)
  BY DEF Units
<1> QED BY <1>1 DEF Sum

(* Disjoint index sets add up. *)
LEMMA SumUnion ==
  ASSUME NEW S, NEW T, NEW f, Numbers(S, f), Numbers(T, f), S \cap T = {}
  PROVE  Sum(S \cup T, f) = Sum(S, f) + Sum(T, f)
<1>1. Units(S \cup T, f) = Units(S, f) \cup Units(T, f)
  BY DEF Units
<1>2. Units(S, f) \cap Units(T, f) = {}
  BY DEF Units
<1>3. IsFiniteSet(Units(S, f)) /\ IsFiniteSet(Units(T, f))
  BY UnitsFinite
<1>4. /\ Cardinality(Units(S, f)) \in Nat
      /\ Cardinality(Units(T, f)) \in Nat
  BY <1>3, FS_CardinalityType
<1>5. Cardinality(Units(S, f) \cap Units(T, f)) = 0
  BY <1>2, FS_EmptySet
<1>6. Cardinality(Units(S, f) \cup Units(T, f)) =
        Cardinality(Units(S, f)) + Cardinality(Units(T, f))
        - Cardinality(Units(S, f) \cap Units(T, f))
  BY <1>3, FS_Union
<1>7. Cardinality(Units(S, f) \cup Units(T, f)) =
        Cardinality(Units(S, f)) + Cardinality(Units(T, f))
  BY <1>4, <1>5, <1>6
<1>8. Sum(S \cup T, f) = Cardinality(Units(S, f) \cup Units(T, f))
  BY <1>1 DEF Sum
<1> QED BY <1>7, <1>8 DEF Sum

LEMMA SumOne ==
  ASSUME NEW x, NEW f, f[x] \in Nat
  PROVE  Sum({x}, f) = f[x]
<1>1. Units({x}, f) = {x} \X (1 .. f[x])
  BY DEF Units
<1> QED BY <1>1, UnitsOfOne DEF Sum

LEMMA SumAdd ==
  ASSUME NEW S, NEW f, NEW x, Numbers(S, f), x \notin S, f[x] \in Nat
  PROVE  Sum(S \cup {x}, f) = Sum(S, f) + f[x]
<1>1. Numbers({x}, f)
  BY FS_Singleton DEF Numbers
<1>2. S \cap {x} = {}
  OBVIOUS
<1> QED BY <1>1, <1>2, SumUnion, SumOne

LEMMA SumRemove ==
  ASSUME NEW S, NEW f, NEW x \in S, Numbers(S, f)
  PROVE  Sum(S, f) = Sum(S \ {x}, f) + f[x]
<1>1. Numbers(S \ {x}, f)
  BY FS_RemoveElement DEF Numbers
<1>2. S = (S \ {x}) \cup {x} /\ f[x] \in Nat
  BY DEF Numbers
<1> QED BY <1>1, <1>2, SumAdd

(* Leaving elements out lowers the sum. *)
LEMMA SumSubset ==
  ASSUME NEW S, NEW T \in SUBSET S, NEW f, Numbers(S, f)
  PROVE  Sum(T, f) <= Sum(S, f) /\ Numbers(T, f)
<1>1. Units(T, f) \in SUBSET Units(S, f)
  BY DEF Units
<1>2. Numbers(T, f)
  BY FS_Subset DEF Numbers
<1> QED BY <1>1, <1>2, UnitsFinite, FS_Subset DEF Sum

(* The elements with key k. *)
WithKey(S, key, k) == {x \in S : key[x] = k}

(* Elements sorted by a key add up to the sum of what each key holds; only *)
(* finitely many keys hold anything.                                       *)
LEMMA SumByKey ==
  ASSUME NEW S, NEW f, Numbers(S, f),
         NEW K, NEW key, \A x \in S : key[x] \in K,
         NEW g, \A k \in K : g[k] = Sum(WithKey(S, key, k), f)
  PROVE  Sum(K, g) = Sum(S, f)
<1> USE DEF WithKey
<1> DEFINE Part(k) == WithKey(S, key, k)
           U(k) == Units(Part(k), f)
           V(k) == {k} \X (1 .. g[k])
           c == [k \in K |-> CHOOSE b : b \in Bijection(U(k), V(k))]
           h == [u \in Units(S, f) |-> c[key[u[1]]][u]]
<1>1. ASSUME NEW k \in K
      PROVE  c[k] \in Bijection(U(k), V(k))
  <2>1. Numbers(Part(k), f)
    BY FS_Subset DEF Numbers
  <2>2. IsFiniteSet(U(k)) /\ Cardinality(U(k)) = g[k] /\ g[k] \in Nat
    <3> HIDE DEF Part
    <3>1. IsFiniteSet(U(k))
      BY <2>1, UnitsFinite
    <3>2. g[k] = Cardinality(U(k))
      BY DEF Sum, Part
    <3> QED BY <3>1, <3>2, FS_CardinalityType
  <2>3. IsFiniteSet(V(k)) /\ Cardinality(V(k)) = g[k]
    BY <2>2, UnitsOfOne
  <2> HIDE DEF U, V
  <2>4. ExistsBijection(U(k), V(k))
    BY <2>2, <2>3, FS_SameCardinalityBij
  <2> QED BY <2>4 DEF ExistsBijection
<1>2. ASSUME NEW k \in K
      PROVE  /\ c[k] \in [U(k) -> V(k)]
             /\ \A u, w \in U(k) : c[k][u] = c[k][w] => u = w
             /\ \A v \in V(k) : \E u \in U(k) : c[k][u] = v
  <2> HIDE DEF U, V, c
  <2> QED BY <1>1 DEF Bijection, Injection, Surjection, IsInjective
<1>3. ASSUME NEW u \in Units(S, f)
      PROVE  /\ u[1] \in S /\ key[u[1]] \in K
             /\ u \in U(key[u[1]])
  BY DEF Units
<1>4. ASSUME NEW k \in K, NEW u \in U(k)
      PROVE  u \in Units(S, f) /\ key[u[1]] = k
  BY DEF Units
<1>5. ASSUME NEW k \in K, NEW v \in V(k)
      PROVE  v \in Units(K, g) /\ v[1] = k
  BY DEF Units
<1>6. ASSUME NEW v \in Units(K, g)
      PROVE  v[1] \in K /\ v \in V(v[1])
  BY DEF Units
<1>h. \A u \in Units(S, f) : h[u] = c[key[u[1]]][u]
  OBVIOUS
<1>d. h = [u \in Units(S, f) |-> h[u]]
  OBVIOUS
<1> HIDE DEF U, V, c, h, Part
<1>7. h \in [Units(S, f) -> Units(K, g)]
  <2>1. \A u \in Units(S, f) : h[u] \in Units(K, g)
    BY <1>2, <1>3, <1>5, <1>h
  <2> QED BY <2>1, <1>d
<1>8. \A u, w \in Units(S, f) : h[u] = h[w] => u = w
  <2> SUFFICES ASSUME NEW u \in Units(S, f), NEW w \in Units(S, f), h[u] = h[w]
               PROVE  u = w
    OBVIOUS
  <2>1. h[u] \in V(key[u[1]]) /\ h[w] \in V(key[w[1]])
    BY <1>2, <1>3, <1>h
  <2>2. key[u[1]] = key[w[1]]
    BY <2>1, <1>3, <1>5
  <2> QED BY <2>2, <1>2, <1>3, <1>h
<1>9. \A v \in Units(K, g) : \E u \in Units(S, f) : h[u] = v
  BY <1>2, <1>4, <1>6, <1>h
<1>10. ExistsBijection(Units(S, f), Units(K, g))
  BY <1>7, <1>8, <1>9
     DEF ExistsBijection, Bijection, Injection, Surjection, IsInjective
<1>11. IsFiniteSet(Units(S, f))
  BY UnitsFinite
<1> QED BY <1>10, <1>11, FS_Bijection DEF Sum

-----------------------------------------------------------------------------
(* Least elements, and what follows for sums element by element.           *)

LEMMA SmallestSet ==
  ASSUME NEW S, IsFiniteSet(S), NEW T \in SUBSET (SUBSET S), T # {}
  PROVE  \E A \in T : \A B \in T : B \subseteq A => B = A
<1>1. IsWellFoundedOn(StrictSubsetOrdering(S), FiniteSubsetsOf(S))
  BY FS_StrictSubsetOrderingWellFounded
<1>2. T \subseteq FiniteSubsetsOf(S)
  BY FS_Subset DEF FiniteSubsetsOf
<1>3. \E A \in T : \A B \in T : <<B, A>> \notin StrictSubsetOrdering(S)
  BY <1>1, <1>2, WFMin
<1> QED BY <1>3 DEF StrictSubsetOrdering

LEMMA SmallestNumber ==
  ASSUME NEW S \in SUBSET Nat, S # {}
  PROVE  \E m \in S : \A n \in S : m <= n
<1>1. PICK b \in S : TRUE
  OBVIOUS
<1> DEFINE D(n) == 0 .. (n - 1)
           U == 0 .. b
           T == {D(n) : n \in {k \in S : k <= b}}
<1>2. IsFiniteSet(U)
  BY FS_Interval
<1>3. T \in SUBSET (SUBSET U) /\ T # {}
  <2>1. D(b) \in T
    OBVIOUS
  <2>2. \A n \in S : n <= b => D(n) \subseteq U
    OBVIOUS
  <2> QED BY <2>1, <2>2
<1>4. PICK A \in T : \A B \in T : B \subseteq A => B = A
  <2> HIDE DEF T, U
  <2> QED BY <1>2, <1>3, SmallestSet
<1>5. PICK m \in S : m <= b /\ A = D(m)
  OBVIOUS
<1>6. ASSUME NEW n \in S, n < m
      PROVE  FALSE
  <2>1. D(n) \in T /\ D(n) \subseteq D(m)
    BY <1>5, <1>6
  <2>2. n \in D(m) /\ n \notin D(n)
    BY <1>6
  <2> QED BY <2>1, <2>2, <1>4, <1>5
<1> QED BY <1>6

(* The least upper bound of numbers is one of them. *)
LEMMA LargestNumber ==
  ASSUME NEW S \in SUBSET Nat, S # {}, NEW b \in Nat, \A n \in S : n <= b
  PROVE  \E m \in S : \A n \in S : n <= m
<1> DEFINE T == {u \in Nat : \A n \in S : n <= u}
<1>1. T \in SUBSET Nat /\ T # {}
  <2>1. b \in T
    OBVIOUS
  <2> QED BY <2>1
<1>2. PICK m \in T : \A u \in T : m <= u
  <2> HIDE DEF T
  <2> QED BY <1>1, SmallestNumber
<1>3. ASSUME m \notin S
      PROVE  FALSE
  <2>1. \A n \in S : n <= m /\ n # m
    BY <1>2, <1>3
  <2>2. m \in Nat /\ \A n \in S : n < m /\ n <= m - 1
    BY <2>1, <1>2
  <2>3. m - 1 \in Nat
    <3>1. PICK n \in S : TRUE
      OBVIOUS
    <3> QED BY <2>2, <3>1
  <2>4. m - 1 \in T
    BY <2>2, <2>3
  <2> QED BY <1>2, <2>2, <2>4
<1> QED BY <1>2, <1>3

(* What holds of 0, and of a number if it holds of the one before, holds   *)
(* of all numbers up to n.                                                 *)
LEMMA StepByStep ==
  ASSUME NEW n \in Nat, NEW P, 0 \in P, \A i \in 1 .. n : i - 1 \in P => i \in P
  PROVE  \A i \in 0 .. n : i \in P
<1> DEFINE T == {i \in 0 .. n : i \notin P}
<1>1. SUFFICES ASSUME T # {}
               PROVE  FALSE
  OBVIOUS
<1>2. PICK m \in T : \A i \in T : m <= i
  <2>1. T \in SUBSET Nat
    OBVIOUS
  <2> HIDE DEF T
  <2> QED BY <1>1, <2>1, SmallestNumber
<1>3. m \in 1 .. n /\ m - 1 \in 0 .. n /\ m - 1 \notin T
  BY <1>2
<1> QED BY <1>2, <1>3

(* One step for each position, which takes elements of S to such again,    *)
(* and what comes out of them one after the other.                         *)
Closed(step, S, n) == \A i \in 1 .. n, v \in S : step[i][v] \in S
Runs(f, step, base, n) == f[0] = base /\ \A i \in 1 .. n : f[i] = step[i][f[i - 1]]

(* A recursion over positions has a solution. *)
LEMMA RecursionExists ==
  ASSUME NEW S, NEW base \in S, NEW n \in Nat, NEW step, Closed(step, S, n)
  PROVE  \E f \in [0 .. n -> S] : Runs(f, step, base, n)
<1> USE DEF Closed, Runs
<1> DEFINE Solves(f, m) ==
             /\ f \in [0 .. m -> S]
             /\ f[0] = base /\ \A i \in 1 .. m : f[i] = step[i][f[i - 1]]
           P == {m \in Nat : \E f : Solves(f, m)}
<1>1. 0 \in P
  <2>1. Solves([i \in 0 .. 0 |-> base], 0)
    OBVIOUS
  <2> QED BY <2>1
<1>2. ASSUME NEW m \in 1 .. n, m - 1 \in P
      PROVE  m \in P
  <2>1. PICK f : Solves(f, m - 1)
    BY <1>2
  <2> DEFINE g == [i \in 0 .. m |-> IF i = m THEN step[m][f[m - 1]] ELSE f[i]]
  <2>2. \A i \in 0 .. m : i # m => i \in 0 .. m - 1 /\ g[i] = f[i]
    OBVIOUS
  <2>3. g[m] = step[m][f[m - 1]] /\ g[m - 1] = f[m - 1] /\ f[m - 1] \in S
    BY <2>1
  <2>4. g \in [0 .. m -> S]
    <3>1. \A i \in 0 .. m : g[i] \in S
      BY <2>1, <2>2, <2>3
    <3> QED BY <3>1
  <2>5. \A i \in 1 .. m : g[i] = step[i][g[i - 1]]
    <3> SUFFICES ASSUME NEW i \in 1 .. m PROVE g[i] = step[i][g[i - 1]]
      OBVIOUS
    <3>1. CASE i = m
      BY <2>3, <3>1
    <3>2. CASE i # m
      <4>1. i \in 1 .. m - 1 /\ g[i] = f[i] /\ g[i - 1] = f[i - 1]
        BY <2>2, <3>2
      <4> QED BY <2>1, <4>1
    <3> QED BY <3>1, <3>2
  <2>6. g[0] = base
    BY <2>1, <2>2
  <2> HIDE DEF g
  <2>7. Solves(g, m)
    BY <2>4, <2>5, <2>6
  <2> QED BY <2>7
<1> HIDE DEF P
<1>3. n \in P
  BY <1>1, <1>2, StepByStep
<1> QED BY <1>3 DEF P

LEMMA SumMonotone ==
  ASSUME NEW S, NEW f, NEW g, Numbers(S, f), Numbers(S, g), \A x \in S : f[x] <= g[x]
  PROVE  Sum(S, f) <= Sum(S, g)
<1>1. Units(S, f) \in SUBSET Units(S, g)
  BY DEF Units, Numbers
<1> QED BY <1>1, UnitsFinite, FS_Subset DEF Sum

LEMMA SumMember ==
  ASSUME NEW S, NEW f, Numbers(S, f), NEW x \in S
  PROVE  f[x] <= Sum(S, f)
<1>1. Sum(S, f) = Sum(S \ {x}, f) + f[x]
  BY SumRemove
<1>2. Sum(S \ {x}, f) \in Nat /\ f[x] \in Nat
  BY SumSubset, SumType DEF Numbers
<1> QED BY <1>1, <1>2

(* Ones add up to the number of elements. *)
LEMMA SumOnes ==
  ASSUME NEW S, NEW f, IsFiniteSet(S), \A x \in S : f[x] = 1
  PROVE  Numbers(S, f) /\ Sum(S, f) = Cardinality(S)
<1> DEFINE U == Units(S, f)
           g == [x \in S |-> <<x, 1>>]
<1>1. \A u : u \in U <=> \E x \in S : u = <<x, 1>>
  <2>1. \A x \in S : {x} \X (1 .. f[x]) = {<<x, 1>>}
    OBVIOUS
  <2> QED BY <2>1 DEF Units
<1>2. g \in Bijection(S, U)
  <2>1. g \in [S -> U]
    BY <1>1
  <2> QED BY <1>1, <2>1 DEF Bijection, Injection, Surjection, IsInjective
<1>3. Cardinality(U) = Cardinality(S)
  BY <1>2, FS_Bijection DEF ExistsBijection
<1> QED BY <1>3 DEF Numbers, Sum

LEMMA SumScaled ==
  ASSUME NEW S, NEW f, NEW g, NEW c \in Nat, Numbers(S, f), \A x \in S : g[x] = c * f[x]
  PROVE  Sum(S, g) = c * Sum(S, f)
<1>0. Numbers(S, g)
  <2>1. \A x \in S : f[x] \in Nat
    BY DEF Numbers
  <2>2. \A x \in S : g[x] \in Nat
    BY <2>1
  <2> QED BY <2>2 DEF Numbers
<1> DEFINE T == {A \in SUBSET S : Sum(A, g) # c * Sum(A, f)}
<1>1. SUFFICES ASSUME T # {}
               PROVE  FALSE
  OBVIOUS
<1>2. PICK A \in T : \A B \in T : B \subseteq A => B = A
  <2>1. IsFiniteSet(S) /\ T \in SUBSET (SUBSET S)
    BY DEF Numbers
  <2> HIDE DEF T
  <2> QED BY <1>1, <2>1, SmallestSet
<1>3. Numbers(A, f) /\ Numbers(A, g)
  BY <1>0, SumSubset
<1>4. CASE A = {}
  BY <1>4, SumEmpty
<1>5. ASSUME NEW x \in A
      PROVE  FALSE
  <2>1. A \ {x} \notin T
    BY <1>2, <1>5
  <2>2. Sum(A \ {x}, g) = c * Sum(A \ {x}, f)
    BY <2>1
  <2>3. Sum(A, f) = Sum(A \ {x}, f) + f[x] /\ Sum(A, g) = Sum(A \ {x}, g) + g[x]
    BY <1>3, SumRemove
  <2>4. Sum(A \ {x}, f) \in Nat /\ f[x] \in Nat
    BY <1>3, SumSubset, SumType DEF Numbers
  <2>5. c * (Sum(A \ {x}, f) + f[x]) = c * Sum(A \ {x}, f) + c * f[x]
    BY <2>4
  <2>6. Sum(A, g) = c * Sum(A, f)
    BY <2>2, <2>3, <2>5
  <2> QED BY <2>6
<1> QED BY <1>4, <1>5

-----------------------------------------------------------------------------
(* Parts of lists *)

(* s has the elements of t at the positions in P, in their order.          *)
Enumerates(h, s, t, P) ==
  /\ \A i \in DOMAIN s : h[i] \in P /\ s[i] = t[h[i]]
  /\ \A i, j \in DOMAIN s : i < j => h[i] < h[j]
  /\ \A k \in P : \E i \in DOMAIN s : h[i] = k
Lists(s, t, P) == \E h : Enumerates(h, s, t, P)

LEMMA ListsEmpty ==
  ASSUME NEW t
  PROVE  Lists(<<>>, t, {})
BY DEF Lists, Enumerates

(* It depends on the elements at these positions only. *)
LEMMA ListsSame ==
  ASSUME NEW s, NEW t, NEW u, NEW P, Lists(s, t, P), \A k \in P : u[k] = t[k]
  PROVE  Lists(s, u, P)
BY DEF Lists, Enumerates

LEMMA ListsAppend ==
  ASSUME NEW X, NEW s \in Seq(X), NEW t, NEW P \in SUBSET Nat, Lists(s, t, P),
         NEW n \in Nat, \A k \in P : k < n, t[n] \in X
  PROVE  Lists(Append(s, t[n]), t, P \cup {n})
<1> DEFINE new == Append(s, t[n])
           last == Len(s) + 1
<1>1. PICK h : Enumerates(h, s, t, P)
  BY DEF Lists
<1> DEFINE g == [i \in 1 .. last |-> IF i = last THEN n ELSE h[i]]
<1>2. /\ Len(s) \in Nat /\ DOMAIN s = 1 .. Len(s) /\ DOMAIN new = 1 .. last
      /\ new[last] = t[n] /\ \A i \in DOMAIN s : new[i] = s[i]
  OBVIOUS
<1>3. \A i \in DOMAIN new : (i = last /\ g[i] = n) \/ (i \in DOMAIN s /\ g[i] = h[i])
  BY <1>2
<1>4. last \in DOMAIN new /\ g[last] = n /\ \A i \in DOMAIN s : i \in DOMAIN new /\ g[i] = h[i]
  BY <1>2
<1>5. \A i, j \in DOMAIN new : i < j => i \in DOMAIN s
  BY <1>2
<1> HIDE DEF g, new
<1>6. \A i \in DOMAIN new : g[i] \in P \cup {n} /\ new[i] = t[g[i]]
  BY <1>1, <1>2, <1>3 DEF Enumerates
<1>7. ASSUME NEW i \in DOMAIN new, NEW j \in DOMAIN new, i < j
      PROVE  g[i] < g[j]
  <2>1. i \in DOMAIN s /\ g[i] = h[i] /\ h[i] \in P
    BY <1>1, <1>4, <1>5, <1>7 DEF Enumerates
  <2>2. CASE j \in DOMAIN s
    BY <1>1, <1>4, <1>7, <2>1, <2>2 DEF Enumerates
  <2>3. CASE j \notin DOMAIN s
    BY <1>3, <2>1, <2>3
  <2> QED BY <2>2, <2>3
<1>8. \A k \in P \cup {n} : \E i \in DOMAIN new : g[i] = k
  BY <1>1, <1>4 DEF Enumerates
<1>9. Enumerates(g, new, t, P \cup {n})
  BY <1>6, <1>7, <1>8 DEF Enumerates
<1> QED BY <1>9 DEF Lists, new

(* When more positions are listed, all of them behind, those listed before *)
(* keep their places.                                                      *)
LEMMA PlacesKept ==
  ASSUME NEW X, NEW s \in Seq(X), NEW u \in Seq(X), NEW t,
         NEW P \in SUBSET Nat, NEW Q \in SUBSET Nat, P \subseteq Q,
         \A k \in Q \ P, j \in P : j < k,
         NEW h, Enumerates(h, s, t, P), NEW g, Enumerates(g, u, t, Q)
  PROVE  \A i \in DOMAIN s : i \in DOMAIN u /\ g[i] = h[i]
<1>1. /\ Len(s) \in Nat /\ DOMAIN s = 1 .. Len(s)
      /\ Len(u) \in Nat /\ DOMAIN u = 1 .. Len(u)
  OBVIOUS
<1> DEFINE Bad == {i \in DOMAIN s : ~(i \in DOMAIN u /\ g[i] = h[i])}
<1>2. Bad = {}
  <2> SUFFICES ASSUME Bad # {} PROVE FALSE
    OBVIOUS
  <2>1. PICK b \in Bad : \A i \in Bad : b <= i
    <3>1. Bad \in SUBSET Nat
      BY <1>1
    <3> HIDE DEF Bad
    <3> QED BY <3>1, SmallestNumber
  <2>2. b \in DOMAIN s /\ b \in Nat /\ ~(b \in DOMAIN u /\ g[b] = h[b])
    BY <1>1
  <2>3. \A i \in DOMAIN s : i < b => i \in DOMAIN u /\ g[i] = h[i]
    <3>1. \A i \in DOMAIN s : i < b => i \notin Bad
      <4> HIDE DEF Bad
      <4> QED BY <1>1, <2>1, <2>2
    <3> QED BY <3>1
  <2> HIDE DEF Bad
  <2>4. /\ \A i \in DOMAIN s : h[i] \in P /\ h[i] \in Nat
        /\ \A i \in DOMAIN u : g[i] \in Q /\ g[i] \in Nat
    BY DEF Enumerates
  <2>5. PICK j \in DOMAIN u : g[j] = h[b]
    BY <2>2, <2>4 DEF Enumerates
  <2>6. ~(j < b)
    <3> SUFFICES ASSUME j < b PROVE FALSE
      OBVIOUS
    <3>1. j \in DOMAIN s
      BY <1>1, <2>2
    <3>2. h[j] = h[b] /\ h[j] < h[b]
      BY <2>2, <2>3, <2>5, <3>1 DEF Enumerates
    <3> QED BY <2>2, <2>4, <3>2
  <2>7. b \in DOMAIN u /\ b < j
    BY <1>1, <2>2, <2>5, <2>6
  <2>8. g[b] < h[b]
    BY <2>5, <2>7 DEF Enumerates
  <2>9. g[b] \in P
    <3>1. h[b] \in P /\ g[b] \in Q /\ h[b] \in Nat /\ g[b] \in Nat
      BY <2>2, <2>4, <2>7
    <3> QED BY <2>8, <3>1
  <2>10. PICK i \in DOMAIN s : h[i] = g[b]
    BY <2>9 DEF Enumerates
  <2>11. i < b
    <3>1. ~(b < i) /\ i # b
      BY <2>2, <2>4, <2>8, <2>10 DEF Enumerates
    <3> QED BY <1>1, <2>2, <3>1
  <2>12. g[i] = g[b] /\ g[i] < g[b]
    BY <2>3, <2>7, <2>10, <2>11 DEF Enumerates
  <2> QED BY <2>4, <2>7, <2>12
<1> QED BY <1>2

(* A list of more positions, all of them behind, continues the shorter     *)
(* list.                                                                   *)
LEMMA ListsContinue ==
  ASSUME NEW X, NEW s \in Seq(X), NEW u \in Seq(X), NEW t,
         NEW P \in SUBSET Nat, NEW Q \in SUBSET Nat, P \subseteq Q,
         \A k \in Q \ P, j \in P : j < k,
         Lists(s, t, P), Lists(u, t, Q)
  PROVE  Len(s) <= Len(u) /\ SubSeq(u, 1, Len(s)) = s
<1>1. PICK h : Enumerates(h, s, t, P)
  BY DEF Lists
<1>2. PICK g : Enumerates(g, u, t, Q)
  BY DEF Lists
<1>3. /\ Len(s) \in Nat /\ DOMAIN s = 1 .. Len(s)
      /\ Len(u) \in Nat /\ DOMAIN u = 1 .. Len(u)
  OBVIOUS
<1>4. \A i \in DOMAIN s : i \in DOMAIN u /\ g[i] = h[i]
  BY <1>1, <1>2, PlacesKept
<1>5. \A i \in DOMAIN s : u[i] = s[i]
  BY <1>1, <1>2, <1>4 DEF Enumerates
<1>6. Len(s) <= Len(u)
  BY <1>3, <1>4
<1>7. SubSeq(u, 1, Len(s)) = s
  BY <1>3, <1>5, <1>6
<1> QED BY <1>6, <1>7

(* Each position has its place. *)
LEMMA EachHasPlace ==
  ASSUME NEW P \in SUBSET Nat, IsFiniteSet(P)
  PROVE  /\ Cardinality(P) \in Nat
         /\ \A n \in 1 .. Cardinality(P) : Place(P, n) \in P
         /\ \A m, n \in 1 .. Cardinality(P) : m < n => Place(P, m) < Place(P, n)
         /\ \A k \in P : \E n \in 1 .. Cardinality(P) : Place(P, n) = k
<1> DEFINE U(k) == {j \in P : j <= k}
           r(k) == Cardinality(U(k))
           N == Cardinality(P)
<1>1. \A k \in P : IsFiniteSet(U(k)) /\ r(k) \in Nat /\ r(k) <= N
  BY FS_Subset, FS_CardinalityType
<1>2. N \in Nat
  BY FS_CardinalityType
<1>3. \A k \in P : r(k) # 0
  <2> SUFFICES ASSUME NEW k \in P, r(k) = 0 PROVE FALSE
    OBVIOUS
  <2>1. U(k) = {}
    BY <1>1, FS_EmptySet
  <2> QED BY <2>1
<1>4. \A j, k \in P : j < k => r(j) < r(k)
  <2> SUFFICES ASSUME NEW j \in P, NEW k \in P, j < k PROVE r(j) < r(k)
    OBVIOUS
  <2>1. U(j) \in SUBSET U(k) /\ k \in U(k) /\ k \notin U(j)
    <3>1. j \in Nat /\ k \in Nat /\ \A i \in P : i \in Nat
      OBVIOUS
    <3>2. \A i \in P : i <= j => i <= k
      BY <3>1
    <3>3. k <= k /\ ~(k <= j)
      BY <3>1
    <3> QED BY <3>2, <3>3
  <2>2. r(j) <= r(k) /\ (r(k) = r(j) => U(k) = U(j))
    BY <1>1, <2>1, FS_Subset
  <2> QED BY <1>1, <2>1, <2>2
<1> DEFINE f == [k \in P |-> r(k)]
<1>5. \A k \in P : r(k) \in 1 .. N
  BY <1>1, <1>2, <1>3
<1> HIDE DEF U, r
<1>6. \A j, k \in P : j # k => r(j) # r(k)
  <2> SUFFICES ASSUME NEW j \in P, NEW k \in P, j # k PROVE r(j) # r(k)
    OBVIOUS
  <2>1. j < k \/ k < j
    OBVIOUS
  <2> QED BY <1>1, <1>4, <2>1
<1>7. f \in Injection(P, 1 .. N)
  BY <1>5, <1>6 DEF Injection, IsInjective
<1>8. f \in Surjection(P, 1 .. N)
  <2>1. IsFiniteSet(1 .. N) /\ Cardinality(1 .. N) = N
    BY <1>2, FS_Interval
  <2> HIDE DEF f
  <2> QED BY <1>7, <2>1, FS_Injection
<1>9. \A n \in 1 .. N : \E k \in P : r(k) = n
  BY <1>8 DEF Surjection
<1>10. \A n \in 1 .. N : Place(P, n) \in P /\ r(Place(P, n)) = n
  BY <1>9 DEF Place, r, U
<1> HIDE DEF f, N
<1>11. \A m, n \in 1 .. N : m < n => Place(P, m) < Place(P, n)
  <2> SUFFICES ASSUME NEW m \in 1 .. N, NEW n \in 1 .. N, m < n,
                      ~(Place(P, m) < Place(P, n))
               PROVE  FALSE
    OBVIOUS
  <2>1. PICK j \in P : j = Place(P, m) /\ r(j) = m
    BY <1>10
  <2>2. PICK k \in P : k = Place(P, n) /\ r(k) = n
    BY <1>10
  <2>3. k < j \/ k = j
    BY <2>1, <2>2
  <2>4. r(k) <= r(j)
    BY <1>1, <1>4, <2>3
  <2> QED BY <2>1, <2>2, <2>4
<1>12. \A k \in P : r(k) \in 1 .. N /\ Place(P, r(k)) = k
  <2> SUFFICES ASSUME NEW k \in P PROVE r(k) \in 1 .. N /\ Place(P, r(k)) = k
    OBVIOUS
  <2>1. Place(P, r(k)) \in P /\ r(Place(P, r(k))) = r(k)
    BY <1>5, <1>10
  <2> QED BY <1>5, <1>6, <2>1
<1> QED BY <1>2, <1>10, <1>11, <1>12 DEF N

(* Only takes the elements at these positions, each of them, in order. *)
LEMMA OnlyLists ==
  ASSUME NEW X, NEW s \in Seq(X), NEW P \in SUBSET (DOMAIN s)
  PROVE  Only(s, P) \in Seq(X) /\ Lists(Only(s, P), s, P)
<1>1. P \in SUBSET Nat /\ IsFiniteSet(P)
  <2>1. DOMAIN s = 1 .. Len(s) /\ Len(s) \in Nat
    OBVIOUS
  <2>2. IsFiniteSet(1 .. Len(s))
    BY <2>1, FS_Interval
  <2> QED BY <2>1, <2>2, FS_Subset
<1> DEFINE N == Cardinality(P)
           g == [n \in 1 .. N |-> Place(P, n)]
<1>2. /\ N \in Nat
      /\ \A n \in 1 .. N : Place(P, n) \in P
      /\ \A m, n \in 1 .. N : m < n => Place(P, m) < Place(P, n)
      /\ \A k \in P : \E n \in 1 .. N : Place(P, n) = k
  BY <1>1, EachHasPlace
<1>3. Only(s, P) = [n \in 1 .. N |-> s[Place(P, n)]]
  BY DEF Only
<1> HIDE DEF N
<1>4. \A n \in 1 .. N : s[Place(P, n)] \in X
  BY <1>2
<1>5. Only(s, P) \in Seq(X)
  BY <1>2, <1>3, <1>4
<1>6. DOMAIN Only(s, P) = 1 .. N
  BY <1>3
<1>7. Enumerates(g, Only(s, P), s, P)
  BY <1>2, <1>3, <1>6 DEF Enumerates
<1> QED BY <1>5, <1>7 DEF Lists

-----------------------------------------------------------------------------
(* Bundles *)

(* Every card has a last card of its bundle, itself or a later one. *)
LEMMA BundleEnds ==
  ASSUME NEW cards, Len(cards) \in Nat, NEW i \in 1 .. Len(cards)
  PROVE  /\ LastOfBundle(cards, i) \in i .. Len(cards)
         /\ \A k \in i .. LastOfBundle(cards, i) - 1 :
              cards[k].txid = cards[k + 1].txid /\ cards[k].sender = cards[k + 1].sender
         /\ LastOfBundle(cards, i) < Len(cards) =>
              \/ cards[LastOfBundle(cards, i)].txid # cards[LastOfBundle(cards, i) + 1].txid
              \/ cards[LastOfBundle(cards, i)].sender # cards[LastOfBundle(cards, i) + 1].sender
<1> DEFINE Goes(k) == cards[k].txid = cards[k + 1].txid /\ cards[k].sender = cards[k + 1].sender
           Stops == {j \in i .. Len(cards) : j < Len(cards) => ~Goes(j)}
<1>1. Stops \in SUBSET Nat /\ Stops # {}
  <2>1. Len(cards) \in Stops
    OBVIOUS
  <2> QED BY <2>1
<1>2. PICK j \in Stops : \A k \in Stops : j <= k
  <2> HIDE DEF Stops
  <2> QED BY <1>1, SmallestNumber
<1>3. j \in i .. Len(cards) /\ (j < Len(cards) => ~Goes(j))
  OBVIOUS
<1>4. \A k \in i .. j - 1 : Goes(k)
  <2> SUFFICES ASSUME NEW k \in i .. j - 1 PROVE Goes(k)
    OBVIOUS
  <2>1. k \in i .. Len(cards) /\ k < Len(cards) /\ k < j
    BY <1>3
  <2>2. k \notin Stops
    <3> HIDE DEF Stops
    <3> QED BY <1>2, <1>3, <2>1
  <2> QED BY <2>1, <2>2
<1>5. \E l \in i .. Len(cards) :
        /\ \A k \in i .. l - 1 : /\ cards[k].txid = cards[k + 1].txid
                                 /\ cards[k].sender = cards[k + 1].sender
        /\ l < Len(cards) => \/ cards[l].txid # cards[l + 1].txid
                             \/ cards[l].sender # cards[l + 1].sender
  BY <1>3, <1>4
<1> QED BY <1>5 DEF LastOfBundle

(* Cards in the order of their transactions, each with one sender. *)
ByTransaction(cards) ==
  /\ \A k \in 1 .. Len(cards) : cards[k].txid \in Nat
  /\ \A k, l \in 1 .. Len(cards) :
       /\ k < l => cards[k].txid <= cards[l].txid
       /\ cards[k].txid = cards[l].txid => cards[k].sender = cards[l].sender

(* The bundle of a card consists of the rest of its transaction's cards. *)
LEMMA BundleOfTransaction ==
  ASSUME NEW cards, Len(cards) \in Nat, ByTransaction(cards), NEW i \in 1 .. Len(cards),
         NEW k \in i .. Len(cards)
  PROVE  cards[k].txid = cards[i].txid <=> k <= LastOfBundle(cards, i)
<1> DEFINE last == LastOfBundle(cards, i)
           t(l) == cards[l].txid
<1>1. /\ last \in i .. Len(cards)
      /\ \A l \in i .. last - 1 : t(l) = t(l + 1)
      /\ last < Len(cards) => t(last) # t(last + 1) \/ cards[last].sender # cards[last + 1].sender
  BY BundleEnds
<1>2. /\ \A l \in i .. Len(cards) : t(l) \in Nat
      /\ \A l, n \in i .. Len(cards) : l < n => t(l) <= t(n)
      /\ \A l, n \in i .. Len(cards) : t(l) = t(n) => cards[l].sender = cards[n].sender
  BY DEF ByTransaction
<1> HIDE DEF last, t
<1>3. \A l \in i .. last : t(l) = t(i)
  <2> DEFINE Bad == {l \in i .. last : t(l) # t(i)}
  <2>1. SUFFICES ASSUME Bad # {} PROVE FALSE
    OBVIOUS
  <2>2. PICK l \in Bad : \A n \in Bad : l <= n
    <3>1. Bad \in SUBSET Nat
      OBVIOUS
    <3> HIDE DEF Bad
    <3> QED BY <2>1, <3>1, SmallestNumber
  <2>3. l \in i .. last /\ t(l) # t(i) /\ l # i
    OBVIOUS
  <2>4. l - 1 \in i .. last - 1 /\ (l - 1) + 1 = l
    BY <1>1, <2>3
  <2>5. l - 1 \notin Bad
    <3> HIDE DEF Bad
    <3> QED BY <2>2, <2>4
  <2>6. t(l - 1) = t(i)
    BY <1>1, <2>4, <2>5
  <2>7. t(l - 1) = t(l)
    BY <1>1, <2>4
  <2> QED BY <2>3, <2>6, <2>7
<1>4. ASSUME last < k
      PROVE  t(k) # t(i)
  <2>1. last \in i .. Len(cards) /\ last + 1 \in i .. Len(cards) /\ last < Len(cards)
    BY <1>1, <1>4
  <2>2. t(last) # t(last + 1) /\ t(last) <= t(last + 1)
    BY <1>1, <1>2, <2>1
  <2>3. t(last + 1) <= t(k)
    BY <1>2, <1>4, <2>1, SMTT(30)
  <2>4. t(last) = t(i)
    BY <1>3, <2>1
  <2>5. t(last) \in Nat /\ t(last + 1) \in Nat /\ t(k) \in Nat
    BY <1>2, <2>1
  <2> QED BY <2>2, <2>3, <2>4, <2>5
<1>5. k <= last => t(k) = t(i)
  BY <1>1, <1>3
<1>6. k <= last \/ last < k
  BY <1>1
<1>7. last = LastOfBundle(cards, i) /\ t(k) = cards[k].txid /\ t(i) = cards[i].txid
  BY DEF last, t
<1> QED BY <1>1, <1>4, <1>5, <1>6, <1>7

LEMMA PositionType ==
  ASSUME NEW cards, Len(cards) \in Nat, NEW i \in 1 .. Len(cards), NEW last \in Nat
  PROVE  ProcessedPosition(cards, i, last) \in Nat
BY BundleEnds DEF ProcessedPosition

-----------------------------------------------------------------------------
(* The generator *)

(* The cards of a transaction are all issues or none of them is. *)
OneType(cards) ==
  \A k, l \in 1 .. Len(cards) :
    cards[k].txid = cards[l].txid => (cards[k].type = "CardIssue" <=> cards[l].type = "CardIssue")

(* When it has yielded n cards, process_cards_by_bundle remembers the last *)
(* card of the transaction, if the n-th card was an issue, and else a      *)
(* position that is behind it.                                             *)
Remembers(cards, n, last) ==
  /\ last \in Nat \ {0}
  /\ IF n # 0 /\ cards[n].type = "CardIssue"
     THEN /\ last \in n .. Len(cards)
          /\ cards[last].txid = cards[n].txid
          /\ last < Len(cards) => cards[last + 1].txid # cards[last].txid
     ELSE last <= n + 1

(* Between two cards of a transaction there are only cards of it. *)
LEMMA Between ==
  ASSUME NEW cards, Len(cards) \in Nat, ByTransaction(cards),
         NEW i \in 1 .. Len(cards), NEW j \in 1 .. Len(cards), NEW k \in i .. j,
         cards[i].txid = cards[j].txid
  PROVE  k \in 1 .. Len(cards) /\ cards[k].txid = cards[i].txid
<1>1. k \in 1 .. Len(cards) /\ (k = i \/ i < k) /\ (k = j \/ k < j)
  OBVIOUS
<1>2. (k = i \/ cards[i].txid <= cards[k].txid) /\ (k = j \/ cards[k].txid <= cards[j].txid)
  BY <1>1 DEF ByTransaction
<1>3. cards[i].txid \in Nat /\ cards[k].txid \in Nat /\ cards[j].txid \in Nat
  BY <1>1 DEF ByTransaction
<1> QED BY <1>1, <1>2, <1>3

(* A card is the first of its transaction if the one before it is of       *)
(* another.                                                                *)
LEMMA FirstOfTransaction ==
  ASSUME NEW cards, Len(cards) \in Nat, ByTransaction(cards), NEW i \in 1 .. Len(cards),
         i # 1 => cards[i - 1].txid # cards[i].txid,
         NEW j \in 1 .. Len(cards), j < i
  PROVE  cards[j].txid # cards[i].txid
<1>1. i - 1 \in j .. i /\ i # 1
  OBVIOUS
<1> QED BY <1>1, Between

LEMMA RemembersNext ==
  ASSUME NEW cards, Len(cards) \in Nat, ByTransaction(cards), OneType(cards),
         NEW n \in Nat, n < Len(cards), NEW last, Remembers(cards, n, last)
  PROVE  Remembers(cards, n + 1, ProcessedPosition(cards, n + 1, last))
<1> DEFINE i == n + 1
           next == ProcessedPosition(cards, i, last)
           end == LastOfBundle(cards, i)
<1>1. /\ i \in 1 .. Len(cards) /\ i \in Nat /\ i # 0
      /\ n # 0 => n \in 1 .. Len(cards)
  OBVIOUS
<1>2. last \in Nat \ {0}
  BY DEF Remembers
<1>3. CASE cards[i].type = "CardIssue" /\ i >= last
  <2>1. next = end
    BY <1>3 DEF ProcessedPosition, BundleAt
  <2>2. end \in i .. Len(cards)
    BY <1>1, BundleEnds
  <2>3. \A k \in i .. Len(cards) : cards[k].txid = cards[i].txid <=> k <= end
    BY <1>1, BundleOfTransaction
  <2> HIDE DEF next, end
  <2>4. cards[end].txid = cards[i].txid
    BY <1>1, <2>2, <2>3
  <2>5. end < Len(cards) => end + 1 \in i .. Len(cards) /\ ~(end + 1 <= end)
    BY <1>1, <2>2
  <2>6. end < Len(cards) => cards[end + 1].txid # cards[i].txid
    BY <2>3, <2>5
  <2>7. end \in Nat \ {0}
    BY <1>1, <2>2
  <2>8. Remembers(cards, i, end)
    BY <1>1, <1>3, <2>2, <2>4, <2>6, <2>7 DEF Remembers
  <2> QED BY <2>1, <2>8 DEF next
<1>4. CASE cards[i].type = "CardIssue" /\ i < last
  <2>1. next = last
    BY <1>1, <1>2, <1>4 DEF ProcessedPosition, BundleAt
  <2>2. /\ n # 0 /\ last \in n .. Len(cards) /\ cards[last].txid = cards[n].txid
        /\ last < Len(cards) => cards[last + 1].txid # cards[last].txid
    BY <1>1, <1>2, <1>4 DEF Remembers
  <2>3. last \in 1 .. Len(cards) /\ i \in n .. last /\ last \in i .. Len(cards)
    BY <1>1, <1>4, <2>2
  <2>4. cards[i].txid = cards[n].txid
    BY <1>1, <2>2, <2>3, Between
  <2> HIDE DEF next, i
  <2>5. Remembers(cards, i, last)
    BY <1>1, <1>2, <1>4, <2>2, <2>3, <2>4 DEF Remembers
  <2> QED BY <2>1, <2>5 DEF next, i
<1>5. CASE cards[i].type # "CardIssue"
  <2>1. next = last
    BY <1>5 DEF ProcessedPosition, BundleAt
  <2>2. last <= i + 1
    <3>1. CASE n # 0 /\ cards[n].type = "CardIssue"
      <4>1. last \in n .. Len(cards) /\ cards[last].txid = cards[n].txid
        BY <3>1 DEF Remembers
      <4>2. ASSUME last >= i
            PROVE  FALSE
        <5>1. last \in 1 .. Len(cards) /\ i \in n .. last /\ n \in 1 .. Len(cards)
          BY <1>1, <3>1, <4>1, <4>2
        <5>2. cards[i].txid = cards[n].txid
          BY <4>1, <5>1, Between
        <5> QED BY <1>1, <1>5, <3>1, <5>1, <5>2 DEF OneType
      <4> QED BY <1>1, <1>2, <4>2
    <3>2. CASE ~(n # 0 /\ cards[n].type = "CardIssue")
      <4>1. last <= n + 1
        BY <3>2 DEF Remembers
      <4> QED BY <1>1, <1>2, <4>1
    <3> QED BY <3>1, <3>2
  <2> HIDE DEF next, i
  <2>3. Remembers(cards, i, last)
    BY <1>1, <1>2, <1>5, <2>2 DEF Remembers
  <2> QED BY <2>1, <2>3 DEF next, i
<1> QED BY <1>1, <1>2, <1>3, <1>4, <1>5

(* One remembered position is enough to yield, for every transaction, the  *)
(* whole bundle with its first card and nothing with the others.           *)
LEMMA BundleFound ==
  ASSUME NEW cards, Len(cards) \in Nat, ByTransaction(cards), OneType(cards),
         NEW n \in Nat, n < Len(cards), NEW last, Remembers(cards, n, last)
  PROVE  BundleAmount(cards, n + 1, last) =
           IF /\ cards[n + 1].type = "CardIssue"
              /\ n # 0 => cards[n].txid # cards[n + 1].txid
              /\ LastOfBundle(cards, n + 1) # n + 1
           THEN BundleValue(cards, n + 1) ELSE NoBundle
<1> DEFINE i == n + 1
           end == LastOfBundle(cards, i)
<1>1. /\ i \in 1 .. Len(cards) /\ i \in Nat /\ i # 0 /\ i - 1 = n
      /\ n # 0 => n \in 1 .. Len(cards)
  OBVIOUS
<1>2. last \in Nat \ {0}
  BY DEF Remembers
<1>3. /\ end \in i .. Len(cards)
      /\ \A k \in i .. Len(cards) : cards[k].txid = cards[i].txid <=> k <= end
  BY <1>1, BundleEnds, BundleOfTransaction
<1>4. CASE cards[i].type # "CardIssue"
  BY <1>4 DEF BundleAmount, BundleAt
<1>5. CASE cards[i].type = "CardIssue" /\ (n # 0 => cards[n].txid # cards[i].txid)
  <2>1. i >= last
    <3>1. CASE n # 0 /\ cards[n].type = "CardIssue"
      <4>1. last \in n .. Len(cards) /\ cards[last].txid = cards[n].txid
        BY <3>1 DEF Remembers
      <4>2. ASSUME last > i
            PROVE  FALSE
        <5>1. last \in 1 .. Len(cards) /\ i \in n .. last /\ n \in 1 .. Len(cards)
          BY <1>1, <3>1, <4>1, <4>2
        <5>2. cards[i].txid = cards[n].txid
          BY <4>1, <5>1, Between
        <5> QED BY <1>5, <3>1, <5>2
      <4> QED BY <1>1, <1>2, <4>2
    <3>2. CASE ~(n # 0 /\ cards[n].type = "CardIssue")
      BY <1>1, <1>2, <3>2 DEF Remembers
    <3> QED BY <3>1, <3>2
  <2>2. BundleAt(cards, i, last)
    BY <1>5, <2>1 DEF BundleAt
  <2> QED BY <1>5, <2>2 DEF BundleAmount
<1>6. CASE cards[i].type = "CardIssue" /\ n # 0 /\ cards[n].txid = cards[i].txid
  <2>1. cards[n].type = "CardIssue"
    BY <1>1, <1>6 DEF OneType
  <2>2. /\ last \in n .. Len(cards) /\ cards[last].txid = cards[n].txid
        /\ last < Len(cards) => cards[last + 1].txid # cards[last].txid
    BY <1>6, <2>1 DEF Remembers
  <2>3. last # n
    BY <1>1, <1>6, <2>2
  <2>4. last >= i
    BY <1>1, <2>2, <2>3
  <2>5. ASSUME last = i, end # i
        PROVE  FALSE
    <3> HIDE DEF end
    <3>1. i + 1 \in i .. Len(cards) /\ i + 1 <= end /\ i < Len(cards)
      BY <1>1, <1>3, <2>5
    <3> QED BY <1>3, <2>2, <2>5, <3>1
  <2>6. last > i => ~BundleAt(cards, i, last)
    BY <1>1, <1>2 DEF BundleAt
  <2>7. ~BundleAt(cards, i, last) \/ end = i
    BY <1>1, <1>2, <2>4, <2>5, <2>6
  <2> QED BY <1>6, <2>7 DEF BundleAmount
<1> QED BY <1>4, <1>5, <1>6

=============================================================================
