----------------------------- MODULE Induction -----------------------------
(***************************************************************************)
(* Induction for the proofs of this project.  The library states it for an *)
(* operator; here the property is the set of the numbers, or of the finite *)
(* sets, that have it, which the provers can instantiate, and likewise the *)
(* step of a recursive definition is a function.  The last part is about   *)
(* sums over finite sets.                                                  *)
(***************************************************************************)
EXTENDS Integers, FiniteSetTheorems, TLAPS

(* A set of natural numbers that is not empty has a least element.         *)
LEMMA NatLeast ==
    ASSUME NEW T, T \subseteq Nat, T # {}
    PROVE  \E x \in T : \A y \in T : x <= y
<1>1. \E x \in T : \A y \in T : ~ (<<y, x>> \in OpToRel(<, Nat))
  BY NatLessThanWellFounded, WFMin
<1>2. PICK x \in T : \A y \in T : ~(y < x)
  BY <1>1 DEF OpToRel
<1>3. \A y \in T : x <= y
  BY <1>2
<1>4. QED
  BY <1>3

(* Induction: a set with 0 and with the successor of each of its elements  *)
(* has all natural numbers.                                                *)
LEMMA NatInduct ==
    ASSUME NEW S, S \subseteq Nat, 0 \in S, \A n \in S : n + 1 \in S
    PROVE  S = Nat
<1> DEFINE T == Nat \ S
<1>1. SUFFICES ASSUME T # {} PROVE FALSE
  OBVIOUS
<1>2. PICK x \in T : \A y \in T : x <= y
  <2>1. T \subseteq Nat
    OBVIOUS
  <2> HIDE DEF T
  <2>2. QED
    BY <1>1, <2>1, NatLeast
<1>3. x \in Nat /\ x # 0
  BY <1>2
<1>4. x - 1 \in Nat /\ ~(x <= x - 1) /\ (x - 1) + 1 = x
  BY <1>3
<1>5. x - 1 \in S
  BY <1>2, <1>4
<1>6. QED
  BY <1>2, <1>4, <1>5

(* h is defined by recursion on 0 .. n: base at 0, and g of the place and  *)
(* the value before it elsewhere.                                          *)
Recursive(h, n, V, base, g) ==
    /\ h \in [0 .. n -> V]
    /\ h[0] = base
    /\ \A i \in 1 .. n : h[i] = g[<<i, h[i - 1]>>]

(* Such a function exists.                                                 *)
LEMMA RecursionExists ==
    ASSUME NEW n \in Nat, NEW V, NEW base \in V, NEW g \in [Nat \X V -> V]
    PROVE  \E h : Recursive(h, n, V, base, g)
<1> DEFINE Rec(h, k) == Recursive(h, k, V, base, g)
           S == {k \in Nat : \E h : Rec(h, k)}
<1> USE DEF Recursive
<1>1. 0 \in S
  <2>1. Rec([i \in 0 .. 0 |-> base], 0)
    OBVIOUS
  <2>2. QED
    BY <2>1
<1>2. ASSUME NEW k \in S PROVE k + 1 \in S
  <2>1. k \in Nat /\ \E h : Rec(h, k)
    OBVIOUS
  <2>2. PICK h : Rec(h, k)
    BY <2>1
  <2> DEFINE f == [i \in 0 .. k + 1 |-> IF i = k + 1 THEN g[<<k + 1, h[k]>>] ELSE h[i]]
  <2>3. h[k] \in V /\ k + 1 \in Nat
    BY <2>1, <2>2
  <2>4. g[<<k + 1, h[k]>>] \in V
    BY <2>3
  <2>5. f \in [0 .. k + 1 -> V]
    BY <2>1, <2>2, <2>4
  <2>6. f[0] = base
    BY <2>1, <2>2
  <2>7. ASSUME NEW i \in 1 .. k + 1 PROVE f[i] = g[<<i, f[i - 1]>>]
    <3>1. CASE i = k + 1
      <4>1. i - 1 = k /\ k \in 0 .. k + 1 /\ k # k + 1 /\ k + 1 \in 0 .. k + 1
        BY <3>1, <2>1
      <4>2. f[k] = h[k] /\ f[k + 1] = g[<<k + 1, h[k]>>]
        BY <4>1
      <4>3. QED
        BY <3>1, <4>1, <4>2
    <3>2. CASE i # k + 1
      <4>1. /\ i \in 1 .. k /\ i \in 0 .. k + 1
            /\ i - 1 \in 0 .. k + 1 /\ i - 1 # k + 1
        BY <3>2, <2>1
      <4>2. f[i] = h[i] /\ f[i - 1] = h[i - 1]
        BY <3>2, <4>1
      <4>3. h[i] = g[<<i, h[i - 1]>>]
        BY <2>2, <4>1
      <4>4. QED
        BY <4>2, <4>3
    <3>3. QED
      BY <3>1, <3>2
  <2>8. Rec(f, k + 1)
    BY <2>5, <2>6, <2>7
  <2>9. QED
    BY <2>3, <2>5, <2>8
<1>3. S = Nat
  <2>1. S \subseteq Nat
    OBVIOUS
  <2> HIDE DEF S
  <2>2. QED
    BY <1>1, <1>2, <2>1, NatInduct
<1>4. n \in S
  BY <1>3
<1>5. QED
  BY <1>4

(* What satisfies the equations of such a definition, as long as its       *)
(* values are in V, is defined by it, and its values are in V.             *)
LEMMA RecursionTyped ==
    ASSUME NEW n \in Nat, NEW V, NEW base \in V, NEW g \in [Nat \X V -> V],
           NEW h, h = [i \in 0 .. n |-> h[i]], h[0] = base,
           \A i \in 1 .. n : h[i - 1] \in V => h[i] = g[<<i, h[i - 1]>>]
    PROVE  Recursive(h, n, V, base, g)
<1> DEFINE P == {i \in Nat : i \in 0 .. n => h[i] \in V}
<1>1. 0 \in P
  OBVIOUS
<1>2. ASSUME NEW i \in P PROVE i + 1 \in P
  <2>1. SUFFICES ASSUME i + 1 \in 0 .. n PROVE h[i + 1] \in V
    OBVIOUS
  <2>2. i \in Nat /\ i \in 0 .. n /\ (i + 1) - 1 = i /\ i + 1 \in 1 .. n /\ i + 1 \in Nat
    BY <2>1
  <2>3. h[i] \in V
    BY <2>2
  <2>4. h[i + 1] = g[<<i + 1, h[i]>>]
    BY <2>2, <2>3
  <2>5. <<i + 1, h[i]>> \in Nat \X V
    BY <2>2, <2>3
  <2>6. QED
    BY <2>4, <2>5
<1>3. P = Nat
  <2>1. P \subseteq Nat
    OBVIOUS
  <2> HIDE DEF P
  <2>2. QED
    BY <1>1, <1>2, <2>1, NatInduct
<1>4. \A i \in 0 .. n : h[i] \in V
  BY <1>3
<1>5. h \in [0 .. n -> V]
  BY <1>4
<1>6. \A i \in 1 .. n : h[i] = g[<<i, h[i - 1]>>]
  <2>1. \A i \in 1 .. n : i - 1 \in 0 .. n
    OBVIOUS
  <2>2. QED
    BY <1>4, <2>1
<1>7. QED
  BY <1>5, <1>6 DEF Recursive

-----------------------------------------------------------------------------
(* Sums.  MapThenSumSet(LAMBDA x : f[x], S) takes the elements of S in the *)
(* order of CHOOSE; Total is the same sum for a function.                  *)

(* The element that CHOOSE takes from a set.                               *)
Some(s) == CHOOSE x \in s : TRUE

(* h is the table of the sums of f over the subsets of S.                  *)
IsSum(h, f, S) ==
    h = [s \in SUBSET S |-> IF s = {} THEN 0 ELSE f[Some(s)] + h[s \ {Some(s)}]]

(* The sum of the values of f.                                             *)
Total(f) == (CHOOSE h : IsSum(h, f, DOMAIN f))[DOMAIN f]

(* Induction on the size of the subsets of a finite set.                   *)
LEMMA SubsetInduct ==
    ASSUME NEW S, IsFiniteSet(S), NEW P, {} \in P,
           \A s \in SUBSET S : (s # {} /\ \A x \in s : s \ {x} \in P) => s \in P
    PROVE  \A s \in SUBSET S : s \in P
<1> DEFINE N == {n \in Nat : \A s \in SUBSET S : Cardinality(s) = n => s \in P}
<1>1. \A s \in SUBSET S : IsFiniteSet(s) /\ Cardinality(s) \in Nat
  BY FS_Subset, FS_CardinalityType
<1>2. 0 \in N
  BY <1>1, FS_EmptySet
<1>3. ASSUME NEW n \in N PROVE n + 1 \in N
  <2>1. n \in Nat /\ \A s \in SUBSET S : Cardinality(s) = n => s \in P
    OBVIOUS
  <2>2. ASSUME NEW s \in SUBSET S, Cardinality(s) = n + 1 PROVE s \in P
    <3>1. s # {}
      <4>1. Cardinality({}) = 0 /\ n + 1 # 0
        BY <2>1, FS_EmptySet
      <4>2. QED
        BY <2>2, <4>1
    <3>2. ASSUME NEW x \in s PROVE s \ {x} \in P
      <4>1. Cardinality(s \ {x}) = Cardinality(s) - 1
        BY <1>1, FS_RemoveElement
      <4>2. QED
        BY <2>1, <2>2, <4>1
    <3>3. QED
      BY <3>1, <3>2
  <2>3. QED
    BY <2>1, <2>2
<1>4. N = Nat
  <2>1. N \subseteq Nat
    OBVIOUS
  <2> HIDE DEF N
  <2>2. QED
    BY <1>2, <1>3, <2>1, NatInduct
<1>5. QED
  BY <1>1, <1>4

(* It is an element of the set.                                            *)
LEMMA SomeIn ==
    ASSUME NEW s, s # {}
    PROVE  Some(s) \in s
  BY DEF Some

(* The sums of f over the subsets of S, in order of their size: after n    *)
(* rounds the sums over the subsets of at most n elements are right.       *)
LEMMA SumExists ==
    ASSUME NEW S, IsFiniteSet(S), NEW f \in [S -> Int]
    PROVE  \E h \in [SUBSET S -> Int] : IsSum(h, f, S)
<1> DEFINE V == [SUBSET S -> Int]
           Round(v) == [s \in SUBSET S |->
                          IF s = {} THEN 0 ELSE f[Some(s)] + v[s \ {Some(s)}]]
           base == [s \in SUBSET S |-> 0]
           g == [q \in Nat \X V |-> Round(q[2])]
           n == Cardinality(S)
<1>1. \A s \in SUBSET S : /\ IsFiniteSet(s) /\ Cardinality(s) \in Nat
                          /\ Cardinality(s) <= n
  BY FS_Subset, FS_CardinalityType
<1>2. n \in Nat
  BY FS_CardinalityType
<1>3. \A s \in SUBSET S : s # {} => /\ Some(s) \in s
                                    /\ Some(s) \in S
                                    /\ s \ {Some(s)} \in SUBSET S
                                    /\ Cardinality(s \ {Some(s)}) = Cardinality(s) - 1
  BY <1>1, SomeIn, FS_RemoveElement
<1>4. ASSUME NEW v \in V PROVE Round(v) \in V
  <2>1. ASSUME NEW s \in SUBSET S, s # {}
        PROVE  f[Some(s)] + v[s \ {Some(s)}] \in Int
    <3>1. f[Some(s)] \in Int /\ v[s \ {Some(s)}] \in Int
      BY <1>3, <2>1
    <3>2. QED
      BY <3>1
  <2>2. QED
    BY <2>1
<1>5. base \in V
  OBVIOUS
<1>6. g \in [Nat \X V -> V]
  <2> HIDE DEF V, Round
  <2>1. QED
    BY <1>4
<1>7. PICK H : Recursive(H, n, V, base, g)
  <2> HIDE DEF V, g, base, n
  <2>1. QED
    BY <1>2, <1>5, <1>6, RecursionExists
<1>8. /\ \A i \in 0 .. n : H[i] \in V
      /\ \A i \in 1 .. n : H[i] = Round(H[i - 1])
  <2>1. H \in [0 .. n -> V] /\ \A i \in 1 .. n : H[i] = g[<<i, H[i - 1]>>]
    <3> HIDE DEF V, g, base, n
    <3>1. QED
      BY <1>7 DEF Recursive
  <2> HIDE DEF V, Round, n
  <2>2. \A i \in 1 .. n : i \in Nat /\ H[i - 1] \in V
    BY <1>2, <2>1
  <2>3. QED
    BY <2>1, <2>2
<1> HIDE DEF n
<1>9. \A s \in SUBSET S : \A i \in 0 .. n - 1 :
         Cardinality(s) <= i => H[i][s] = H[i + 1][s]
  <2> DEFINE Q == {s \in SUBSET S : \A i \in 0 .. n - 1 :
                      Cardinality(s) <= i => H[i][s] = H[i + 1][s]}
  <2>1. {} \in Q
    <3>1. ASSUME NEW i \in 0 .. n - 1 PROVE H[i][{}] = 0 /\ H[i + 1][{}] = 0
      <4>1. i + 1 \in 1 .. n
        BY <1>2
      <4>2. H[i + 1][{}] = 0
        BY <1>8, <4>1
      <4>3. CASE i = 0
        BY <4>2, <4>3, <1>7 DEF Recursive
      <4>4. CASE i # 0
        <5>1. i \in 1 .. n
          BY <4>4, <1>2
        <5>2. QED
          BY <1>8, <5>1, <4>2
      <4>5. QED
        BY <4>3, <4>4
    <3>2. QED
      BY <3>1
  <2>2. ASSUME NEW s \in SUBSET S, s # {}, \A x \in s : s \ {x} \in Q
        PROVE  s \in Q
    <3>1. ASSUME NEW i \in 0 .. n - 1, Cardinality(s) <= i
          PROVE  H[i][s] = H[i + 1][s]
      <4> DEFINE c == Some(s)
                 r == s \ {c}
      <4>1. /\ c \in s /\ r \in SUBSET S /\ r \in Q
            /\ Cardinality(r) = Cardinality(s) - 1
        BY <1>3, <2>2
      <4>2. Cardinality(s) \in Nat /\ Cardinality(r) \in Nat
        BY <1>1, <4>1
      <4>3. /\ i \in 1 .. n /\ i + 1 \in 1 .. n /\ i - 1 \in 0 .. n - 1
            /\ Cardinality(r) <= i - 1 /\ (i - 1) + 1 = i /\ (i + 1) - 1 = i
        BY <1>2, <3>1, <4>1, <4>2
      <4>4. H[i] = Round(H[i - 1]) /\ H[i + 1] = Round(H[i])
        BY <1>8, <4>3
      <4>5. H[i][s] = f[c] + H[i - 1][r] /\ H[i + 1][s] = f[c] + H[i][r]
        BY <2>2, <4>4
      <4>6. H[i - 1][r] = H[i][r]
        <5> HIDE DEF c, r
        <5>1. \A j \in 0 .. n - 1 : Cardinality(r) <= j => H[j][r] = H[j + 1][r]
          BY <4>1
        <5>2. QED
          BY <4>3, <5>1
      <4>7. QED
        BY <4>5, <4>6
    <3>2. QED
      BY <3>1
  <2>3. \A s \in SUBSET S : s \in Q
    <3> HIDE DEF Q
    <3>1. QED
      BY <2>1, <2>2, SubsetInduct
  <2>4. QED
    BY <2>3
<1>10. H[n] \in V /\ IsSum(H[n], f, S)
  <2>1. n \in 0 .. n /\ H[n] \in V
    <3> HIDE DEF V, Round
    <3>1. QED
      BY <1>2, <1>8
  <2>2. ASSUME NEW s \in SUBSET S
        PROVE  H[n][s] = IF s = {} THEN 0 ELSE f[Some(s)] + H[n][s \ {Some(s)}]
    <3>1. CASE n = 0
      <4>1. s = {}
        BY <1>1, <3>1, FS_EmptySet
      <4>2. QED
        BY <1>7, <3>1, <4>1 DEF Recursive
    <3>2. CASE n # 0 /\ s = {}
      <4>1. n \in 1 .. n
        BY <1>2, <3>2
      <4>2. QED
        BY <1>8, <3>2, <4>1
    <3>3. CASE n # 0 /\ s # {}
      <4> DEFINE r == s \ {Some(s)}
      <4>1. n \in 1 .. n /\ n - 1 \in 0 .. n - 1 /\ (n - 1) + 1 = n
        BY <1>2, <3>3
      <4>2. H[n][s] = f[Some(s)] + H[n - 1][r]
        BY <1>8, <3>3, <4>1
      <4>3. /\ r \in SUBSET S /\ Cardinality(r) = Cardinality(s) - 1
            /\ Cardinality(s) \in Nat /\ Cardinality(s) <= n
        BY <1>1, <1>3, <3>3
      <4>4. Cardinality(r) <= n - 1
        BY <1>2, <4>3
      <4> HIDE DEF r
      <4>5. H[n - 1][r] = H[n][r]
        BY <1>9, <4>1, <4>3, <4>4
      <4>6. QED
        BY <3>3, <4>2, <4>5 DEF r
    <3>4. QED
      BY <3>1, <3>2, <3>3
  <2>3. QED
    BY <2>1, <2>2 DEF IsSum
<1>11. QED
  BY <1>10

(* Two tables of sums agree where their functions do.                      *)
LEMMA SumAgree ==
    ASSUME NEW S, IsFiniteSet(S), NEW T \in SUBSET S, NEW f, NEW g, NEW h, NEW k,
           IsSum(h, f, S), IsSum(k, g, T), \A x \in T : f[x] = g[x]
    PROVE  \A s \in SUBSET T : h[s] = k[s]
<1> DEFINE P == {s \in SUBSET T : h[s] = k[s]}
<1>1. IsFiniteSet(T)
  BY FS_Subset
<1>2. /\ \A s \in SUBSET S : h[s] = IF s = {} THEN 0 ELSE f[Some(s)] + h[s \ {Some(s)}]
      /\ \A s \in SUBSET T : k[s] = IF s = {} THEN 0 ELSE g[Some(s)] + k[s \ {Some(s)}]
  <2>1. \A s \in SUBSET S : h[s] = IF s = {} THEN 0 ELSE f[Some(s)] + h[s \ {Some(s)}]
    BY DEF IsSum
  <2>2. \A s \in SUBSET T : k[s] = IF s = {} THEN 0 ELSE g[Some(s)] + k[s \ {Some(s)}]
    BY DEF IsSum
  <2>3. QED
    BY <2>1, <2>2
<1>3. {} \in P
  BY <1>2
<1>4. ASSUME NEW s \in SUBSET T, s # {}, \A x \in s : s \ {x} \in P
      PROVE  s \in P
  <2>1. Some(s) \in s
    BY <1>4, SomeIn
  <2>2. h[s \ {Some(s)}] = k[s \ {Some(s)}] /\ f[Some(s)] = g[Some(s)]
    BY <1>4, <2>1
  <2>3. s \in SUBSET S
    OBVIOUS
  <2>4. h[s] = k[s]
    BY <1>2, <1>4, <2>2, <2>3
  <2>5. QED
    BY <2>4
<1>5. \A s \in SUBSET T : s \in P
  <2> HIDE DEF P
  <2>1. QED
    BY <1>1, <1>3, <1>4, SubsetInduct
<1>6. QED
  BY <1>5

(* The order of the elements does not matter.                              *)
AnyOrder(h, f, S) ==
    \A s \in SUBSET S : \A x \in s : h[s] = f[x] + h[s \ {x}]

(* The table of the sums of integers is such a table.                      *)
LEMMA SumAny ==
    ASSUME NEW S, IsFiniteSet(S), NEW f \in [S -> Int],
           NEW h \in [SUBSET S -> Int], IsSum(h, f, S)
    PROVE  AnyOrder(h, f, S)
<1> DEFINE P == {s \in SUBSET S : \A x \in s : h[s] = f[x] + h[s \ {x}]}
<1>1. \A s \in SUBSET S : s # {} => h[s] = f[Some(s)] + h[s \ {Some(s)}]
  BY DEF IsSum
<1>2. {} \in P
  OBVIOUS
<1>3. ASSUME NEW s \in SUBSET S, s # {}, \A x \in s : s \ {x} \in P
      PROVE  s \in P
  <2> DEFINE c == Some(s)
  <2>1. c \in s /\ h[s] = f[c] + h[s \ {c}]
    BY <1>1, <1>3, SomeIn
  <2> HIDE DEF c
  <2>2. ASSUME NEW x \in s PROVE h[s] = f[x] + h[s \ {x}]
    <3>1. CASE x = c
      BY <2>1, <3>1
    <3>2. CASE x # c
      <4> DEFINE r == (s \ {c}) \ {x}
      <4>1. r = (s \ {x}) \ {c} /\ r \in SUBSET S
        OBVIOUS
      <4>2. x \in s \ {c} /\ c \in s \ {x} /\ s \ {c} \in P /\ s \ {x} \in P
        BY <1>3, <2>1, <3>2
      <4>3. h[s \ {c}] = f[x] + h[r]
        BY <4>2
      <4>4. h[s \ {x}] = f[c] + h[r]
        <5>1. h[s \ {x}] = f[c] + h[(s \ {x}) \ {c}]
          BY <4>2
        <5>2. QED
          BY <4>1, <5>1
      <4> HIDE DEF r
      <4>5. f[x] \in Int /\ f[c] \in Int /\ h[r] \in Int
        BY <2>1, <4>1
      <4>6. QED
        BY <2>1, <4>3, <4>4, <4>5
    <3>3. QED
      BY <3>1, <3>2
  <2>3. QED
    BY <2>2
<1>4. \A s \in SUBSET S : s \in P
  <2> HIDE DEF P
  <2>1. QED
    BY <1>2, <1>3, SubsetInduct
<1>5. QED
  BY <1>4 DEF AnyOrder

(* One table has the totals of f and of its restrictions.                  *)
IsTable(h, f, S) ==
    /\ h \in [SUBSET S -> Int]
    /\ Total(f) = h[S]
    /\ \A T \in SUBSET S : Total([x \in T |-> f[x]]) = h[T]
    /\ h[{}] = 0
    /\ AnyOrder(h, f, S)

(* There is such a table for every function on a finite set.               *)
LEMMA TotalTable ==
    ASSUME NEW S, IsFiniteSet(S), NEW f \in [S -> Int]
    PROVE  \E h : IsTable(h, f, S)
<1>1. PICK h \in [SUBSET S -> Int] : IsSum(h, f, S)
  BY SumExists
<1>2. ASSUME NEW T \in SUBSET S PROVE Total([x \in T |-> f[x]]) = h[T]
  <2> DEFINE g == [x \in T |-> f[x]]
             k == CHOOSE k : IsSum(k, g, T)
  <2>1. g \in [T -> Int] /\ DOMAIN g = T /\ \A x \in T : f[x] = g[x]
    OBVIOUS
  <2> HIDE DEF g
  <2>2. \E j : IsSum(j, g, T)
    BY <2>1, SumExists, FS_Subset
  <2>3. IsSum(k, g, T)
    BY <2>2
  <2>4. Total(g) = k[T]
    BY <2>1 DEF Total
  <2> HIDE DEF k
  <2>5. h[T] = k[T]
    BY <1>1, <2>1, <2>3, SumAgree
  <2>6. QED
    BY <2>4, <2>5 DEF g
<1>3. Total(f) = h[S]
  <2>1. f = [x \in S |-> f[x]]
    OBVIOUS
  <2>2. QED
    BY <1>2, <2>1
<1>4. h[{}] = 0
  BY <1>1 DEF IsSum
<1>5. AnyOrder(h, f, S)
  BY <1>1, SumAny
<1>6. QED
  BY <1>1, <1>2, <1>3, <1>4, <1>5 DEF IsTable

(* The total of a function is that of any one value and the others.        *)
LEMMA TotalStep ==
    ASSUME NEW S, IsFiniteSet(S), NEW f \in [S -> Int], NEW x \in S
    PROVE  Total(f) = f[x] + Total([y \in S \ {x} |-> f[y]])
<1>0. PICK h : IsTable(h, f, S)
  BY TotalTable
<1>1. /\ h \in [SUBSET S -> Int]
      /\ Total(f) = h[S]
      /\ h[{}] = 0
      /\ \A T \in SUBSET S : Total([y \in T |-> f[y]]) = h[T]
      /\ \A s \in SUBSET S : \A y \in s : h[s] = f[y] + h[s \ {y}]
  BY <1>0 DEF IsTable, AnyOrder
<1>2. Total([y \in S \ {x} |-> f[y]]) = h[S \ {x}]
  BY <1>1
<1>3. h[S] = f[x] + h[S \ {x}]
  BY <1>1
<1>4. QED
  BY <1>1, <1>2, <1>3

(* The total of numbers is a number, and of zeros it is zero.              *)
LEMMA TotalType ==
    ASSUME NEW S, IsFiniteSet(S), NEW f \in [S -> Int]
    PROVE  /\ Total(f) \in Int
           /\ (\A x \in S : f[x] = 0) => Total(f) = 0
<1>0. PICK h : IsTable(h, f, S)
  BY TotalTable
<1>1. /\ h \in [SUBSET S -> Int]
      /\ Total(f) = h[S]
      /\ h[{}] = 0
      /\ \A T \in SUBSET S : Total([y \in T |-> f[y]]) = h[T]
      /\ \A s \in SUBSET S : \A y \in s : h[s] = f[y] + h[s \ {y}]
  BY <1>0 DEF IsTable, AnyOrder
<1>2. Total(f) \in Int
  BY <1>1
<1>3. ASSUME \A x \in S : f[x] = 0 PROVE h[S] = 0
  <2> DEFINE P == {s \in SUBSET S : h[s] = 0}
  <2>1. {} \in P
    BY <1>1
  <2>2. ASSUME NEW s \in SUBSET S, s # {}, \A x \in s : s \ {x} \in P
        PROVE  s \in P
    <3>1. PICK x : x \in s
      BY <2>2
    <3>2. h[s] = f[x] + h[s \ {x}] /\ f[x] = 0 /\ h[s \ {x}] = 0
      BY <1>1, <1>3, <2>2, <3>1
    <3>3. QED
      BY <3>2
  <2>3. \A s \in SUBSET S : s \in P
    <3> HIDE DEF P
    <3>1. QED
      BY <2>1, <2>2, SubsetInduct
  <2>4. QED
    BY <2>3
<1>4. QED
  BY <1>1, <1>2, <1>3

(* The total over two parts is the sum of their totals.                    *)
LEMMA TotalSplit ==
    ASSUME NEW S, IsFiniteSet(S), NEW f \in [S -> Int], NEW E \in SUBSET S
    PROVE  Total(f) = Total([x \in E |-> f[x]]) + Total([x \in S \ E |-> f[x]])
<1>0. PICK h : IsTable(h, f, S)
  BY TotalTable
<1>1. /\ h \in [SUBSET S -> Int]
      /\ Total(f) = h[S]
      /\ h[{}] = 0
      /\ \A T \in SUBSET S : Total([y \in T |-> f[y]]) = h[T]
      /\ \A s \in SUBSET S : \A y \in s : h[s] = f[y] + h[s \ {y}]
  BY <1>0 DEF IsTable, AnyOrder
<1> DEFINE P == {s \in SUBSET E : h[s \cup (S \ E)] = h[s] + h[S \ E]}
<1>2. {} \in P
  <2>1. {} \cup (S \ E) = S \ E /\ h[S \ E] \in Int
    BY <1>1
  <2>2. QED
    BY <1>1, <2>1
<1>3. ASSUME NEW s \in SUBSET E, s # {}, \A x \in s : s \ {x} \in P
      PROVE  s \in P
  <2>1. PICK x : x \in s
    BY <1>3
  <2> DEFINE r == s \ {x}
             w == s \cup (S \ E)
  <2>2. w \in SUBSET S /\ x \in w /\ w \ {x} = r \cup (S \ E) /\ r \in SUBSET S /\ s \in SUBSET S
    BY <2>1
  <2>3. h[w] = f[x] + h[w \ {x}] /\ h[s] = f[x] + h[r]
    BY <1>1, <2>1, <2>2
  <2>4. h[r \cup (S \ E)] = h[r] + h[S \ E]
    BY <1>3, <2>1
  <2>5. f[x] \in Int /\ h[r] \in Int /\ h[S \ E] \in Int
    BY <1>1, <2>1, <2>2
  <2>6. h[w] = h[s] + h[S \ E]
    <3>1. h[w] = f[x] + (h[r] + h[S \ E])
      BY <2>2, <2>3, <2>4
    <3> HIDE DEF r, w
    <3>2. QED
      BY <2>3, <2>5, <3>1
  <2>7. QED
    BY <2>6
<1>4. IsFiniteSet(E)
  BY FS_Subset
<1>5. \A s \in SUBSET E : s \in P
  <2> HIDE DEF P
  <2>1. QED
    BY <1>2, <1>3, <1>4, SubsetInduct
<1>6. E \cup (S \ E) = S
  OBVIOUS
<1>7. h[S] = h[E] + h[S \ E]
  BY <1>5, <1>6
<1>8. S \ E \in SUBSET S
  OBVIOUS
<1>9. QED
  BY <1>1, <1>7, <1>8

(* A change of one value changes the total by as much.                     *)
LEMMA TotalChange ==
    ASSUME NEW S, IsFiniteSet(S), NEW f \in [S -> Int], NEW x \in S, NEW n \in Int,
           NEW g \in [S -> Int], g[x] = f[x] + n, \A y \in S \ {x} : g[y] = f[y]
    PROVE  Total(g) = Total(f) + n
<1> DEFINE r == [y \in S \ {x} |-> f[y]]
<1>1. Total(f) = f[x] + Total(r)
  BY TotalStep
<1>2. Total(g) = g[x] + Total([y \in S \ {x} |-> g[y]])
  BY TotalStep
<1>3. [y \in S \ {x} |-> g[y]] = r
  OBVIOUS
<1>4. Total(r) \in Int
  <2>1. IsFiniteSet(S \ {x}) /\ r \in [S \ {x} -> Int]
    BY FS_Subset
  <2> HIDE DEF r
  <2>2. QED
    BY <2>1, TotalType
<1>5. f[x] \in Int
  OBVIOUS
<1> HIDE DEF r
<1>6. QED
  BY <1>1, <1>2, <1>3, <1>4, <1>5

(* The total of natural numbers is one.                                    *)
LEMMA TotalNat ==
    ASSUME NEW S, IsFiniteSet(S), NEW f \in [S -> Nat]
    PROVE  Total(f) \in Nat
<1>1. f \in [S -> Int]
  OBVIOUS
<1>2. PICK h : IsTable(h, f, S)
  BY <1>1, TotalTable
<1>3. /\ Total(f) = h[S]
      /\ h[{}] = 0
      /\ \A s \in SUBSET S : \A y \in s : h[s] = f[y] + h[s \ {y}]
  BY <1>2 DEF IsTable, AnyOrder
<1> DEFINE P == {s \in SUBSET S : h[s] \in Nat}
<1>4. {} \in P
  BY <1>3
<1>5. ASSUME NEW s \in SUBSET S, s # {}, \A x \in s : s \ {x} \in P
      PROVE  s \in P
  <2>1. PICK x : x \in s
    BY <1>5
  <2>2. h[s] = f[x] + h[s \ {x}] /\ f[x] \in Nat /\ h[s \ {x}] \in Nat
    BY <1>3, <1>5, <2>1
  <2>3. QED
    BY <2>2
<1>6. \A s \in SUBSET S : s \in P
  <2> HIDE DEF P
  <2>1. QED
    BY <1>4, <1>5, SubsetInduct
<1>7. QED
  BY <1>3, <1>6

(* Counters, one for each class of things: counting every thing of E in    *)
(* its class adds the size of E to the total.                              *)
LEMMA TotalCount ==
    ASSUME NEW C, IsFiniteSet(C), NEW e \in [C -> Int],
           NEW E, IsFiniteSet(E), NEW class \in [E -> C]
    PROVE  Total([c \in C |-> e[c] + Cardinality({x \in E : class[x] = c})])
             = Total(e) + Cardinality(E)
<1> DEFINE In(s, c) == {x \in s : class[x] = c}
           D(s) == [c \in C |-> e[c] + Cardinality(In(s, c))]
           P == {s \in SUBSET E : Total(D(s)) = Total(e) + Cardinality(s)}
<1>1. \A s \in SUBSET E : IsFiniteSet(s) /\ Cardinality(s) \in Nat
  BY FS_Subset, FS_CardinalityType
<1>2. ASSUME NEW s \in SUBSET E
      PROVE  \A c \in C : In(s, c) \in SUBSET E /\ Cardinality(In(s, c)) \in Nat
  <2>1. \A c \in C : In(s, c) \in SUBSET E
    OBVIOUS
  <2> HIDE DEF In
  <2>2. QED
    BY <1>1, <2>1
<1>3. ASSUME NEW s \in SUBSET E PROVE D(s) \in [C -> Int]
  <2> HIDE DEF In
  <2>1. QED
    BY <1>2
<1>4. Total(e) \in Int
  BY TotalType
<1>5. {} \in P
  <2>1. Cardinality({}) = 0
    BY FS_EmptySet
  <2>2. \A c \in C : In({}, c) = {} /\ e[c] \in Int
    OBVIOUS
  <2>3. \A c \in C : e[c] + Cardinality(In({}, c)) = e[c]
    BY <2>1, <2>2
  <2>4. D({}) = e
    BY <2>3
  <2>5. Total(D({})) = Total(e) + Cardinality({})
    BY <1>4, <2>1, <2>4
  <2>6. QED
    BY <2>5
<1>6. ASSUME NEW s \in SUBSET E, s # {}, \A x \in s : s \ {x} \in P
      PROVE  s \in P
  <2>1. PICK x : x \in s
    BY <1>6
  <2> DEFINE r == s \ {x}
  <2>2. r \in SUBSET E /\ x \in E /\ class[x] \in C /\ x \notin r /\ s = r \cup {x}
    BY <2>1
  <2>3. Total(D(r)) = Total(e) + Cardinality(r)
    BY <1>6, <2>1
  <2>4. Cardinality(s) = Cardinality(r) + 1 /\ Cardinality(r) \in Nat
    BY <1>1, <2>2, FS_AddElement
  <2>5. In(s, class[x]) = In(r, class[x]) \cup {x} /\ x \notin In(r, class[x])
    BY <2>1
  <2>6. \A c \in C \ {class[x]} : In(s, c) = In(r, c)
    OBVIOUS
  <2>7. Cardinality(In(s, class[x])) = Cardinality(In(r, class[x])) + 1
    <3>1. IsFiniteSet(In(r, class[x]))
      <4>1. In(r, class[x]) \in SUBSET E
        OBVIOUS
      <4> HIDE DEF In, r
      <4>2. QED
        BY <1>1, <4>1
    <3> HIDE DEF In, r
    <3>2. QED
      BY <2>5, <3>1, FS_AddElement
  <2> HIDE DEF r
  <2>8. D(r) \in [C -> Int] /\ D(s) \in [C -> Int]
    BY <1>3, <2>2
  <2>9. D(s)[class[x]] = D(r)[class[x]] + 1
    <3>1. /\ Cardinality(In(r, class[x])) \in Nat /\ e[class[x]] \in Int
      BY <1>2, <2>2
    <3> HIDE DEF In
    <3>2. QED
      BY <2>2, <2>7, <3>1
  <2>10. \A c \in C \ {class[x]} : D(s)[c] = D(r)[c]
    <3> HIDE DEF In
    <3>1. QED
      BY <2>6
  <2> HIDE DEF D
  <2>11. Total(D(s)) = Total(D(r)) + 1
    <3>1. PICK a, b, y : a = D(s) /\ b = D(r) /\ y = class[x]
      OBVIOUS
    <3>2. a \in [C -> Int] /\ b \in [C -> Int]
      BY <2>8, <3>1
    <3>3. y \in C
      BY <2>2, <3>1
    <3>4. a[y] = b[y] + 1
      BY <2>9, <3>1
    <3>5. \A c \in C \ {y} : a[c] = b[c]
      BY <2>10, <3>1
    <3>6. Total(a) = Total(b) + 1
      BY <3>2, <3>3, <3>4, <3>5, TotalChange
    <3>7. QED
      BY <3>1, <3>6
  <2>12. Total(D(s)) = Total(e) + Cardinality(s)
    BY <1>4, <2>3, <2>4, <2>11
  <2>13. QED
    BY <2>12
<1>7. \A s \in SUBSET E : s \in P
  <2> HIDE DEF P
  <2>1. QED
    BY <1>5, <1>6, SubsetInduct
<1>8. Total(D(E)) = Total(e) + Cardinality(E)
  BY <1>7
<1>9. QED
  BY <1>8

=============================================================================
