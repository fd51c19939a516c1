-------------------------- MODULE CollectorProofs --------------------------
(***************************************************************************)
(* Proofs about module Collector: the table of peers, the output queue and *)
(* the clock of the log socket keep what they promise, for every set of    *)
(* sources, every table size, every size of the output queue and every     *)
(* sequence of datagrams, signals and reconfigurations.                    *)
(***************************************************************************)
EXTENDS Collector, Induction, SequenceTheorems, TLAPS

-----------------------------------------------------------------------------
(* Lists of peers *)

(* Inserting a new source at the head of a list of distinct sources        *)
LEMMA InsertHead ==
    ASSUME NEW S, NEW list \in Seq(S), NEW s \in S
    PROVE  LET new == <<s>> \o list
           IN  /\ new \in Seq(S)
               /\ Len(new) = Len(list) + 1
               /\ new[1] = s
               /\ \A i \in 2 .. Len(list) + 1 : new[i] = list[i - 1]
               /\ Range(new) = Range(list) \cup {s}
               /\ IsInjective(list) /\ s \notin Range(list) => IsInjective(new)
<1> DEFINE new == <<s>> \o list
<1>1. /\ new \in Seq(S)
      /\ Len(new) = Len(list) + 1
      /\ new[1] = s
      /\ \A i \in 2 .. Len(list) + 1 : new[i] = list[i - 1]
  OBVIOUS
<1> HIDE DEF new
<1>2. DOMAIN new = 1 .. Len(list) + 1 /\ DOMAIN list = 1 .. Len(list) /\ Len(list) \in Nat
  BY <1>1
<1>3. Range(new) = Range(list) \cup {s}
  <2>1. ASSUME NEW x \in Range(new) PROVE x \in Range(list) \cup {s}
    <3>1. PICK i \in 1 .. Len(list) + 1 : x = new[i]
      BY <1>2 DEF Range
    <3>2. CASE i = 1
      BY <1>1, <3>1, <3>2
    <3>3. CASE i # 1
      BY <1>1, <1>2, <3>1, <3>3 DEF Range
    <3>4. QED
      BY <3>2, <3>3
  <2>2. ASSUME NEW x \in Range(list) PROVE x \in Range(new)
    <3>1. PICK i \in 1 .. Len(list) : x = list[i]
      BY <1>2 DEF Range
    <3>2. i + 1 \in 2 .. Len(list) + 1 /\ i + 1 \in 1 .. Len(list) + 1 /\ (i + 1) - 1 = i
      BY <1>2
    <3>3. new[i + 1] = list[i]
      BY <1>1, <3>2
    <3>4. QED
      BY <1>2, <3>1, <3>2, <3>3 DEF Range
  <2>3. s \in Range(new)
    BY <1>1, <1>2 DEF Range
  <2>4. QED
    BY <2>1, <2>2, <2>3
<1>4. ASSUME IsInjective(list), s \notin Range(list) PROVE IsInjective(new)
  <2>1. SUFFICES ASSUME NEW a \in 1 .. Len(list) + 1, NEW b \in 1 .. Len(list) + 1,
                        new[a] = new[b]
                 PROVE  a = b
    BY <1>2 DEF IsInjective
  <2>2. ASSUME NEW i \in 2 .. Len(list) + 1
        PROVE  i - 1 \in DOMAIN list /\ new[i] = list[i - 1] /\ new[i] # s
    <3>1. i - 1 \in DOMAIN list
      BY <1>2
    <3>2. new[i] = list[i - 1]
      BY <1>1
    <3>3. QED
      BY <1>4, <3>1, <3>2 DEF Range
  <2>3. CASE a = 1
    BY <1>1, <1>2, <2>1, <2>2, <2>3
  <2>4. CASE b = 1
    BY <1>1, <1>2, <2>1, <2>2, <2>4
  <2>5. CASE a # 1 /\ b # 1
    <3>1. a \in 2 .. Len(list) + 1 /\ b \in 2 .. Len(list) + 1
      BY <1>2, <2>5
    <3>2. a - 1 = b - 1
      BY <1>4, <2>1, <2>2, <3>1 DEF IsInjective
    <3>3. QED
      BY <3>1, <3>2, <1>2
  <2>6. QED
    BY <2>3, <2>4, <2>5
<1>5. QED
  BY <1>1, <1>3, <1>4 DEF new

(* Taking a source out of the list: what is left is the rest.              *)
LEMMA TakeOut ==
    ASSUME NEW S, NEW list \in Seq(S), IsInjective(list), NEW k \in DOMAIN list
    PROVE  /\ RemoveAt(list, k) \in Seq(S)
           /\ Len(RemoveAt(list, k)) = Len(list) - 1
           /\ Range(RemoveAt(list, k)) = Range(list) \ {list[k]}
           /\ IsInjective(RemoveAt(list, k))
<1> DEFINE rest == RemoveAt(list, k)
           from(i) == IF i < k THEN i ELSE i + 1
<1>1. k \in 1 .. Len(list) /\ Len(list) \in Nat /\ DOMAIN list = 1 .. Len(list)
  OBVIOUS
<1>2. /\ rest \in Seq(S)
      /\ Len(rest) = Len(list) - 1
      /\ \A i \in 1 .. Len(list) - 1 : rest[i] = list[from(i)]
  <2> DEFINE a == SubSeq(list, 1, k - 1)
             b == SubSeq(list, k + 1, Len(list))
  <2>1. a \in Seq(S) /\ Len(a) = k - 1 /\ \A i \in 1 .. k - 1 : a[i] = list[i]
    BY <1>1
  <2>2. /\ b \in Seq(S) /\ Len(b) = Len(list) - k
        /\ \A i \in 1 .. Len(list) - k : b[i] = list[k + i]
    BY <1>1
  <2> HIDE DEF a, b
  <2>3. /\ a \o b \in Seq(S)
        /\ Len(a \o b) = Len(list) - 1
        /\ \A i \in 1 .. k - 1 : (a \o b)[i] = a[i]
        /\ \A i \in k .. Len(list) - 1 : (a \o b)[i] = b[i - (k - 1)]
    <3>1. /\ a \o b \in Seq(S)
          /\ Len(a \o b) = Len(a) + Len(b)
          /\ \A i \in 1 .. Len(a) + Len(b) :
                (a \o b)[i] = IF i <= Len(a) THEN a[i] ELSE b[i - Len(a)]
      BY <2>1, <2>2, ConcatProperties
    <3>2. QED
      <4>1. Len(a) + Len(b) = Len(list) - 1
        BY <1>1, <2>1, <2>2
      <4>2. ASSUME NEW i \in 1 .. k - 1 PROVE (a \o b)[i] = a[i]
        BY <1>1, <2>1, <3>1, <4>1
      <4>3. ASSUME NEW i \in k .. Len(list) - 1 PROVE (a \o b)[i] = b[i - (k - 1)]
        BY <1>1, <2>1, <3>1, <4>1
      <4>4. QED
        BY <3>1, <4>1, <4>2, <4>3
  <2>4. \A i \in k .. Len(list) - 1 : (a \o b)[i] = list[i + 1]
    BY <1>1, <2>2, <2>3
  <2>5. rest = a \o b
    BY DEF RemoveAt, a, b
  <2> HIDE DEF rest
  <2>6. ASSUME NEW i \in 1 .. Len(list) - 1 PROVE rest[i] = list[from(i)]
    <3>1. CASE i < k
      <4>1. i \in 1 .. k - 1 /\ from(i) = i
        BY <1>1, <3>1
      <4>2. QED
        BY <2>1, <2>3, <2>5, <4>1
    <3>2. CASE ~(i < k)
      <4>1. i \in k .. Len(list) - 1 /\ from(i) = i + 1
        BY <1>1, <3>2
      <4>2. QED
        BY <2>4, <2>5, <4>1
    <3>3. QED
      BY <3>1, <3>2
  <2>7. QED
    BY <2>3, <2>5, <2>6
<1> HIDE DEF rest
<1>3. DOMAIN rest = 1 .. Len(list) - 1
  BY <1>2
<1>4. \A i \in 1 .. Len(list) - 1 : from(i) \in 1 .. Len(list) /\ from(i) # k
  BY <1>1
<1>5. \A i, j \in 1 .. Len(list) - 1 : from(i) = from(j) => i = j
  BY <1>1
<1>6. ASSUME NEW n \in 1 .. Len(list), n # k
      PROVE  \E i \in 1 .. Len(list) - 1 : from(i) = n
  <2>1. CASE n < k
    <3>1. n \in 1 .. Len(list) - 1 /\ from(n) = n
      BY <1>1, <2>1
    <3>2. QED
      BY <3>1
  <2>2. CASE n > k
    <3>1. n - 1 \in 1 .. Len(list) - 1 /\ from(n - 1) = n
      BY <1>1, <2>2
    <3>2. QED
      BY <3>1
  <2>3. QED
    BY <1>1, <1>6, <2>1, <2>2
<1> HIDE DEF from
<1>7. Range(rest) = Range(list) \ {list[k]}
  <2>1. ASSUME NEW x \in Range(rest) PROVE x \in Range(list) \ {list[k]}
    <3>1. PICK i \in 1 .. Len(list) - 1 : x = rest[i]
      BY <1>3 DEF Range
    <3>2. x = list[from(i)]
      BY <1>2, <3>1
    <3>3. QED
      BY <1>1, <1>4, <3>2 DEF Range, IsInjective
  <2>2. ASSUME NEW x \in Range(list), x # list[k] PROVE x \in Range(rest)
    <3>1. PICK n \in 1 .. Len(list) : x = list[n]
      BY <1>1 DEF Range
    <3>2. PICK i \in 1 .. Len(list) - 1 : from(i) = n
      BY <1>6, <2>2, <3>1
    <3>3. QED
      BY <1>2, <1>3, <3>1, <3>2 DEF Range
  <2>3. QED
    BY <2>1, <2>2
<1>8. IsInjective(rest)
  <2>1. ASSUME NEW i \in 1 .. Len(list) - 1, NEW j \in 1 .. Len(list) - 1, rest[i] = rest[j]
        PROVE  i = j
    <3>1. list[from(i)] = list[from(j)] /\ from(i) \in DOMAIN list /\ from(j) \in DOMAIN list
      BY <1>1, <1>2, <1>4, <2>1
    <3>2. from(i) = from(j)
      BY <3>1 DEF IsInjective
    <3>3. QED
      BY <1>5, <3>2
  <2>2. QED
    BY <1>3, <2>1 DEF IsInjective
<1>9. QED
  BY <1>2, <1>7, <1>8 DEF rest

(* Dropping the last source of the list                                    *)
LEMMA DropLast ==
    ASSUME NEW S, NEW list \in Seq(S), IsInjective(list), list # <<>>
    PROVE  /\ Front(list) \in Seq(S)
           /\ Len(Front(list)) = Len(list) - 1
           /\ Range(Front(list)) \subseteq Range(list)
           /\ IsInjective(Front(list))
<1>1. /\ Front(list) \in Seq(S)
      /\ Len(Front(list)) = Len(list) - 1
      /\ \A i \in 1 .. Len(list) - 1 : Front(list)[i] = list[i]
  <2>1. Len(list) \in Nat \ {0}
    OBVIOUS
  <2>2. \A i \in 1 .. Len(list) - 1 : list[i] \in S
    BY <2>1
  <2> DEFINE m == Len(list) - 1
  <2>3. /\ SubSeq(list, 1, m) \in Seq(S)
        /\ Len(SubSeq(list, 1, m)) = IF 1 <= m THEN m - 1 + 1 ELSE 0
        /\ \A i \in 1 .. m - 1 + 1 : SubSeq(list, 1, m)[i] = list[1 + i - 1]
    <3>1. m \in Int /\ 1 \in Int /\ \A i \in 1 .. m : list[i] \in S
      BY <2>1, <2>2
    <3> HIDE DEF m
    <3>2. QED
      BY <3>1, SubSeqProperties
  <2>4. Len(list) - 1 - 1 + 1 = Len(list) - 1
        /\ (1 <= Len(list) - 1 \/ Len(list) - 1 = 0)
    BY <2>1
  <2>5. Front(list) = SubSeq(list, 1, m)
    BY DEF Front
  <2> HIDE DEF m
  <2>6. m = Len(list) - 1 /\ \A i \in 1 .. m : 1 + i - 1 = i
    BY <2>1 DEF m
  <2>7. QED
    BY <2>1, <2>3, <2>4, <2>5, <2>6
<1>2. DOMAIN Front(list) = 1 .. Len(list) - 1 /\ DOMAIN list = 1 .. Len(list)
  BY <1>1
<1>3. \A i \in 1 .. Len(list) - 1 : i \in 1 .. Len(list)
  OBVIOUS
<1>4. QED
  BY <1>1, <1>2, <1>3 DEF Range, IsInjective

(* f has, for each place of the list, what the walk of scrub_peers keeps   *)
(* up to it.                                                               *)
Walk(f, list, A, S) ==
    /\ f \in [0 .. Len(list) -> Seq(S)]
    /\ f[0] = <<>>
    /\ \A i \in 1 .. Len(list) :
          f[i] = IF list[i] \in A THEN Append(f[i - 1], list[i]) ELSE f[i - 1]

(* The walk of scrub_peers is well defined ...                             *)
LEMMA KeptDefined ==
    ASSUME NEW S, NEW list \in Seq(S), NEW A
    PROVE  \E f : Walk(f, list, A, S) /\ Kept(list, A) = f[Len(list)]
<1> DEFINE n == Len(list)
           Step(f) == [i \in 0 .. n |->
                        IF i = 0 THEN <<>>
                        ELSE IF list[i] \in A THEN Append(f[i - 1], list[i])
                        ELSE f[i - 1]]
           g == [x \in Nat \X Seq(S) |->
                    IF x[1] \in 1 .. n /\ list[x[1]] \in A
                    THEN Append(x[2], list[x[1]]) ELSE x[2]]
<1>1. n \in Nat
  OBVIOUS
<1>2. g \in [Nat \X Seq(S) -> Seq(S)]
  <2>1. ASSUME NEW x \in Nat \X Seq(S)
        PROVE  (IF x[1] \in 1 .. n /\ list[x[1]] \in A
                THEN Append(x[2], list[x[1]]) ELSE x[2]) \in Seq(S)
    OBVIOUS
  <2>2. QED
    BY <2>1
<1>3. \E f : Recursive(f, n, Seq(S), <<>>, g)
  <2> DEFINE V == Seq(S)
             base == <<>>
  <2>1. base \in V /\ g \in [Nat \X V -> V]
    BY <1>2
  <2> HIDE DEF n, g, V, base
  <2>2. \E f : Recursive(f, n, V, base, g)
    BY <1>1, <2>1, RecursionExists
  <2>3. QED
    BY <2>2 DEF V, base
<1>4. PICK f : /\ f \in [0 .. n -> Seq(S)]
               /\ f[0] = <<>>
               /\ \A i \in 1 .. n : f[i] = g[<<i, f[i - 1]>>]
  BY <1>3 DEF Recursive
<1>5. f = Step(f)
  <2>1. ASSUME NEW i \in 0 .. n PROVE f[i] = Step(f)[i]
    <3>1. CASE i = 0
      BY <1>4, <3>1
    <3>2. CASE i # 0
      <4>1. i \in 1 .. n /\ f[i - 1] \in Seq(S) /\ i \in Nat
        BY <1>1, <1>4, <3>2
      <4>2. <<i, f[i - 1]>> \in Nat \X Seq(S)
        BY <4>1
      <4>3. g[<<i, f[i - 1]>>] = IF list[i] \in A THEN Append(f[i - 1], list[i]) ELSE f[i - 1]
        BY <4>1, <4>2
      <4>4. QED
        BY <1>4, <3>2, <4>1, <4>3
    <3>3. QED
      BY <3>1, <3>2
  <2>2. QED
    BY <1>4, <2>1
<1> DEFINE c == CHOOSE h : h = Step(h)
<1>6. c = Step(c)
  BY <1>5
<1>7. Kept(list, A) = c[n]
  BY DEF Kept
<1> HIDE DEF g
<1>8. c \in [0 .. n -> Seq(S)]
  <2> HIDE DEF c
  <2>1. DOMAIN c = 0 .. n /\ c = [i \in 0 .. n |-> c[i]]
    BY <1>6
  <2> DEFINE P == {i \in Nat : i \in 0 .. n => c[i] \in Seq(S)}
  <2>2. 0 \in P
    BY <1>1, <1>6
  <2>3. ASSUME NEW i \in P PROVE i + 1 \in P
    <3>1. SUFFICES ASSUME i + 1 \in 0 .. n PROVE c[i + 1] \in Seq(S)
      OBVIOUS
    <3>2. i \in Nat /\ i \in 0 .. n /\ i + 1 # 0 /\ (i + 1) - 1 = i /\ i + 1 \in 1 .. n
      BY <1>1, <3>1
    <3>3. c[i] \in Seq(S) /\ list[i + 1] \in S
      BY <3>2
    <3>4. c[i + 1] = IF list[i + 1] \in A THEN Append(c[i], list[i + 1]) ELSE c[i]
      BY <1>6, <3>1, <3>2
    <3>5. QED
      BY <3>3, <3>4
  <2>4. P = Nat
    <3>1. P \subseteq Nat
      OBVIOUS
    <3> HIDE DEF P
    <3>2. QED
      BY <2>2, <2>3, <3>1, NatInduct
  <2>5. \A i \in 0 .. n : c[i] \in Seq(S)
    BY <2>4, <1>1
  <2>6. QED
    BY <2>1, <2>5
<1>9. Walk(c, list, A, S)
  <2> HIDE DEF c
  <2>1. c[0] = <<>>
    BY <1>1, <1>6
  <2>2. ASSUME NEW i \in 1 .. n
        PROVE  c[i] = IF list[i] \in A THEN Append(c[i - 1], list[i]) ELSE c[i - 1]
    <3>1. i \in 0 .. n /\ i # 0
      BY <1>1
    <3>2. Step(c)[i] = IF list[i] \in A THEN Append(c[i - 1], list[i]) ELSE c[i - 1]
      BY <3>1
    <3>3. QED
      BY <1>6, <3>2
  <2>3. QED
    BY <1>8, <2>1, <2>2 DEF Walk
<1>10. QED
  BY <1>7, <1>9

(* ... and leaves the allowed sources of the list, each of them once.      *)
LEMMA KeptProperties ==
    ASSUME NEW S, NEW list \in Seq(S), IsInjective(list), NEW A
    PROVE  /\ Kept(list, A) \in Seq(S)
           /\ Len(Kept(list, A)) <= Len(list)
           /\ Range(Kept(list, A)) = Range(list) \cap A
           /\ IsInjective(Kept(list, A))
<1> DEFINE n == Len(list)
           upTo(i) == {list[j] : j \in 1 .. i}
<1>1. n \in Nat /\ DOMAIN list = 1 .. n
  OBVIOUS
<1>2. PICK f : Walk(f, list, A, S) /\ Kept(list, A) = f[n]
  BY KeptDefined
<1>3. f \in [0 .. n -> Seq(S)] /\ f[0] = <<>>
  BY <1>2 DEF Walk
<1>4. \A i \in 1 .. n : f[i] = IF list[i] \in A THEN Append(f[i - 1], list[i]) ELSE f[i - 1]
  BY <1>2 DEF Walk
<1> DEFINE Good(i) == /\ Len(f[i]) <= i
                      /\ Range(f[i]) = upTo(i) \cap A
                      /\ IsInjective(f[i])
           P == {i \in Nat : i \in 0 .. n => Good(i)}
<1>5. 0 \in P
  <2>1. Len(f[0]) = 0 /\ DOMAIN f[0] = {} /\ 1 .. 0 = {}
    BY <1>3
  <2>2. Range(f[0]) = {} /\ upTo(0) = {} /\ IsInjective(f[0])
    BY <2>1 DEF Range, IsInjective
  <2>3. QED
    BY <2>1, <2>2
<1>6. ASSUME NEW i \in P PROVE i + 1 \in P
  <2>1. SUFFICES ASSUME i + 1 \in 0 .. n PROVE Good(i + 1)
    OBVIOUS
  <2>2. i \in Nat /\ i \in 0 .. n /\ (i + 1) - 1 = i /\ i + 1 \in 1 .. n
    BY <1>1, <2>1
  <2>3. Good(i) /\ f[i] \in Seq(S) /\ list[i + 1] \in S
    BY <1>3, <2>2
  <2>4. upTo(i + 1) = upTo(i) \cup {list[i + 1]}
    <3>1. 1 .. i + 1 = (1 .. i) \cup {i + 1}
      BY <2>2
    <3>2. QED
      BY <3>1
  <2> DEFINE old == f[i]
             x == list[i + 1]
             new == f[i + 1]
  <2>5. x \notin Range(old)
    <3>1. \A j \in 1 .. i : list[j] # x
      BY <1>1, <2>2 DEF IsInjective
    <3>2. QED
      BY <2>3, <3>1
  <2>6. CASE x \in A
    <3>1. new = Append(old, x)
      BY <1>4, <2>2, <2>6
    <3>2. Len(old) \in Nat /\ DOMAIN old = 1 .. Len(old)
      BY <2>3
    <3>3. /\ Len(new) = Len(old) + 1
          /\ DOMAIN new = 1 .. Len(old) + 1
          /\ new[Len(old) + 1] = x
          /\ \A j \in 1 .. Len(old) : new[j] = old[j]
      BY <2>3, <3>1
    <3> HIDE DEF old, new, x
    <3>4. \A j \in 1 .. Len(old) : j \in 1 .. Len(old) + 1
      BY <3>2
    <3>5. \A j \in 1 .. Len(old) + 1 : j \in 1 .. Len(old) \/ j = Len(old) + 1
      BY <3>2
    <3>6. Range(new) = Range(old) \cup {x}
      <4>1. Range(new) \subseteq Range(old) \cup {x}
        BY <3>2, <3>3, <3>5 DEF Range
      <4>2. Range(old) \subseteq Range(new)
        BY <3>2, <3>3, <3>4 DEF Range
      <4>3. x \in Range(new)
        BY <3>2, <3>3 DEF Range
      <4>4. QED
        BY <4>1, <4>2, <4>3
    <3>7. IsInjective(new)
      <4>1. SUFFICES ASSUME NEW a \in 1 .. Len(old) + 1, NEW b \in 1 .. Len(old) + 1,
                            new[a] = new[b]
                     PROVE  a = b
        BY <3>3 DEF IsInjective
      <4>2. \A j \in 1 .. Len(old) : new[j] # x
        BY <2>5, <3>2, <3>3 DEF Range
      <4>3. CASE a = Len(old) + 1 \/ b = Len(old) + 1
        BY <3>3, <3>5, <4>1, <4>2, <4>3
      <4>4. CASE a \in 1 .. Len(old) /\ b \in 1 .. Len(old)
        BY <2>3, <3>2, <3>3, <4>1, <4>4 DEF IsInjective, old
      <4>5. QED
        BY <3>5, <4>3, <4>4
    <3>8. Len(new) <= i + 1
      BY <2>2, <2>3, <3>2, <3>3 DEF old
    <3>9. QED
      BY <2>3, <2>4, <2>6, <3>6, <3>7, <3>8 DEF old, new, x
  <2>7. CASE x \notin A
    <3>1. new = old
      BY <1>4, <2>2, <2>7
    <3>2. Len(old) \in Nat
      BY <2>3
    <3>3. QED
      BY <2>2, <2>3, <2>4, <2>7, <3>1, <3>2
  <2>8. QED
    BY <2>6, <2>7
<1>7. P = Nat
  <2>1. P \subseteq Nat
    OBVIOUS
  <2> HIDE DEF P
  <2>2. QED
    BY <1>5, <1>6, <2>1, NatInduct
<1>8. Good(n)
  BY <1>1, <1>7
<1>9. upTo(n) = Range(list)
  BY <1>1 DEF Range
<1>10. f[n] \in Seq(S)
  BY <1>1, <1>3
<1>11. QED
  BY <1>2, <1>8, <1>9, <1>10

-----------------------------------------------------------------------------
(* The lengths of the output queue *)

(* Doubled is well defined.                                                *)
LEMMA DoubledDefined ==
    /\ Doubled \in [0 .. OutputMax -> Nat \ {0}]
    /\ Doubled[0] = OutputInitial
    /\ \A x \in 1 .. OutputMax : Doubled[x] = 2 * Doubled[x - 1]
<1> DEFINE n == OutputMax
           Step(f) == [x \in 0 .. n |-> IF x = 0 THEN OutputInitial ELSE 2 * f[x - 1]]
           g == [p \in Nat \X (Nat \ {0}) |-> 2 * p[2]]
<1>1. n \in Nat /\ OutputInitial \in Nat \ {0}
  BY CollectorAssumption
<1>2. g \in [Nat \X (Nat \ {0}) -> Nat \ {0}]
  OBVIOUS
<1>3. \E f : Recursive(f, n, Nat \ {0}, OutputInitial, g)
  <2> HIDE DEF n, g
  <2>1. QED
    BY <1>1, <1>2, RecursionExists
<1>4. PICK f : /\ f \in [0 .. n -> Nat \ {0}]
               /\ f[0] = OutputInitial
               /\ \A i \in 1 .. n : f[i] = g[<<i, f[i - 1]>>]
  BY <1>3 DEF Recursive
<1>5. f = Step(f)
  <2>1. ASSUME NEW i \in 0 .. n PROVE f[i] = Step(f)[i]
    <3>1. CASE i = 0
      BY <1>4, <3>1
    <3>2. CASE i # 0
      <4>1. i \in 1 .. n /\ f[i - 1] \in Nat \ {0} /\ i \in Nat
        BY <1>1, <1>4, <3>2
      <4>2. g[<<i, f[i - 1]>>] = 2 * f[i - 1]
        BY <4>1
      <4>3. QED
        BY <1>4, <3>2, <4>1, <4>2
    <3>3. QED
      BY <3>1, <3>2
  <2>2. QED
    BY <1>4, <2>1
<1>6. Doubled = Step(Doubled)
  <2>1. Doubled = CHOOSE h : h = Step(h)
    BY DEF Doubled
  <2>2. QED
    BY <1>5, <2>1
<1>7. Doubled[0] = OutputInitial
  BY <1>1, <1>6
<1>8. ASSUME NEW x \in 1 .. n PROVE Doubled[x] = 2 * Doubled[x - 1]
  <2>1. x \in 0 .. n /\ x # 0
    BY <1>1
  <2>2. Step(Doubled)[x] = 2 * Doubled[x - 1]
    BY <2>1
  <2>3. QED
    BY <1>6, <2>2
<1>9. Doubled \in [0 .. n -> Nat \ {0}]
  <2>1. DOMAIN Doubled = 0 .. n /\ Doubled = [x \in 0 .. n |-> Doubled[x]]
    BY <1>6
  <2> DEFINE P == {x \in Nat : x \in 0 .. n => Doubled[x] \in Nat \ {0}}
  <2>2. 0 \in P
    BY <1>1, <1>7
  <2>3. ASSUME NEW x \in P PROVE x + 1 \in P
    <3>1. SUFFICES ASSUME x + 1 \in 0 .. n PROVE Doubled[x + 1] \in Nat \ {0}
      OBVIOUS
    <3>2. x \in 0 .. n /\ (x + 1) - 1 = x /\ x + 1 \in 1 .. n
      BY <1>1, <3>1
    <3>3. Doubled[x] \in Nat \ {0} /\ Doubled[x + 1] = 2 * Doubled[x]
      BY <1>8, <3>2
    <3>4. QED
      BY <3>3
  <2>4. P = Nat
    <3>1. P \subseteq Nat
      OBVIOUS
    <3> HIDE DEF P
    <3>2. QED
      BY <2>2, <2>3, <3>1, NatInduct
  <2>5. \A x \in 0 .. n : Doubled[x] \in Nat \ {0}
    BY <1>1, <2>4
  <2>6. QED
    BY <2>1, <2>5
<1>10. QED
  BY <1>7, <1>8, <1>9

(* A longer length has been doubled more often.                            *)
LEMMA DoubledMonotone ==
    ASSUME NEW x \in 0 .. OutputMax, NEW y \in 0 .. OutputMax, x <= y
    PROVE  Doubled[x] <= Doubled[y]
<1>1. OutputMax \in Nat
  BY CollectorAssumption
<1> DEFINE P == {d \in Nat : x + d \in 0 .. OutputMax => Doubled[x] <= Doubled[x + d]}
<1>2. 0 \in P
  BY <1>1, DoubledDefined
<1>3. ASSUME NEW d \in P PROVE d + 1 \in P
  <2>1. SUFFICES ASSUME x + (d + 1) \in 0 .. OutputMax
                 PROVE  Doubled[x] <= Doubled[x + (d + 1)]
    OBVIOUS
  <2>2. /\ x + d \in 0 .. OutputMax
        /\ x + (d + 1) \in 1 .. OutputMax
        /\ (x + (d + 1)) - 1 = x + d
    BY <1>1, <2>1
  <2>3. Doubled[x + (d + 1)] = 2 * Doubled[x + d]
    BY <2>2, DoubledDefined
  <2>4. Doubled[x] \in Nat /\ Doubled[x + d] \in Nat /\ Doubled[x] <= Doubled[x + d]
    BY <2>2, DoubledDefined
  <2>5. QED
    BY <2>3, <2>4
<1>4. P = Nat
  <2>1. P \subseteq Nat
    OBVIOUS
  <2> HIDE DEF P
  <2>2. QED
    BY <1>2, <1>3, <2>1, NatInduct
<1>5. y - x \in Nat /\ x + (y - x) = y
  BY <1>1
<1>6. QED
  BY <1>4, <1>5

(* A length below OUTPUT_MAX_QLEN can be doubled once more.                *)
LEMMA DoublingFits ==
    ASSUME NEW x \in 0 .. OutputMax, Doubled[x] < OutputMax
    PROVE  /\ x + 1 \in 0 .. OutputMax
           /\ Doubled[x + 1] = 2 * Doubled[x]
           /\ Doubled[x + 1] <= OutputMax
<1>1. PICK top \in 0 .. OutputMax : OutputMax = Doubled[top]
  BY CollectorAssumption
<1>2. /\ Doubled[x] \in Nat /\ Doubled[top] \in Nat /\ OutputMax \in Nat
  BY CollectorAssumption, DoubledDefined
<1>3. x < top
  <2>1. ~(top <= x)
    BY <1>1, <1>2, DoubledMonotone
  <2>2. QED
    BY <1>1, <1>2, <2>1
<1>4. /\ x + 1 \in 0 .. OutputMax /\ x + 1 \in 1 .. OutputMax
      /\ (x + 1) - 1 = x /\ x + 1 <= top
  BY <1>1, <1>2, <1>3
<1>5. Doubled[x + 1] = 2 * Doubled[x]
  BY <1>4, DoubledDefined
<1>6. Doubled[x + 1] <= Doubled[top]
  BY <1>4, DoubledMonotone
<1>7. QED
  BY <1>1, <1>4, <1>5, <1>6

-----------------------------------------------------------------------------
(* The inductive invariant *)

Pcs == {"top", "reopen", "close", "reconf", "reread", "open", "poll", "receive",
        "process", "flush", "exited", "died"}

(* Every variable the invariants depend on has its type.                   *)
TypeInv ==
    /\ pc \in Pcs
    /\ file \in Configs /\ conf \in Configs
    /\ peer_list \in Seq(Sources) /\ num_peers \in Nat
    /\ input_queue \in Seq(Datagrams) /\ todo \in Nat
    /\ log_fd \in BOOLEAN /\ log_socket \in BOOLEAN
    /\ output_queue_alloc \in Nat /\ output_queue_offset \in Nat /\ unwritten \in Int
    /\ logsock_num_errors \in Nat /\ logsock_first_error \in BOOLEAN

(* Datagrams wait only from their receipt to the end of the round, so that *)
(* scrub_peers and a new list of allowed devices never meet one.           *)
InputInv == input_queue # <<>> => pc \in {"receive", "process", "died"}

(* The output queue has a length that doubling reaches, and records only   *)
(* while the log is open.                                                  *)
QueueInv ==
    /\ output_queue_alloc = 0 \/ \E x \in 0 .. OutputMax : output_queue_alloc = Doubled[x]
    /\ output_queue_offset > 0 => log_fd

(* The three properties, with what keeps them: the types, what the input   *)
(* queue holds, and where the output queue may have records.               *)
IndInv ==
    /\ TypeInv
    /\ InputInv
    /\ PeersExact
    /\ QueueInv
    /\ RecordsWritten
    /\ LogsockClock

(* A step that leaves the peers, the queues and the clock alone keeps the  *)
(* invariant if it goes to a place where that is right.                    *)
LEMMA StepKept ==
    ASSUME IndInv, TypeInv', InputInv',
           UNCHANGED <<peerVars, conf, input_queue, outVars, log_fd, sockVars>>,
           pc' \notin {"process", "flush", "died"} => output_queue_offset = 0
    PROVE  IndInv'
<1>1. PeersExact'
  BY DEF IndInv, peerVars, PeersExact, Authorised
<1>2. QueueInv' /\ RecordsWritten'
  BY DEF IndInv, QueueInv, RecordsWritten, outVars
<1>3. LogsockClock'
  BY DEF IndInv, LogsockClock, sockVars
<1>4. QED
  BY <1>1, <1>2, <1>3 DEF IndInv

(* The start of flowd_mainloop                                             *)
LEMMA InitInd == Init => IndInv
<1> SUFFICES ASSUME Init PROVE IndInv
  OBVIOUS
<1> USE CollectorAssumption DEF Init
<1>1. TypeInv
  <2>1. peer_list \in Seq(Sources) /\ input_queue \in Seq(Datagrams)
    OBVIOUS
  <2>2. pc \in Pcs
    BY DEF Pcs
  <2>3. file \in Configs /\ conf \in Configs
    OBVIOUS
  <2>4. /\ num_peers \in Nat /\ todo \in Nat /\ output_queue_alloc \in Nat
        /\ output_queue_offset \in Nat /\ unwritten \in Int /\ logsock_num_errors \in Nat
    OBVIOUS
  <2>5. log_fd \in BOOLEAN /\ log_socket \in BOOLEAN /\ logsock_first_error \in BOOLEAN
    BY Zenon
  <2>6. QED
    BY <2>1, <2>2, <2>3, <2>4, <2>5 DEF TypeInv
<1>2. InputInv
  BY DEF InputInv
<1>3. PeersExact
  <2>1. DOMAIN peer_list = {} /\ Len(peer_list) = 0 /\ 1 .. Len(input_queue) = {}
    OBVIOUS
  <2>2. QED
    BY <2>1 DEF PeersExact, IsInjective, Range
<1>4. QueueInv /\ RecordsWritten
  BY DEF QueueInv, RecordsWritten
<1>5. LogsockClock
  BY DEF LogsockClock
<1>6. QED
  BY <1>1, <1>2, <1>3, <1>4, <1>5 DEF IndInv

(* The steps that touch neither the peers nor the queues nor the logs      *)
LEMMA FlagsInd ==
    ASSUME IndInv,
           \/ MainExit \/ MainTop \/ ReopenClear \/ ReconfigureClear \/ NoReconfigure
           \/ SetupFails \/ PollReady \/ PollMonitorClosed \/ ReceiveDone
           \/ ProcessDone \/ DiscardFlow \/ WriteFails \/ EditConfig
           \/ sighand_exit \/ sighand_reconf \/ sighand_reopen
           \/ UNCHANGED vars
    PROVE  IndInv'
<1> DEFINE Same == UNCHANGED <<peerVars, conf, input_queue, outVars, log_fd, sockVars>>
           Placed == pc' \notin {"process", "flush", "died"} => output_queue_offset = 0
<1> SUFFICES TypeInv' /\ InputInv' /\ Same /\ Placed
  BY StepKept
<1> USE DEF IndInv, TypeInv, Pcs, InputInv, flagVars, peerVars, outVars, sockVars,
            logVars, inVars, envVars, histVars
<1>1. CASE MainExit
  BY <1>1 DEF MainExit, RecordsWritten
<1>2. CASE MainTop
  BY <1>2 DEF MainTop, RecordsWritten
<1>3. CASE ReopenClear
  BY <1>3 DEF ReopenClear, RecordsWritten
<1>4. CASE ReconfigureClear
  BY <1>4 DEF ReconfigureClear, RecordsWritten
<1>5. CASE NoReconfigure
  BY <1>5 DEF NoReconfigure, RecordsWritten
<1>6. CASE SetupFails
  BY <1>6 DEF SetupFails, RecordsWritten
<1>7. CASE PollReady
  BY <1>7 DEF PollReady, RecordsWritten
<1>8. CASE PollMonitorClosed
  BY <1>8 DEF PollMonitorClosed, RecordsWritten
<1>9. CASE ReceiveDone
  BY <1>9 DEF ReceiveDone, RecordsWritten
<1>10. CASE ProcessDone
  BY <1>10 DEF ProcessDone, RecordsWritten
<1>11. CASE DiscardFlow
  BY <1>11 DEF DiscardFlow, RecordsWritten
<1>12. CASE WriteFails
  BY <1>12 DEF WriteFails, RecordsWritten
<1>13. CASE EditConfig
  BY <1>13 DEF EditConfig, RecordsWritten
<1>14. CASE sighand_exit
  BY <1>14 DEF sighand_exit, Signal, RecordsWritten
<1>15. CASE sighand_reconf
  BY <1>15 DEF sighand_reconf, Signal, RecordsWritten
<1>16. CASE sighand_reopen
  BY <1>16 DEF sighand_reopen, Signal, RecordsWritten
<1>17. CASE UNCHANGED vars
  BY <1>17 DEF vars, RecordsWritten
<1>18. QED
  BY <1>1, <1>2, <1>3, <1>4, <1>5, <1>6, <1>7, <1>8, <1>9, <1>10, <1>11, <1>12, <1>13, <1>14, <1>15, <1>16, <1>17

(* The steps that open or close the logs                                   *)
LEMMA LogsInd ==
    ASSUME IndInv, LogsockReopen \/ ReopenTest \/ OpenLogs
    PROVE  IndInv'
<1> USE DEF IndInv, TypeInv, Pcs, InputInv, flagVars, peerVars, outVars, sockVars,
            logVars, inVars, envVars, histVars
<1>1. CASE LogsockReopen
  <2>1. TypeInv' /\ InputInv'
    BY <1>1 DEF LogsockReopen
  <2>2. PeersExact'
    BY <1>1 DEF LogsockReopen, PeersExact, Authorised
  <2>3. QueueInv' /\ RecordsWritten'
    BY <1>1 DEF LogsockReopen, QueueInv, RecordsWritten
  <2>4. LogsockClock'
    BY <1>1 DEF LogsockReopen, LogsockClock
  <2>5. QED
    BY <2>1, <2>2, <2>3, <2>4
<1>2. CASE ReopenTest
  <2>1. TypeInv' /\ InputInv'
    BY <1>2 DEF ReopenTest
  <2>2. PeersExact'
    BY <1>2 DEF ReopenTest, PeersExact, Authorised
  <2>3. QueueInv' /\ RecordsWritten'
    BY <1>2 DEF ReopenTest, QueueInv, RecordsWritten
  <2>4. LogsockClock'
    BY <1>2 DEF ReopenTest, LogsockClock
  <2>5. QED
    BY <2>1, <2>2, <2>3, <2>4
<1>3. CASE OpenLogs
  <2>1. TypeInv' /\ InputInv'
    BY <1>3 DEF OpenLogs
  <2>2. PeersExact'
    BY <1>3 DEF OpenLogs, PeersExact, Authorised
  <2>3. QueueInv' /\ RecordsWritten'
    BY <1>3 DEF OpenLogs, QueueInv, RecordsWritten
  <2>4. LogsockClock'
    BY <1>3 DEF OpenLogs, LogsockClock
  <2>5. QED
    BY <2>1, <2>2, <2>3, <2>4
<1>4. QED
  BY <1>1, <1>2, <1>3

(* A new configuration: scrub_peers leaves allowed peers only, and no      *)
(* datagram waits for one that goes.                                       *)
LEMMA ReconfigureInd ==
    ASSUME IndInv, Reconfigure
    PROVE  IndInv'
<1> USE DEF IndInv
<1>1. /\ pc = "reconf" /\ pc' = "reread" /\ conf' = file
      /\ UNCHANGED <<file, log_fd, log_socket, input_queue, todo, outVars, sockVars>>
      /\ peer_list' = IF file.allowed = {} THEN peer_list
                      ELSE Kept(peer_list, file.allowed)
      /\ num_peers' = num_peers - (Len(peer_list) - Len(peer_list'))
  BY DEF Reconfigure, scrub_peers, flagVars, logVars, inVars, envVars
<1>2. /\ peer_list \in Seq(Sources) /\ num_peers \in Nat /\ num_peers = Len(peer_list)
      /\ IsInjective(peer_list) /\ num_peers <= MaxPeers
      /\ MaxPeers \in Nat
  BY CollectorAssumption DEF TypeInv, PeersExact
<1>3. /\ peer_list' \in Seq(Sources)
      /\ Len(peer_list') <= Len(peer_list)
      /\ IsInjective(peer_list')
      /\ file.allowed # {} => Range(peer_list') \subseteq file.allowed
  <2>1. CASE file.allowed = {}
    BY <1>1, <1>2, <2>1
  <2>2. CASE file.allowed # {}
    <3>1. /\ Kept(peer_list, file.allowed) \in Seq(Sources)
          /\ Len(Kept(peer_list, file.allowed)) <= Len(peer_list)
          /\ Range(Kept(peer_list, file.allowed)) = Range(peer_list) \cap file.allowed
          /\ IsInjective(Kept(peer_list, file.allowed))
      BY <1>2, KeptProperties
    <3>2. QED
      BY <1>1, <2>2, <3>1
  <2>3. QED
    BY <2>1, <2>2
<1>4. num_peers' = Len(peer_list') /\ Len(peer_list') \in Nat
  BY <1>1, <1>2, <1>3
<1>5. TypeInv'
  BY <1>1, <1>3, <1>4 DEF TypeInv, Pcs, outVars, sockVars
<1>6. input_queue = <<>> /\ input_queue' = <<>>
  BY <1>1 DEF InputInv
<1>7. InputInv'
  BY <1>6 DEF InputInv
<1>8. PeersExact'
  <2>1. num_peers' <= MaxPeers
    BY <1>2, <1>3, <1>4
  <2>2. \A s \in Range(peer_list') : Authorised(s)'
    BY <1>1, <1>3 DEF Authorised
  <2>3. \A i \in 1 .. Len(input_queue') : FALSE
    BY <1>6
  <2>4. QED
    BY <1>3, <1>4, <2>1, <2>2, <2>3 DEF PeersExact
<1>9. QueueInv' /\ RecordsWritten'
  BY <1>1 DEF QueueInv, RecordsWritten, outVars
<1>10. LogsockClock'
  BY <1>1 DEF LogsockClock, sockVars
<1>11. QED
  BY <1>5, <1>7, <1>8, <1>9, <1>10

(* A datagram that is dropped before its peer is looked up, or whose       *)
(* source is not allowed                                                   *)
LEMMA DropInd ==
    ASSUME IndInv, NEW d \in Datagrams, ReceiveUnsupported(d) \/ ReceiveUnauthorised(d)
    PROVE  IndInv'
<1>1. /\ pc = "receive" /\ pc' \in {"receive", "process"}
      /\ UNCHANGED <<peerVars, conf, file, input_queue, outVars, logVars, sockVars, todo>>
  BY DEF ReceiveUnsupported, ReceiveUnauthorised, Receive, GoOn, Stop, peerVars, outVars,
         logVars, sockVars, envVars
<1>2. TypeInv' /\ InputInv'
  BY <1>1 DEF IndInv, TypeInv, Pcs, InputInv, peerVars, outVars, logVars, sockVars
<1>3. output_queue_offset = 0
  BY <1>1 DEF IndInv, RecordsWritten
<1>4. QED
  BY <1>1, <1>2, <1>3, StepKept DEF logVars

(* find_peer or new_peer: the source of the datagram is in the list        *)
(* afterwards, and others leave it only when the table is full.            *)
LEMMA FindOrNewPeerProperties ==
    ASSUME TypeInv, PeersExact, NEW s \in Sources, FindOrNewPeer(s)
    PROVE  /\ peer_list' \in Seq(Sources)
           /\ num_peers' \in Nat
           /\ num_peers' = Len(peer_list')
           /\ num_peers' <= MaxPeers
           /\ IsInjective(peer_list')
           /\ s \in Range(peer_list')
           /\ \A t \in Range(peer_list') : Authorised(t)
           /\ num_peers = MaxPeers => num_peers' = MaxPeers
           /\ num_peers' = MaxPeers \/ Range(peer_list) \subseteq Range(peer_list')
<1>1. /\ peer_list \in Seq(Sources) /\ num_peers \in Nat /\ num_peers = Len(peer_list)
      /\ num_peers <= MaxPeers /\ IsInjective(peer_list)
      /\ \A t \in Range(peer_list) : Authorised(t)
      /\ MaxPeers \in Nat \ {0}
  BY CollectorAssumption DEF TypeInv, PeersExact
<1>2. CASE s \in Range(peer_list)
  BY <1>1, <1>2 DEF FindOrNewPeer, peerVars
<1>3. CASE s \notin Range(peer_list) /\ num_peers + 1 > MaxPeers
  <2>1. /\ Authorised(s) /\ num_peers' = num_peers
        /\ peer_list' = <<s>> \o Front(peer_list)
    BY <1>3 DEF FindOrNewPeer, new_peer
  <2>2. num_peers = MaxPeers /\ peer_list # <<>>
    BY <1>1, <1>3
  <2>3. /\ Front(peer_list) \in Seq(Sources)
        /\ Len(Front(peer_list)) = Len(peer_list) - 1
        /\ Range(Front(peer_list)) \subseteq Range(peer_list)
        /\ IsInjective(Front(peer_list))
    BY <1>1, <2>2, DropLast
  <2>4. s \notin Range(Front(peer_list))
    BY <1>3, <2>3
  <2>5. /\ peer_list' \in Seq(Sources)
        /\ Len(peer_list') = Len(Front(peer_list)) + 1
        /\ Range(peer_list') = Range(Front(peer_list)) \cup {s}
        /\ IsInjective(peer_list')
    BY <2>1, <2>3, <2>4, InsertHead
  <2>6. \A t \in Range(peer_list') : Authorised(t)
    BY <1>1, <2>1, <2>3, <2>5
  <2>7. QED
    BY <1>1, <2>1, <2>2, <2>3, <2>5, <2>6
<1>4. CASE s \notin Range(peer_list) /\ ~(num_peers + 1 > MaxPeers)
  <2>1. /\ Authorised(s) /\ num_peers' = num_peers + 1
        /\ peer_list' = <<s>> \o peer_list
    BY <1>4 DEF FindOrNewPeer, new_peer
  <2>2. /\ peer_list' \in Seq(Sources)
        /\ Len(peer_list') = Len(peer_list) + 1
        /\ Range(peer_list') = Range(peer_list) \cup {s}
        /\ IsInjective(peer_list')
    BY <1>1, <1>4, <2>1, InsertHead
  <2>3. \A t \in Range(peer_list') : Authorised(t)
    BY <1>1, <2>1, <2>2
  <2>4. QED
    BY <1>1, <1>4, <2>1, <2>2, <2>3
<1>5. QED
  BY <1>2, <1>3, <1>4

(* A datagram of a version flowd knows                                     *)
LEMMA ReceiveInd ==
    ASSUME IndInv, NEW d \in Datagrams, ReceivePacket(d)
    PROVE  IndInv'
<1> USE DEF IndInv
<1>1. d.src \in Sources
  BY CollectorAssumption DEF DatagramType
<1>2. /\ pc = "receive" /\ pc' \in {"receive", "process"}
      /\ UNCHANGED <<conf, file, outVars, logVars, sockVars, todo>>
      /\ FindOrNewPeer(d.src)
      /\ input_queue' \in {input_queue, Append(input_queue, d)}
  BY DEF ReceivePacket, Receive, GoOn, Stop, outVars, logVars, sockVars, envVars
<1>3. /\ peer_list' \in Seq(Sources)
      /\ num_peers' \in Nat
      /\ num_peers' = Len(peer_list')
      /\ num_peers' <= MaxPeers
      /\ IsInjective(peer_list')
      /\ d.src \in Range(peer_list')
      /\ \A t \in Range(peer_list') : Authorised(t)
      /\ num_peers = MaxPeers => num_peers' = MaxPeers
      /\ num_peers' = MaxPeers \/ Range(peer_list) \subseteq Range(peer_list')
  BY <1>1, <1>2, FindOrNewPeerProperties
<1>4. input_queue \in Seq(Datagrams) /\ input_queue' \in Seq(Datagrams)
  BY <1>2 DEF TypeInv
<1>5. TypeInv'
  BY <1>2, <1>3, <1>4 DEF TypeInv, Pcs, outVars, logVars, sockVars
<1>6. InputInv'
  BY <1>2 DEF InputInv
<1>7. PeersExact'
  <2>1. ASSUME NEW i \in 1 .. Len(input_queue'),
               input_queue'[i].src \notin Range(peer_list')
        PROVE  num_peers' = MaxPeers
    <3>1. CASE i \in 1 .. Len(input_queue) /\ input_queue'[i] = input_queue[i]
      BY <1>3, <2>1, <3>1 DEF PeersExact
    <3>2. CASE input_queue'[i] = d
      BY <1>3, <2>1, <3>2
    <3>3. (i \in 1 .. Len(input_queue) /\ input_queue'[i] = input_queue[i])
          \/ input_queue'[i] = d
      BY <1>2, <1>4
    <3>4. QED
      BY <3>1, <3>2, <3>3
  <2>2. \A t \in Range(peer_list') : Authorised(t)'
    BY <1>2, <1>3 DEF Authorised
  <2>3. QED
    BY <1>3, <2>1, <2>2 DEF PeersExact
<1>8. QueueInv' /\ RecordsWritten'
  BY <1>2 DEF QueueInv, RecordsWritten, outVars, logVars
<1>9. LogsockClock'
  BY <1>2 DEF LogsockClock, sockVars
<1>10. QED
  BY <1>5, <1>6, <1>7, <1>8, <1>9

(* A datagram is processed: its peer, if it is still there, goes to the    *)
(* front of the list.                                                      *)
LEMMA ProcessInd ==
    ASSUME IndInv, ProcessPacket
    PROVE  IndInv'
<1> USE DEF IndInv
<1> DEFINE d == Head(input_queue)
<1>1. /\ pc = "process" /\ pc' = pc /\ input_queue # <<>>
      /\ input_queue' = Tail(input_queue)
      /\ UNCHANGED <<conf, file, num_peers, outVars, logVars, sockVars>>
      /\ \/ d.src \in Range(peer_list) /\ update_peer(d.src) /\ todo' = d.nflows
         \/ UNCHANGED <<peer_list, todo>>
  BY DEF ProcessPacket, outVars, logVars, sockVars, envVars
<1>2. /\ input_queue \in Seq(Datagrams) /\ input_queue' \in Seq(Datagrams)
      /\ d \in Datagrams
      /\ \A i \in 1 .. Len(input_queue') :
            i + 1 \in 1 .. Len(input_queue) /\ input_queue'[i] = input_queue[i + 1]
  BY <1>1 DEF TypeInv
<1>3. d.src \in Sources /\ d.nflows \in Nat
  BY <1>2, CollectorAssumption DEF DatagramType
<1>4. /\ peer_list \in Seq(Sources) /\ num_peers \in Nat /\ num_peers = Len(peer_list)
      /\ num_peers <= MaxPeers /\ IsInjective(peer_list)
      /\ \A t \in Range(peer_list) : Authorised(t)
  BY DEF TypeInv, PeersExact
<1> HIDE DEF d
<1>5. /\ peer_list' \in Seq(Sources)
      /\ Len(peer_list') = Len(peer_list)
      /\ Range(peer_list') = Range(peer_list)
      /\ IsInjective(peer_list')
      /\ todo' \in Nat
  <2>1. CASE UNCHANGED <<peer_list, todo>>
    BY <1>4, <2>1 DEF TypeInv
  <2>2. CASE d.src \in Range(peer_list) /\ update_peer(d.src) /\ todo' = d.nflows
    <3>1. PICK i \in DOMAIN peer_list :
              peer_list[i] = d.src /\ peer_list' = <<d.src>> \o RemoveAt(peer_list, i)
      BY <2>2 DEF update_peer
    <3> DEFINE rest == RemoveAt(peer_list, i)
    <3>2. /\ rest \in Seq(Sources)
          /\ Len(rest) = Len(peer_list) - 1
          /\ Range(rest) = Range(peer_list) \ {d.src}
          /\ IsInjective(rest)
      BY <1>4, <3>1, TakeOut
    <3> HIDE DEF rest
    <3> DEFINE s == d.src
    <3>3. s \in Sources /\ s \notin Range(rest)
      BY <1>3, <3>2
    <3> HIDE DEF s
    <3>4. IsInjective(rest) /\ rest \in Seq(Sources)
      BY <3>2
    <3>5. /\ <<s>> \o rest \in Seq(Sources)
          /\ Len(<<s>> \o rest) = Len(rest) + 1
          /\ Range(<<s>> \o rest) = Range(rest) \cup {s}
          /\ IsInjective(<<s>> \o rest)
      BY <3>3, <3>4, InsertHead
    <3>6. peer_list' = <<s>> \o rest /\ Range(rest) = Range(peer_list) \ {s}
      BY <3>1, <3>2 DEF rest, s
    <3>7. s \in Range(peer_list)
      BY <2>2 DEF s
    <3>8. Len(peer_list') = Len(peer_list)
      BY <1>4, <3>2, <3>5, <3>6
    <3>9. Range(peer_list') = Range(peer_list)
      <4>1. Range(peer_list') = (Range(peer_list) \ {s}) \cup {s}
        BY <3>5, <3>6
      <4>2. QED
        BY <3>7, <4>1
    <3>10. todo' \in Nat
      BY <1>3, <2>2
    <3>11. QED
      BY <3>5, <3>6, <3>8, <3>9, <3>10
  <2>3. QED
    BY <1>1, <2>1, <2>2
<1>6. TypeInv'
  BY <1>1, <1>2, <1>5 DEF TypeInv, outVars, logVars, sockVars
<1>7. InputInv'
  BY <1>1 DEF InputInv
<1>8. PeersExact'
  <2>1. \A t \in Range(peer_list') : Authorised(t)'
    BY <1>1, <1>4, <1>5 DEF Authorised
  <2>2. \A i \in 1 .. Len(input_queue') :
            input_queue'[i].src \notin Range(peer_list') => num_peers' = MaxPeers
    BY <1>1, <1>2, <1>5 DEF PeersExact
  <2>3. QED
    BY <1>1, <1>4, <1>5, <2>1, <2>2 DEF PeersExact
<1>9. QueueInv' /\ RecordsWritten'
  BY <1>1 DEF QueueInv, RecordsWritten, outVars, logVars
<1>10. LogsockClock'
  BY <1>1 DEF LogsockClock, sockVars
<1>11. QED
  BY <1>6, <1>7, <1>8, <1>9, <1>10

(* A record enters the output queue, which grows, or is flushed first.     *)
LEMMA EnqueueInd ==
    ASSUME TypeInv, QueueInv, RecordsWritten, Enqueue
    PROVE  /\ output_queue_alloc' \in Nat /\ output_queue_offset' \in Nat
           /\ unwritten' = output_queue_offset'
           /\ output_queue_offset' <= output_queue_alloc'
           /\ output_queue_alloc' <= OutputMax
           /\ \E x \in 0 .. OutputMax : output_queue_alloc' = Doubled[x]
<1> DEFINE a == IF output_queue_alloc = 0 THEN OutputInitial ELSE output_queue_alloc
<1>1. /\ output_queue_alloc \in Nat /\ output_queue_offset \in Nat
      /\ OutputMax \in Nat /\ OutputInitial \in Nat \ {0}
      /\ unwritten = output_queue_offset
      /\ output_queue_offset <= output_queue_alloc /\ output_queue_alloc <= OutputMax
  BY CollectorAssumption DEF TypeInv, RecordsWritten
<1>2. PICK x \in 0 .. OutputMax : a = Doubled[x]
  <2>1. CASE output_queue_alloc = 0
    BY <1>1, <2>1, DoubledDefined
  <2>2. CASE output_queue_alloc # 0
    BY <2>2 DEF QueueInv
  <2>3. QED
    BY <2>1, <2>2
<1>3. a \in Nat /\ a <= OutputMax
  <2>1. PICK top \in 0 .. OutputMax : OutputMax = Doubled[top]
    BY CollectorAssumption
  <2>2. OutputInitial <= OutputMax
    <3>1. 0 \in 0 .. OutputMax /\ 0 <= top
      BY <1>1
    <3>2. Doubled[0] <= Doubled[top]
      BY <3>1, DoubledMonotone
    <3>3. QED
      BY <2>1, <3>2, DoubledDefined
  <2>3. QED
    BY <1>1, <2>2
<1>4. Grown = IF output_queue_offset + 1 > a THEN 2 * a ELSE a
  BY DEF Grown
<1>5. CASE /\ output_queue_offset + 1 <= OutputMax
           /\ output_queue_alloc' = Grown
           /\ output_queue_offset' = output_queue_offset + 1
           /\ unwritten' = unwritten + 1
  <2>1. output_queue_offset <= a
    BY <1>1
  <2> HIDE DEF a
  <2>2. CASE output_queue_offset + 1 > a
    <3>1. a < OutputMax /\ output_queue_offset = a
      BY <1>1, <1>3, <1>5, <2>1, <2>2
    <3>2. /\ x + 1 \in 0 .. OutputMax
          /\ Doubled[x + 1] = 2 * a
          /\ Doubled[x + 1] <= OutputMax
      BY <1>2, <3>1, DoublingFits
    <3>3. a >= 1
      BY <1>2, DoubledDefined
    <3>4. output_queue_alloc' = 2 * a
      BY <1>4, <1>5, <2>2
    <3>5. QED
      BY <1>1, <1>3, <1>5, <3>1, <3>2, <3>3, <3>4
  <2>3. CASE ~(output_queue_offset + 1 > a)
    <3>1. output_queue_alloc' = a
      BY <1>4, <1>5, <2>3
    <3>2. QED
      BY <1>1, <1>2, <1>3, <1>5, <2>3, <3>1
  <2>4. QED
    BY <2>2, <2>3
<1>6. CASE /\ \/ output_queue_offset + 1 > OutputMax
              \/ output_queue_alloc > 0 /\ Grown > output_queue_alloc
           /\ unwritten' = unwritten - output_queue_offset + 1
           /\ output_queue_offset' = 1
           /\ UNCHANGED output_queue_alloc
  <2>1. output_queue_alloc > 0
    <3>1. OutputMax >= 1
      <4>1. PICK top \in 0 .. OutputMax : OutputMax = Doubled[top]
        BY CollectorAssumption
      <4>2. QED
        BY <4>1, DoubledDefined
    <3>2. QED
      BY <1>1, <1>6, <3>1
  <2>2. output_queue_alloc = a
    BY <1>1, <2>1
  <2> HIDE DEF a
  <2>3. QED
    BY <1>1, <1>2, <1>6, <2>1, <2>2
<1>7. QED
  BY <1>5, <1>6 DEF Enqueue

(* Flows are stored and the queue is flushed.                              *)
LEMMA StoreInd ==
    ASSUME IndInv, StoreFlow \/ Flush
    PROVE  IndInv'
<1> USE DEF IndInv, flagVars, peerVars, outVars, sockVars, logVars, inVars, envVars, histVars
<1>1. CASE StoreFlow
  <2>1. \/ log_fd /\ Enqueue
        \/ ~log_fd /\ UNCHANGED outVars
    BY <1>1 DEF StoreFlow
  <2>2. /\ pc = "process" /\ pc' = pc /\ todo' = todo - 1 /\ todo > 0
        /\ UNCHANGED <<conf, file, peer_list, num_peers, input_queue, log_fd, log_socket>>
        /\ SendOk \/ SendFails
    BY <1>1 DEF StoreFlow
  <2>3. /\ output_queue_alloc' \in Nat /\ output_queue_offset' \in Nat
        /\ unwritten' = output_queue_offset'
        /\ output_queue_offset' <= output_queue_alloc'
        /\ output_queue_alloc' <= OutputMax
        /\ \/ output_queue_alloc' = 0
           \/ \E x \in 0 .. OutputMax : output_queue_alloc' = Doubled[x]
        /\ output_queue_offset' > 0 => log_fd'
    <3>1. CASE log_fd /\ Enqueue
      BY <2>2, <3>1, EnqueueInd
    <3>2. CASE ~log_fd /\ UNCHANGED outVars
      BY <2>2, <3>2 DEF TypeInv, QueueInv, RecordsWritten
    <3>3. QED
      BY <2>1, <3>1, <3>2
  <2>4. QueueInv' /\ RecordsWritten'
    BY <2>2, <2>3 DEF QueueInv, RecordsWritten
  <2>5. /\ logsock_num_errors \in Nat /\ logsock_first_error \in BOOLEAN
        /\ logsock_first_error <=> logsock_num_errors > 0
    BY DEF TypeInv, LogsockClock
  <2>6. /\ logsock_num_errors' \in Nat /\ logsock_first_error' \in BOOLEAN
        /\ LogsockClock'
    <3>1. CASE SendOk
      <4>1. /\ logsock_num_errors' \in Nat
            /\ logsock_num_errors' # 0 => logsock_num_errors > 0
            /\ logsock_num_errors' > 0 <=> logsock_num_errors' # 0
        BY <2>5, <3>1 DEF SendOk
      <4>2. logsock_first_error' = (logsock_first_error /\ logsock_num_errors' # 0)
        BY <3>1 DEF SendOk
      <4>3. QED
        BY <2>5, <4>1, <4>2, Zenon DEF LogsockClock
    <3>2. CASE SendFails
      <4>1. CASE logsock_num_errors' = logsock_num_errors + 1 /\ logsock_first_error' = TRUE
        <5>1. logsock_num_errors' \in Nat /\ logsock_num_errors' > 0
          BY <2>5, <4>1
        <5>2. QED
          BY <4>1, <5>1, Zenon DEF LogsockClock
      <4>2. CASE UNCHANGED sockVars
        BY <2>5, <4>2 DEF LogsockClock
      <4>3. QED
        BY <3>2, <4>1, <4>2 DEF SendFails
    <3>3. QED
      BY <2>2, <3>1, <3>2
  <2>7. TypeInv'
    BY <2>2, <2>3, <2>6 DEF TypeInv
  <2>8. InputInv'
    BY <2>2 DEF InputInv
  <2>9. PeersExact'
    BY <2>2 DEF PeersExact, Authorised
  <2>10. QED
    BY <2>4, <2>6, <2>7, <2>8, <2>9
<1>2. CASE Flush
  <2>1. TypeInv' /\ InputInv'
    BY <1>2 DEF Flush, TypeInv, InputInv, Pcs
  <2>2. QueueInv' /\ RecordsWritten'
    BY <1>2 DEF Flush, TypeInv, QueueInv, RecordsWritten
  <2>3. PeersExact'
    BY <1>2 DEF Flush, PeersExact, Authorised
  <2>4. LogsockClock'
    BY <1>2 DEF Flush, LogsockClock
  <2>5. QED
    BY <2>1, <2>2, <2>3, <2>4
<1>3. QED
  BY <1>1, <1>2

-----------------------------------------------------------------------------
(* Theorems *)

(* The invariant holds in every state flowd reaches.                       *)
LEMMA Invariance == Spec => []IndInv
<1>1. IndInv /\ [Next]_vars => IndInv'
  <2> SUFFICES ASSUME IndInv, [Next]_vars PROVE IndInv'
    OBVIOUS
  <2>1. CASE Main
    BY <2>1, FlagsInd, LogsInd, ReconfigureInd, ProcessInd, StoreInd DEF Main
  <2>2. ASSUME NEW d \in Datagrams,
               ReceiveUnsupported(d) \/ ReceiveUnauthorised(d) \/ ReceivePacket(d)
        PROVE  IndInv'
    BY <2>2, DropInd, ReceiveInd
  <2>3. CASE \/ PollReady \/ PollMonitorClosed \/ EditConfig
             \/ sighand_exit \/ sighand_reconf \/ sighand_reopen
             \/ UNCHANGED vars
    BY <2>3, FlagsInd
  <2>4. QED
    BY <2>1, <2>2, <2>3 DEF Next
<1>2. QED
  BY <1>1, InitInd, PTL DEF Spec

(* Whatever evictions and reconfigurations come in which order, new_peer,  *)
(* update_peer and scrub_peers keep the table of peers within max_peers,   *)
(* its counter exact, its sources distinct and allowed, and a datagram     *)
(* finds its source gone only when the table is full.                      *)
THEOREM PeersCorrect == Spec => []PeersExact
<1>1. IndInv => PeersExact
  BY DEF IndInv
<1>2. QED
  BY <1>1, Invariance, PTL

(* output_flow_enqueue and output_flow_flush lose no record, leave none in *)
(* the queue when the log may be closed, and never run over the memory     *)
(* they have, for every OUTPUT_MAX_QLEN that is OUTPUT_INITIAL_QLEN        *)
(* doubled any number of times.                                            *)
THEOREM RecordsCorrect == Spec => []RecordsWritten
<1>1. IndInv => RecordsWritten
  BY DEF IndInv
<1>2. QED
  BY <1>1, Invariance, PTL

(* logsock_first_error is set exactly while process_flow counts errors of  *)
(* the log socket.                                                         *)
THEOREM ClockCorrect == Spec => []LogsockClock
<1>1. IndInv => LogsockClock
  BY DEF IndInv
<1>2. QED
  BY <1>1, Invariance, PTL

=============================================================================
