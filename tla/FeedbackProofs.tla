--------------------------- MODULE FeedbackProofs ---------------------------
(***************************************************************************)
(* Proofs about module Feedback: no record is lost between the collector   *)
(* and the Estimation thread, an estimation groups the records of a couple *)
(* as its definition by sets says, and a rate a monitor acknowledged is in *)
(* force, for any number of couples, monitors, records and rates.          *)
(***************************************************************************)
EXTENDS Feedback, Induction, FiniteSetTheorems, SequenceTheorems

-----------------------------------------------------------------------------
(* Sums *)

(* s has the sums of the first 0, 1, ... n values of the array.            *)
Sums(s, array, n) ==
    /\ s \in [0..n -> Int]
    /\ s[0] = 0
    /\ \A i \in 1..n : s[i] = s[i - 1] + array[i]

(* SumTo is well defined.                                                  *)
LEMMA SumDefined ==
    ASSUME NEW n \in Nat, NEW array \in [1..n -> Int]
    PROVE  \E s : Sums(s, array, n) /\ SumTo(array, n) = s[n]
<1> DEFINE Step(f) == [i \in 0..n |-> IF i = 0 THEN 0 ELSE f[i - 1] + array[i]]
           g == [x \in Nat \X Int |-> IF x[1] \in 1..n THEN x[2] + array[x[1]] ELSE 0]
<1>1. g \in [Nat \X Int -> Int]
  OBVIOUS
<1>2. ASSUME NEW i \in 1..n, NEW v \in Int PROVE g[<<i, v>>] = v + array[i]
  <2>1. <<i, v>> \in Nat \X Int
    OBVIOUS
  <2>2. QED
    BY <2>1
<1>3. PICK f : Recursive(f, n, Int, 0, g)
  <2> DEFINE V == Int
             base == 0
  <2>1. base \in V /\ g \in [Nat \X V -> V]
    BY <1>1
  <2> HIDE DEF g, V, base
  <2>2. \E f : Recursive(f, n, V, base, g)
    BY <2>1, RecursionExists
  <2>3. QED
    BY <2>2 DEF V, base
<1> HIDE DEF g
<1>4. f = Step(f)
  <2>1. ASSUME NEW i \in 0..n PROVE f[i] = Step(f)[i]
    <3>1. CASE i = 0
      BY <1>3, <3>1 DEF Recursive
    <3>2. CASE i # 0
      <4>1. i \in 1..n /\ i - 1 \in 0..n
        BY <3>2
      <4>2. f[i - 1] \in Int /\ f[i] = g[<<i, f[i - 1]>>]
        BY <1>3, <4>1 DEF Recursive
      <4>3. QED
        BY <1>2, <3>2, <4>1, <4>2
    <3>3. QED
      BY <3>1, <3>2
  <2>2. QED
    BY <1>3, <2>1 DEF Recursive
<1> DEFINE s == CHOOSE h : h = Step(h)
<1>5. s = Step(s)
  BY <1>4
<1>6. SumTo(array, n) = s[n]
  BY DEF SumTo
<1> HIDE DEF s
<1>7. s = [i \in 0..n |-> s[i]] /\ s[0] = 0
  BY <1>5
<1>8. ASSUME NEW i \in 1..n PROVE s[i] = s[i - 1] + array[i]
  BY <1>5
<1>9. Recursive(s, n, Int, 0, g)
  <2> DEFINE V == Int
             base == 0
  <2>1. base \in V /\ g \in [Nat \X V -> V] /\ s[0] = base
    BY <1>1, <1>7
  <2>2. \A i \in 1..n : s[i - 1] \in V => s[i] = g[<<i, s[i - 1]>>]
    BY <1>2, <1>8
  <2> HIDE DEF V, base
  <2>3. Recursive(s, n, V, base, g)
    BY <1>7, <2>1, <2>2, RecursionTyped
  <2>4. QED
    BY <2>3 DEF V, base
<1>10. Sums(s, array, n)
  BY <1>8, <1>9 DEF Sums, Recursive
<1>11. QED
  BY <1>6, <1>10

(* The sum of differences is the difference of the sums.                   *)
LEMMA SumMinus ==
    ASSUME NEW n \in Nat, NEW a \in [1..n -> Int], NEW b \in [1..n -> Int],
           NEW d \in [1..n -> Int], \A i \in 1..n : d[i] = a[i] - b[i]
    PROVE  SumTo(d, n) = SumTo(a, n) - SumTo(b, n)
<1>1. PICK sa : Sums(sa, a, n) /\ SumTo(a, n) = sa[n]
  BY SumDefined
<1>2. PICK sb : Sums(sb, b, n) /\ SumTo(b, n) = sb[n]
  BY SumDefined
<1>3. PICK sd : Sums(sd, d, n) /\ SumTo(d, n) = sd[n]
  BY SumDefined
<1> DEFINE P == {i \in Nat : i \in 0..n => sd[i] = sa[i] - sb[i]}
<1>4. 0 \in P
  BY <1>1, <1>2, <1>3 DEF Sums
<1>5. ASSUME NEW i \in P PROVE i + 1 \in P
  <2>1. SUFFICES ASSUME i + 1 \in 0..n PROVE sd[i + 1] = sa[i + 1] - sb[i + 1]
    OBVIOUS
  <2>2. i \in Nat /\ i \in 0..n /\ (i + 1) - 1 = i /\ i + 1 \in 1..n
    BY <2>1
  <2>3. /\ sd[i + 1] = sd[i] + d[i + 1]
        /\ sa[i + 1] = sa[i] + a[i + 1]
        /\ sb[i + 1] = sb[i] + b[i + 1]
    BY <1>1, <1>2, <1>3, <2>2 DEF Sums
  <2>4. sd[i] \in Int /\ sa[i] \in Int /\ sb[i] \in Int
    BY <1>1, <1>2, <1>3, <2>2 DEF Sums
  <2>5. a[i + 1] \in Int /\ b[i + 1] \in Int /\ d[i + 1] = a[i + 1] - b[i + 1]
    BY <2>2
  <2>6. sd[i] = sa[i] - sb[i]
    BY <2>2
  <2> HIDE DEF P
  <2>7. \A x, y, p, q \in Int : (x - y) + (p - q) = (x + p) - (y + q)
    OBVIOUS
  <2>8. (sa[i] - sb[i]) + (a[i + 1] - b[i + 1]) = (sa[i] + a[i + 1]) - (sb[i] + b[i + 1])
    BY <2>4, <2>5, <2>7
  <2>9. QED
    BY <2>3, <2>5, <2>6, <2>8
<1>6. P = Nat
  <2>1. P \subseteq Nat
    OBVIOUS
  <2> HIDE DEF P
  <2>2. QED
    BY <1>4, <1>5, <2>1, NatInduct
<1>7. sd[n] = sa[n] - sb[n]
  BY <1>6
<1>8. QED
  BY <1>1, <1>2, <1>3, <1>7

(* A sum of zeros is zero, and a sum is an integer.                        *)
LEMMA SumZero ==
    ASSUME NEW n \in Nat, NEW a \in [1..n -> Int]
    PROVE  /\ SumTo(a, n) \in Int
           /\ (\A i \in 1..n : a[i] = 0) => SumTo(a, n) = 0
<1>1. SumTo(a, n) \in Int
  BY SumDefined DEF Sums
<1>2. ASSUME \A i \in 1..n : a[i] = 0 PROVE SumTo(a, n) = 0
  <2>1. \A i \in 1..n : a[i] = a[i] - a[i]
    BY <1>2
  <2>2. SumTo(a, n) = SumTo(a, n) - SumTo(a, n)
    BY <2>1, SumMinus
  <2>3. QED
    BY <1>1, <2>2
<1>3. QED
  BY <1>1, <1>2

(* A sum grows with each of its terms.                                     *)
LEMMA SumBump ==
    ASSUME NEW n \in Nat, NEW a \in [1..n -> Int], NEW b \in [1..n -> Int],
           NEW c \in 1..n, b[c] = a[c] + 1,
           \A i \in 1..n : i # c => b[i] = a[i]
    PROVE  SumTo(b, n) = SumTo(a, n) + 1
<1>1. PICK sa : Sums(sa, a, n) /\ SumTo(a, n) = sa[n]
  BY SumDefined
<1>2. PICK sb : Sums(sb, b, n) /\ SumTo(b, n) = sb[n]
  BY SumDefined
<1> DEFINE P == {i \in Nat : i \in 0..n => sb[i] = sa[i] + (IF c <= i THEN 1 ELSE 0)}
<1>3. 0 \in P
  BY <1>1, <1>2 DEF Sums
<1>4. ASSUME NEW i \in P PROVE i + 1 \in P
  <2>1. SUFFICES ASSUME i + 1 \in 0..n
                 PROVE  sb[i + 1] = sa[i + 1] + (IF c <= i + 1 THEN 1 ELSE 0)
    OBVIOUS
  <2>2. i \in Nat /\ i \in 0..n /\ (i + 1) - 1 = i /\ i + 1 \in 1..n
    BY <2>1
  <2>3. sa[i + 1] = sa[i] + a[i + 1] /\ sb[i + 1] = sb[i] + b[i + 1]
    BY <1>1, <1>2, <2>2 DEF Sums
  <2>4. sa[i] \in Int /\ sb[i] \in Int /\ a[i + 1] \in Int
    BY <1>1, <1>2, <2>2 DEF Sums
  <2>5. sb[i] = sa[i] + (IF c <= i THEN 1 ELSE 0)
    BY <2>2
  <2> HIDE DEF P
  <2>6. CASE c = i + 1
    <3>1. sb[i] = sa[i]
      BY <2>2, <2>4, <2>5, <2>6
    <3>2. b[i + 1] = a[i + 1] + 1 /\ c <= i + 1
      BY <2>2, <2>6
    <3>3. \A x, y \in Int : x + (y + 1) = (x + y) + 1
      OBVIOUS
    <3>4. QED
      BY <2>3, <2>4, <3>1, <3>2, <3>3
  <2>7. CASE c # i + 1
    <3>1. b[i + 1] = a[i + 1] /\ (c <= i + 1 <=> c <= i)
      BY <2>2, <2>7
    <3>2. QED
      BY <2>3, <2>4, <2>5, <3>1
  <2>8. QED
    BY <2>6, <2>7
<1>5. P = Nat
  <2>1. P \subseteq Nat
    OBVIOUS
  <2> HIDE DEF P
  <2>2. QED
    BY <1>3, <1>4, <2>1, NatInduct
<1>6. sb[n] = sa[n] + 1
  BY <1>5
<1>7. QED
  BY <1>1, <1>2, <1>6

-----------------------------------------------------------------------------
(* The groups of an estimation *)

(* What the walk over the records of a couple carries                      *)
Accs == [used : SUBSET Nat, groups : Seq(SUBSET Nat)]

(* The records of one 5-tuple among those that came since the last         *)
(* estimation, lo + 1 .. hi                                                *)
Same(key, lo, hi, k) == {j \in lo + 1..hi : key[j] = k}

(* Up to record i the walk has marked the records of each 5-tuple it met,  *)
(* and made one group of each but of a last record on its own.             *)
UsedUpTo(used, i, lo, hi, key) ==
    \A j \in Nat : j \in used <=>
        \/ j \in 1..lo
        \/ j \in lo + 1..hi /\ \E l \in lo + 1..hi : l <= i /\ key[l] = key[j]

(* Every group is of a 5-tuple the walk has met.                           *)
GroupsOf(groups, i, lo, hi, key) ==
    \A x \in DOMAIN groups :
        /\ groups[x] # {hi}
        /\ \E l \in lo + 1..hi : l <= i /\ groups[x] = Same(key, lo, hi, key[l])

(* Every 5-tuple the walk has met has a group.                             *)
GroupOfEach(groups, i, lo, hi, key) ==
    \A l \in lo + 1..hi :
        l <= i => \/ Same(key, lo, hi, key[l]) = {hi}
                  \/ \E x \in DOMAIN groups : groups[x] = Same(key, lo, hi, key[l])

(* What the walk has made up to record i.                                  *)
GoodWalk(acc, i, lo, hi, key) ==
    /\ UsedUpTo(acc.used, i, lo, hi, key)
    /\ GroupsOf(acc.groups, i, lo, hi, key)
    /\ GroupOfEach(acc.groups, i, lo, hi, key)
    /\ IsInjective(acc.groups)

(* A record already marked leaves the walk as it is.                       *)
LEMMA WalkMarked ==
    ASSUME NEW lo \in Nat, NEW hi \in Nat, lo <= hi, NEW key, NEW acc \in Accs,
           NEW i \in Nat, i + 1 <= hi, GoodWalk(acc, i, lo, hi, key), i + 1 \in acc.used
    PROVE  GoodWalk(acc, i + 1, lo, hi, key)
<1> DEFINE m == i + 1
           new == lo + 1..hi
<1>1. ASSUME NEW l \in new, l <= m
      PROVE  \E k \in new : k <= i /\ key[k] = key[l]
  <2>1. CASE l <= i
    BY <2>1
  <2>2. CASE l = m
    <3>1. m \notin 1..lo
      BY <2>2
    <3>2. QED
      BY <2>2, <3>1 DEF GoodWalk, UsedUpTo
  <2>3. QED
    BY <1>1, <2>1, <2>2
<1>2. \A l \in new : l <= i => l <= m
  OBVIOUS
<1> HIDE DEF m, new
<1>3. UsedUpTo(acc.used, m, lo, hi, key)
  <2>1. SUFFICES ASSUME NEW j \in Nat
                 PROVE  (\E l \in new : l <= i /\ key[l] = key[j])
                            <=> (\E l \in new : l <= m /\ key[l] = key[j])
    BY DEF GoodWalk, UsedUpTo, new
  <2>2. QED
    BY <1>1, <1>2
<1>4. GroupsOf(acc.groups, m, lo, hi, key)
  BY <1>2 DEF GoodWalk, GroupsOf, new
<1>5. GroupOfEach(acc.groups, m, lo, hi, key)
  BY <1>1 DEF GoodWalk, GroupOfEach, new
<1>6. QED
  BY <1>3, <1>4, <1>5 DEF GoodWalk, m

(* A record that is not marked is the first one of its 5-tuple ...         *)
LEMMA FirstOfGroup ==
    ASSUME NEW lo \in Nat, NEW hi \in Nat, lo <= hi, NEW key, NEW acc \in Accs,
           NEW i \in Nat, i + 1 <= hi, GoodWalk(acc, i, lo, hi, key), i + 1 \notin acc.used
    PROVE  /\ i + 1 \in lo + 1..hi
           /\ \A l \in lo + 1..hi : l <= i => key[l] # key[i + 1]
           /\ Same(key, lo, hi, key[i + 1]) = {j \in i + 1..hi : key[j] = key[i + 1]}
<1>1. i + 1 \in Nat /\ i + 1 \notin 1..lo
  BY DEF GoodWalk, UsedUpTo
<1>2. i + 1 \in lo + 1..hi
  BY <1>1
<1>3. \A l \in lo + 1..hi : l <= i => key[l] # key[i + 1]
  BY <1>1, <1>2 DEF GoodWalk, UsedUpTo
<1>4. ASSUME NEW j \in lo + 1..hi, key[j] = key[i + 1] PROVE j \in i + 1..hi
  <2>1. ~(j <= i)
    BY <1>3, <1>4
  <2>2. QED
    BY <2>1
<1>5. i + 1..hi \subseteq lo + 1..hi
  BY <1>2
<1>6. QED
  BY <1>2, <1>3, <1>4, <1>5 DEF Same

(* ... and makes a group ...                                               *)
LEMMA WalkGroup ==
    ASSUME NEW lo \in Nat, NEW hi \in Nat, lo <= hi, NEW key, NEW acc \in Accs,
           NEW i \in Nat, i + 1 < hi, GoodWalk(acc, i, lo, hi, key), i + 1 \notin acc.used,
           NEW group, group = {j \in i + 1..hi : key[j] = key[i + 1]}
    PROVE  GoodWalk([used |-> acc.used \cup group, groups |-> Append(acc.groups, group)],
                    i + 1, lo, hi, key)
<1> DEFINE m == i + 1
           new == lo + 1..hi
           old == acc.groups
           now == Append(old, group)
           n == Len(old)
<1>1. /\ m \in new
      /\ \A l \in new : l <= i => key[l] # key[m]
      /\ group = Same(key, lo, hi, key[m])
  BY FirstOfGroup
<1>2. /\ old \in Seq(SUBSET Nat) /\ n \in Nat
      /\ DOMAIN old = 1..n /\ DOMAIN now = 1..n + 1
      /\ now[n + 1] = group
      /\ \A x \in 1..n : now[x] = old[x]
      /\ \A x \in 1..n + 1 : x \in 1..n \/ x = n + 1
      /\ \A x \in 1..n : x \in 1..n + 1
      /\ n + 1 \in 1..n + 1
  <2>1. group \in SUBSET Nat
    OBVIOUS
  <2>2. old \in Seq(SUBSET Nat)
    BY DEF Accs
  <2>3. QED
    BY <2>1, <2>2
<1>3. \A l \in new : l <= m <=> l <= i \/ l = m
  BY <1>1
<1>4. m \in group /\ m # hi
  BY <1>1 DEF Same
<1>5. \A j : j \in group <=> j \in new /\ key[j] = key[m]
  BY <1>1 DEF Same
<1>6. m \in Nat /\ m <= m
  OBVIOUS
<1> HIDE DEF m, new, old, now, n
<1>7. UsedUpTo(acc.used \cup group, m, lo, hi, key)
  <2>1. SUFFICES ASSUME NEW j \in Nat
                 PROVE  j \in acc.used \cup group <=>
                            \/ j \in 1..lo
                            \/ j \in new /\ \E l \in new : l <= m /\ key[l] = key[j]
    BY DEF UsedUpTo, new
  <2>2. j \in acc.used <=> \/ j \in 1..lo
                           \/ j \in new /\ \E l \in new : l <= i /\ key[l] = key[j]
    BY DEF GoodWalk, UsedUpTo, new
  <2>3. (\E l \in new : l <= m /\ key[l] = key[j])
            <=> (\E l \in new : l <= i /\ key[l] = key[j]) \/ key[m] = key[j]
    BY <1>1, <1>3
  <2>4. QED
    BY <1>5, <2>2, <2>3
<1>8. GroupsOf(now, m, lo, hi, key)
  <2>1. SUFFICES ASSUME NEW x \in 1..n + 1
                 PROVE  /\ now[x] # {hi}
                        /\ \E l \in new : l <= m /\ now[x] = Same(key, lo, hi, key[l])
    BY <1>2 DEF GroupsOf, new
  <2>2. CASE x = n + 1
    BY <1>1, <1>2, <1>4, <1>6, <2>2
  <2>3. CASE x \in 1..n
    BY <1>2, <1>3, <2>3 DEF GoodWalk, GroupsOf, new, old
  <2>4. QED
    BY <1>2, <2>2, <2>3
<1>9. GroupOfEach(now, m, lo, hi, key)
  <2>1. SUFFICES ASSUME NEW l \in new, l <= m
                 PROVE  \/ Same(key, lo, hi, key[l]) = {hi}
                        \/ \E x \in 1..n + 1 : now[x] = Same(key, lo, hi, key[l])
    BY <1>2 DEF GroupOfEach, new
  <2>2. CASE l = m
    BY <1>1, <1>2, <2>2
  <2>3. CASE l <= i
    BY <1>2, <2>3 DEF GoodWalk, GroupOfEach, new, old
  <2>4. QED
    BY <1>3, <2>1, <2>2, <2>3
<1>10. IsInjective(now)
  <2>1. ASSUME NEW x \in 1..n PROVE now[x] # group
    <3>1. PICK l \in new : l <= i /\ now[x] = Same(key, lo, hi, key[l])
      BY <1>2 DEF GoodWalk, GroupsOf, new, old
    <3>2. m \notin Same(key, lo, hi, key[l])
      BY <1>1, <3>1 DEF Same
    <3>3. QED
      BY <1>4, <3>1, <3>2
  <2>2. SUFFICES ASSUME NEW x \in 1..n + 1, NEW y \in 1..n + 1, now[x] = now[y]
                 PROVE  x = y
    BY <1>2 DEF IsInjective
  <2>3. CASE x = n + 1 \/ y = n + 1
    BY <1>2, <2>1, <2>2, <2>3
  <2>4. CASE x \in 1..n /\ y \in 1..n
    BY <1>2, <2>2, <2>4 DEF GoodWalk, IsInjective, old
  <2>5. QED
    BY <1>2, <2>3, <2>4
<1>11. QED
  BY <1>7, <1>8, <1>9, <1>10 DEF GoodWalk, m, now, old

(* ... unless it is the last one.                                          *)
LEMMA WalkLast ==
    ASSUME NEW lo \in Nat, NEW hi \in Nat, lo <= hi, NEW key, NEW acc \in Accs,
           NEW i \in Nat, i + 1 = hi, GoodWalk(acc, i, lo, hi, key), i + 1 \notin acc.used
    PROVE  GoodWalk([acc EXCEPT !.used = @ \cup {i + 1}], i + 1, lo, hi, key)
<1> DEFINE new == lo + 1..hi
<1>1. /\ hi \in new
      /\ \A l \in new : l <= i => key[l] # key[hi]
      /\ Same(key, lo, hi, key[hi]) = {j \in hi..hi : key[j] = key[hi]}
  BY FirstOfGroup
<1>2. Same(key, lo, hi, key[hi]) = {hi}
  BY <1>1
<1>3. \A l \in new : l <= hi /\ (l <= i \/ l = hi) /\ (l = hi => ~(l <= i))
  OBVIOUS
<1>4. /\ [acc EXCEPT !.used = @ \cup {i + 1}].used = acc.used \cup {hi}
      /\ [acc EXCEPT !.used = @ \cup {i + 1}].groups = acc.groups
  BY DEF Accs
<1> HIDE DEF new
<1>5. UsedUpTo(acc.used \cup {hi}, hi, lo, hi, key)
  <2>1. SUFFICES ASSUME NEW j \in Nat
                 PROVE  j \in acc.used \cup {hi} <=>
                            \/ j \in 1..lo
                            \/ j \in new /\ \E l \in new : l <= hi /\ key[l] = key[j]
    BY DEF UsedUpTo, new
  <2>2. j \in acc.used <=> \/ j \in 1..lo
                           \/ j \in new /\ \E l \in new : l <= i /\ key[l] = key[j]
    BY DEF GoodWalk, UsedUpTo, new
  <2>3. QED
    BY <1>1, <1>3, <2>2
<1>6. GroupsOf(acc.groups, hi, lo, hi, key)
  BY <1>3 DEF GoodWalk, GroupsOf, new
<1>7. GroupOfEach(acc.groups, hi, lo, hi, key)
  BY <1>2, <1>3 DEF GoodWalk, GroupOfEach, new
<1>8. IsInjective(acc.groups)
  BY DEF GoodWalk
<1>9. QED
  BY <1>4, <1>5, <1>6, <1>7, <1>8 DEF GoodWalk

(* f has what the walk over the records of couple c carries at each place. *)
WalkOf(f, c) ==
    /\ f \in [0..picEnd[c] -> Accs]
    /\ f[0] = [used |-> Used(c), groups |-> <<>>]
    /\ \A i \in 1..picEnd[c] : f[i] = EstimateAt(c, f[i - 1], i)

(* One step of the walk yields marks and groups.                           *)
LEMMA EstimateAtTyped ==
    ASSUME NEW c, picEnd[c] \in Nat, NEW acc \in Accs, NEW i \in Nat
    PROVE  EstimateAt(c, acc, i) \in Accs
<1>1. SameFlow(c, i) \in SUBSET Nat
  BY DEF SameFlow
<1>2. CASE i \in acc.used
  BY <1>2 DEF EstimateAt
<1>3. CASE i \notin acc.used /\ i < picEnd[c]
  <2>1. Append(acc.groups, SameFlow(c, i)) \in Seq(SUBSET Nat)
    BY <1>1 DEF Accs
  <2>2. QED
    BY <1>1, <1>3, <2>1 DEF EstimateAt, Accs
<1>4. CASE i \notin acc.used /\ ~(i < picEnd[c])
  BY <1>4 DEF EstimateAt, Accs
<1>5. QED
  BY <1>2, <1>3, <1>4

(* The walk is well defined.                                               *)
LEMMA WalkDefined ==
    ASSUME NEW c, picEnd[c] \in Nat, Used(c) \subseteq Nat
    PROVE  \E f : WalkOf(f, c) /\ Estimated(c) = f[picEnd[c]]
<1> DEFINE n == picEnd[c]
           base == [used |-> Used(c), groups |-> <<>>]
           Step(f) == [i \in 0..n |-> IF i = 0 THEN base ELSE EstimateAt(c, f[i - 1], i)]
           g == [x \in Nat \X Accs |-> EstimateAt(c, x[2], x[1])]
<1>1. base \in Accs /\ n \in Nat
  BY DEF Accs
<1>2. g \in [Nat \X Accs -> Accs]
  BY EstimateAtTyped
<1>3. ASSUME NEW i \in 1..n, NEW acc \in Accs PROVE g[<<i, acc>>] = EstimateAt(c, acc, i)
  <2>1. <<i, acc>> \in Nat \X Accs
    BY <1>1
  <2>2. QED
    BY <2>1
<1> HIDE DEF g
<1>4. PICK f : Recursive(f, n, Accs, base, g)
  <2> HIDE DEF n, base
  <2>1. QED
    BY <1>1, <1>2, RecursionExists
<1>5. f = Step(f)
  <2>1. ASSUME NEW i \in 0..n PROVE f[i] = Step(f)[i]
    <3>1. CASE i = 0
      BY <1>4, <3>1 DEF Recursive
    <3>2. CASE i # 0
      <4>1. i \in 1..n /\ i - 1 \in 0..n
        BY <1>1, <3>2
      <4>2. f[i - 1] \in Accs /\ f[i] = g[<<i, f[i - 1]>>]
        BY <1>4, <4>1 DEF Recursive
      <4>3. QED
        BY <1>3, <3>2, <4>1, <4>2
    <3>3. QED
      BY <3>1, <3>2
  <2>2. QED
    BY <1>4, <2>1 DEF Recursive
<1> DEFINE w == CHOOSE h : h = Step(h)
<1>6. w = Step(w)
  BY <1>5
<1>7. Estimated(c) = w[n]
  BY DEF Estimated
<1> HIDE DEF w
<1>8. w = [i \in 0..n |-> w[i]] /\ w[0] = base
  BY <1>1, <1>6
<1>9. ASSUME NEW i \in 1..n PROVE w[i] = EstimateAt(c, w[i - 1], i)
  BY <1>1, <1>6
<1>10. Recursive(w, n, Accs, base, g)
  <2>1. \A i \in 1..n : w[i - 1] \in Accs => w[i] = g[<<i, w[i - 1]>>]
    BY <1>3, <1>9
  <2> HIDE DEF n, base
  <2>2. QED
    BY <1>1, <1>2, <1>8, <2>1, RecursionTyped
<1>11. WalkOf(w, c)
  BY <1>9, <1>10 DEF WalkOf, Recursive
<1>12. QED
  BY <1>7, <1>11

(* Couple c has been looked at, and its records up to first[c] were used   *)
(* by earlier estimations.                                                 *)
Looked(c) ==
    /\ flows[c] \in Seq([key : Keys, agent : Monitors, used : BOOLEAN])
    /\ first[c] \in Nat /\ picEnd[c] \in Nat
    /\ first[c] <= picEnd[c] /\ picEnd[c] <= Len(flows[c])
    /\ Used(c) = 1..first[c]

KeyOf(list) == [i \in DOMAIN list |-> list[i].key]

(* The estimation of a couple that was looked at uses all of its records   *)
(* up to PicFlow_End, and groups them as it should.                        *)
LEMMA EstimatedGood ==
    ASSUME NEW c, Looked(c)
    PROVE  /\ Estimated(c) \in Accs
           /\ GoodWalk(Estimated(c), picEnd[c], first[c], picEnd[c], KeyOf(flows[c]))
           /\ Estimated(c).used = 1..picEnd[c]
<1> DEFINE lo == first[c]
           hi == picEnd[c]
           key == KeyOf(flows[c])
<1>1. lo \in Nat /\ hi \in Nat /\ lo <= hi /\ Used(c) = 1..lo /\ Used(c) \subseteq Nat
  BY DEF Looked
<1>2. PICK f : WalkOf(f, c) /\ Estimated(c) = f[hi]
  BY <1>1, WalkDefined
<1>3. /\ f \in [0..hi -> Accs] /\ f[0] = [used |-> 1..lo, groups |-> <<>>]
      /\ \A i \in 1..hi : f[i] = EstimateAt(c, f[i - 1], i)
  BY <1>1, <1>2 DEF WalkOf
<1>4. \A j \in 1..hi : key[j] = flows[c][j].key
  BY DEF Looked, KeyOf
<1> DEFINE P == {i \in Nat : i \in 0..hi => GoodWalk(f[i], i, lo, hi, key)}
<1>5. 0 \in P
  <2>1. UsedUpTo(1..lo, 0, lo, hi, key)
    BY <1>1 DEF UsedUpTo
  <2>2. GroupsOf(<<>>, 0, lo, hi, key) /\ IsInjective(<<>>)
    BY DEF GroupsOf, IsInjective
  <2>3. GroupOfEach(<<>>, 0, lo, hi, key)
    BY <1>1 DEF GroupOfEach
  <2>4. QED
    BY <1>3, <2>1, <2>2, <2>3 DEF GoodWalk
<1>6. ASSUME NEW i \in P PROVE i + 1 \in P
  <2>1. SUFFICES ASSUME i + 1 \in 0..hi PROVE GoodWalk(f[i + 1], i + 1, lo, hi, key)
    OBVIOUS
  <2>2. i \in Nat /\ i \in 0..hi /\ (i + 1) - 1 = i /\ i + 1 \in 1..hi /\ i + 1 <= hi
    BY <1>1, <2>1
  <2>3. GoodWalk(f[i], i, lo, hi, key) /\ f[i] \in Accs
    BY <1>3, <2>2
  <2>4. f[i + 1] = EstimateAt(c, f[i], i + 1)
    BY <1>3, <2>2
  <2>5. SameFlow(c, i + 1) = {j \in i + 1..hi : key[j] = key[i + 1]}
    <3>1. i + 1..hi \subseteq 1..hi
      BY <1>1, <2>2
    <3> HIDE DEF key
    <3>2. \A j \in i + 1..hi : flows[c][j].key = flows[c][i + 1].key <=> key[j] = key[i + 1]
      BY <1>4, <2>2, <3>1
    <3>3. QED
      BY <3>2 DEF SameFlow
  <2> HIDE DEF P, lo, hi, key
  <2>6. CASE i + 1 \in f[i].used
    BY <1>1, <2>2, <2>3, <2>4, <2>6, WalkMarked DEF EstimateAt
  <2>7. CASE i + 1 \notin f[i].used /\ i + 1 < hi
    <3>1. f[i + 1] = [used |-> f[i].used \cup SameFlow(c, i + 1),
                      groups |-> Append(f[i].groups, SameFlow(c, i + 1))]
      BY <2>4, <2>7 DEF EstimateAt, hi
    <3> DEFINE group == SameFlow(c, i + 1)
               acc == f[i]
    <3>2. acc \in Accs /\ GoodWalk(acc, i, lo, hi, key) /\ i + 1 \notin acc.used
      BY <2>3, <2>7
    <3>3. group = {j \in i + 1..hi : key[j] = key[i + 1]}
      BY <2>5
    <3> HIDE DEF group, acc
    <3>4. GoodWalk([used |-> acc.used \cup group, groups |-> Append(acc.groups, group)],
                   i + 1, lo, hi, key)
      BY <1>1, <2>2, <2>7, <3>2, <3>3, WalkGroup
    <3>5. QED
      BY <3>1, <3>4 DEF group, acc
  <2>8. CASE i + 1 \notin f[i].used /\ i + 1 = hi
    <3>1. f[i + 1] = [f[i] EXCEPT !.used = @ \cup {i + 1}]
      <4>1. ~(i + 1 < hi)
        BY <1>1, <2>8
      <4>2. QED
        BY <2>4, <2>8, <4>1 DEF EstimateAt, hi
    <3>2. QED
      BY <1>1, <2>2, <2>3, <2>8, <3>1, WalkLast
  <2>9. QED
    BY <1>1, <2>2, <2>6, <2>7, <2>8
<1>7. P = Nat
  <2>1. P \subseteq Nat
    OBVIOUS
  <2> HIDE DEF P
  <2>2. QED
    BY <1>5, <1>6, <2>1, NatInduct
<1>8. GoodWalk(f[hi], hi, lo, hi, key) /\ f[hi] \in Accs
  BY <1>1, <1>3, <1>7
<1> HIDE DEF P, lo, hi, key
<1>9. f[hi].used = 1..hi
  <2>1. \A l \in lo + 1..hi : l <= hi
    BY <1>1
  <2>2. \A j \in Nat : j \in f[hi].used <=> j \in 1..lo \/ j \in lo + 1..hi
    BY <1>8, <2>1 DEF GoodWalk, UsedUpTo
  <2>3. \A j \in Nat : j \in 1..lo \/ j \in lo + 1..hi <=> j \in 1..hi
    BY <1>1
  <2>4. f[hi].used \subseteq Nat /\ 1..hi \subseteq Nat
    BY <1>1, <1>8 DEF Accs
  <2>5. QED
    BY <2>2, <2>3, <2>4
<1>10. QED
  BY <1>2, <1>8, <1>9 DEF lo, hi, key

(* The groups that have new records are those of the 5-tuples, each of     *)
(* them once: what OneResultPerFlow says of a couple.                      *)
Made(lo, hi, groups) == {i \in DOMAIN groups : groups[i] \cap (lo + 1..hi) # {}}

Exact(key, lo, hi, groups) ==
    /\ {groups[i] : i \in Made(lo, hi, groups)}
          = {Same(key, lo, hi, k) : k \in Keys} \ {{}, {hi}}
    /\ \A i, j \in Made(lo, hi, groups) : groups[i] = groups[j] => i = j

(* Behind groups of older records a good walk leaves exact groups.         *)
LEMMA ExactGroups ==
    ASSUME NEW lo \in Nat, NEW hi \in Nat, lo <= hi, NEW key,
           \A j \in lo + 1..hi : key[j] \in Keys,
           NEW acc \in Accs, GoodWalk(acc, hi, lo, hi, key),
           NEW old \in Seq(SUBSET (1..lo))
    PROVE  /\ old \o acc.groups \in Seq(SUBSET (1..hi))
           /\ Exact(key, lo, hi, old \o acc.groups)
<1> DEFINE new == lo + 1..hi
           g == acc.groups
           r == old \o g
           n == Len(old)
           k == Len(g)
<1>1. g \in Seq(SUBSET Nat) /\ n \in Nat /\ k \in Nat /\ DOMAIN g = 1..k
  BY DEF Accs
<1>2. ASSUME NEW y \in 1..k
      PROVE  \E l \in new : /\ g[y] = Same(key, lo, hi, key[l])
                            /\ l \in g[y] /\ key[l] \in Keys /\ g[y] # {hi}
  <2>1. g[y] # {hi} /\ \E l \in new : g[y] = Same(key, lo, hi, key[l])
    BY <1>1, <1>2 DEF GoodWalk, GroupsOf
  <2>2. QED
    BY <2>1 DEF Same
<1>3. ASSUME NEW y \in 1..k PROVE g[y] \subseteq 1..hi
  <2>1. PICK l \in new : g[y] = Same(key, lo, hi, key[l])
    BY <1>2
  <2>2. Same(key, lo, hi, key[l]) \subseteq 1..hi
    BY DEF Same
  <2>3. QED
    BY <2>1, <2>2
<1>4. \A x \in 1..n : old[x] \subseteq 1..lo
  OBVIOUS
<1>5. 1..lo \subseteq 1..hi /\ (1..lo) \cap new = {}
  OBVIOUS
<1>6. /\ r \in Seq(SUBSET Nat) /\ Len(r) = n + k /\ DOMAIN r = 1..n + k
      /\ \A x \in 1..n : r[x] = old[x]
      /\ \A y \in 1..k : r[n + y] = g[y]
  <2>1. old \in Seq(SUBSET Nat)
    <3>1. 1..lo \subseteq Nat
      OBVIOUS
    <3>2. \A x \in 1..n : old[x] \in SUBSET Nat
      BY <1>4, <3>1
    <3>3. QED
      BY <1>1, <3>2
  <2>2. r \in Seq(SUBSET Nat) /\ Len(r) = n + k
    BY <1>1, <2>1
  <2>3. \A x \in 1..n + k : r[x] = IF x <= n THEN old[x] ELSE g[x - n]
    BY <1>1, <2>1
  <2>4. \A y \in 1..k : n + y \in 1..n + k /\ ~(n + y <= n) /\ (n + y) - n = y
    BY <1>1
  <2>5. QED
    BY <1>1, <2>2, <2>3, <2>4
<1>7. \A x \in 1..n + k : x \in 1..n \/ \E y \in 1..k : x = n + y
  <2>1. ASSUME NEW x \in 1..n + k, x \notin 1..n PROVE x - n \in 1..k /\ x = n + (x - n)
    BY <1>1, <2>1
  <2>2. QED
    BY <2>1
<1>8. \A y \in 1..k : n + y \in 1..n + k
  BY <1>1
<1> HIDE DEF new, g, r, n, k
<1>9. r \in Seq(SUBSET (1..hi))
  <2>1. \A x \in 1..n + k : r[x] \subseteq 1..hi
    BY <1>3, <1>4, <1>5, <1>6, <1>7
  <2>2. QED
    BY <1>1, <1>6, <2>1
<1>10. \A x : x \in Made(lo, hi, r) <=> \E y \in 1..k : x = n + y
  <2>1. ASSUME NEW x \in 1..n PROVE r[x] \cap new = {}
    BY <1>4, <1>5, <1>6
  <2>2. ASSUME NEW y \in 1..k PROVE r[n + y] \cap new # {}
    BY <1>2, <1>6
  <2>3. QED
    BY <1>6, <1>7, <1>8, <2>1, <2>2 DEF Made, new
<1>11. ASSUME NEW y \in 1..k
       PROVE  r[n + y] \in {Same(key, lo, hi, x) : x \in Keys} \ {{}, {hi}}
  BY <1>2, <1>6
<1>12. ASSUME NEW x \in Keys, Same(key, lo, hi, x) \notin {{}, {hi}}
       PROVE  \E y \in 1..k : r[n + y] = Same(key, lo, hi, x)
  <2>1. PICK l \in new : key[l] = x
    BY <1>12 DEF Same, new
  <2>2. l <= hi
    BY DEF new
  <2>3. QED
    BY <1>1, <1>6, <1>12, <2>1, <2>2 DEF GoodWalk, GroupOfEach, new, g
<1>13. {r[i] : i \in Made(lo, hi, r)} = {Same(key, lo, hi, x) : x \in Keys} \ {{}, {hi}}
  BY <1>10, <1>11, <1>12
<1>14. \A i, j \in Made(lo, hi, r) : r[i] = r[j] => i = j
  <2>1. \A y, z \in 1..k : g[y] = g[z] => y = z
    BY <1>1 DEF GoodWalk, IsInjective, g
  <2>2. QED
    BY <1>6, <1>10, <2>1
<1>15. QED
  BY <1>9, <1>13, <1>14 DEF Exact, r, g

(* Exactness depends on the 5-tuples of the new records only.              *)
LEMMA ExactSame ==
    ASSUME NEW lo, NEW hi, NEW groups, NEW a, NEW b,
           \A j \in lo + 1..hi : a[j] = b[j], Exact(a, lo, hi, groups)
    PROVE  Exact(b, lo, hi, groups)
<1>1. \A k : Same(a, lo, hi, k) = Same(b, lo, hi, k)
  BY DEF Same
<1>2. {Same(a, lo, hi, k) : k \in Keys} = {Same(b, lo, hi, k) : k \in Keys}
  BY <1>1
<1>3. QED
  BY <1>2 DEF Exact

-----------------------------------------------------------------------------
(* The inductive invariant of the lists *)

Stages == {"test", "pic", "walk", "reconfigure", "free", "wipe", "rearm", "hung"}

Types ==
    /\ flows \in [Couples -> Seq([key : Keys, agent : Monitors, used : BOOLEAN])]
    /\ picEnd \in [Couples -> Nat] /\ first \in [Couples -> Nat]
    /\ result \in [Couples -> Seq(SUBSET Nat)]
    /\ taille \in Int /\ main \in {"idle", "linked"}
    /\ est \in Stages /\ at \in Nat \ {0}

Lengths == [c \in Couples |-> Len(flows[c])]

(* taille counts the records but for the one Add_flow has linked.          *)
Counted == taille + (IF main = "linked" THEN 1 ELSE 0) = SumTo(Lengths, NbCouples)

(* The Estimation thread has looked at couple c and not yet estimated it.  *)
Pending(c) == \/ est = "pic" /\ c < at
              \/ est = "walk" /\ at <= c

(* The records that are used are the first ones of the list, up to the     *)
(* PicFlow_End of the last estimation, and the groups are made of them.    *)
UsedFirst(c) ==
    /\ picEnd[c] <= Len(flows[c])
    /\ IF Pending(c)
       THEN /\ first[c] <= picEnd[c] /\ Used(c) = 1..first[c]
            /\ result[c] \in Seq(SUBSET (1..first[c]))
       ELSE /\ Used(c) = 1..picEnd[c]
            /\ result[c] \in Seq(SUBSET (1..picEnd[c]))

(* The types, the count, the marks (until the thread is stuck, perhaps in  *)
(* the middle of a couple), and the results of the couples the             *)
(* walk has left behind; when the lists are freed the results are those of *)
(* the walk.                                                               *)
IndInv ==
    /\ Types
    /\ Counted
    /\ est # "hung" => \A c \in Couples : UsedFirst(c)
    /\ \A c \in Couples :
          est = "walk" /\ at > c => Exact(KeyOf(flows[c]), first[c], picEnd[c], result[c])
    /\ est = "free" => result = liberer_result

(* What the constants are.                                                 *)
LEMMA Constants ==
    /\ NbCouples \in Nat /\ NbCouples # 0 /\ NbMonitors \in Nat
    /\ \A s \in Sources : s[1] \in Couples /\ s[2] \in Keys /\ s[3] \in Monitors
BY FeedbackAssumption DEF Keys

(* The lists are empty at first.                                           *)
LEMMA InitInd == Init => IndInv
<1> SUFFICES ASSUME Init PROVE IndInv
  OBVIOUS
<1>1. /\ flows = [c \in Couples |-> <<>>] /\ result = [c \in Couples |-> <<>>]
      /\ picEnd = [c \in Couples |-> 0] /\ first = [c \in Couples |-> 0]
      /\ taille = 0 /\ main = "idle" /\ est = "test" /\ at = 1
  BY DEF Init, remplir_topologie
<1>2. Types
  BY <1>1 DEF Types, Stages
<1>3. Counted
  <2>1. Lengths \in [1..NbCouples -> Int] /\ \A c \in 1..NbCouples : Lengths[c] = 0
    BY <1>1 DEF Lengths, Couples
  <2>2. SumTo(Lengths, NbCouples) = 0
    BY <2>1, Constants, SumZero
  <2>3. QED
    BY <1>1, <2>2 DEF Counted
<1>4. ASSUME NEW c \in Couples PROVE UsedFirst(c)
  <2>1. flows[c] = <<>> /\ picEnd[c] = 0 /\ result[c] = <<>> /\ 1..0 = {} /\ ~Pending(c)
    BY <1>1 DEF Pending
  <2>2. Used(c) = {}
    BY <2>1 DEF Used
  <2>3. QED
    BY <2>1, <2>2 DEF UsedFirst
<1>5. QED
  BY <1>1, <1>2, <1>3, <1>4 DEF IndInv

(* What a step that leaves the lists and the places in them alone, and     *)
(* estimates nothing, preserves                                            *)
LEMMA StageInd ==
    ASSUME IndInv, UNCHANGED <<flows, picEnd, first, result, taille, main>>,
           est' \in Stages, at' \in Nat \ {0},
           \A c \in Couples : Pending(c)' <=> Pending(c),
           \A c \in Couples : est' = "walk" /\ at' > c => est = "walk" /\ at > c,
           est' = "free" => est = "free",
           est = "hung" => est' = "hung"
    PROVE  IndInv'
<1>1. Types'
  BY DEF IndInv, Types
<1>2. Counted'
  BY DEF IndInv, Counted, Lengths
<1>3. ASSUME NEW c \in Couples, est' # "hung" PROVE UsedFirst(c)'
  BY <1>3 DEF IndInv, UsedFirst, Used
<1>4. ASSUME NEW c \in Couples, est' = "walk" /\ at' > c
      PROVE  Exact(KeyOf(flows[c]), first[c], picEnd[c], result[c])'
  <2>1. Exact(KeyOf(flows[c]), first[c], picEnd[c], result[c])
    BY <1>4 DEF IndInv
  <2>2. QED
    BY <2>1
<1>5. est' = "free" => result' = liberer_result'
  BY DEF IndInv, liberer_result
<1>6. QED
  BY <1>1, <1>2, <1>3, <1>4, <1>5 DEF IndInv

(* Add_flow links a record.                                                *)
LEMMA LinkInd ==
    ASSUME IndInv, NEW s \in Sources, AddFlowLink(s[1], s[2], s[3])
    PROVE  IndInv'
<1> DEFINE b == s[1]
           r == Record(s[2], s[3])
<1>1. b \in Couples /\ r \in [key : Keys, agent : Monitors, used : BOOLEAN] /\ r.used = FALSE
  BY Constants DEF Record
<1>2. /\ main = "idle" /\ main' = "linked"
      /\ flows' = [flows EXCEPT ![b] = Append(@, r)]
      /\ UNCHANGED <<picEnd, first, result, taille, est, at>>
  BY DEF AddFlowLink, IndInv, Types, walkVars
<1>3. /\ flows \in [Couples -> Seq([key : Keys, agent : Monitors, used : BOOLEAN])]
      /\ picEnd \in [Couples -> Nat] /\ first \in [Couples -> Nat]
  BY DEF IndInv, Types
<1> HIDE DEF b, r
<1>4. /\ flows'[b] = Append(flows[b], r)
      /\ \A c \in Couples : c # b => flows'[c] = flows[c]
  BY <1>1, <1>2, <1>3
<1>5. /\ Append(flows[b], r) \in Seq([key : Keys, agent : Monitors, used : BOOLEAN])
      /\ Len(flows'[b]) = Len(flows[b]) + 1 /\ Len(flows[b]) \in Nat
      /\ flows'[b][Len(flows[b]) + 1] = r
      /\ \A i \in 1..Len(flows[b]) : flows'[b][i] = flows[b][i]
  <2>1. flows[b] \in Seq([key : Keys, agent : Monitors, used : BOOLEAN])
    BY <1>1, <1>3
  <2>2. QED
    BY <1>1, <1>4, <2>1
<1>6. Types'
  <2>1. flows' \in [Couples -> Seq([key : Keys, agent : Monitors, used : BOOLEAN])]
    BY <1>2, <1>3, <1>5
  <2>2. QED
    BY <1>2, <2>1 DEF IndInv, Types
<1>7. Counted'
  <2> DEFINE n == NbCouples
             after == [c \in Couples |-> Len(flows'[c])]
  <2>1. Lengths \in [1..n -> Int]
    BY <1>3 DEF Lengths, Couples
  <2>2. after \in [1..n -> Int]
    <3>1. flows' \in [Couples -> Seq([key : Keys, agent : Monitors, used : BOOLEAN])]
      BY <1>6 DEF Types
    <3>2. QED
      BY <3>1 DEF Couples
  <2>3. b \in 1..n /\ after[b] = Lengths[b] + 1 /\ \A c \in 1..n : c # b => after[c] = Lengths[c]
    BY <1>1, <1>4, <1>5 DEF Lengths, Couples
  <2>4. n \in Nat
    BY Constants
  <2> HIDE DEF n, after
  <2>5. SumTo(after, n) = SumTo(Lengths, n) + 1
    BY <2>1, <2>2, <2>3, <2>4, SumBump
  <2>6. taille \in Int /\ taille = SumTo(Lengths, n)
    BY <1>2 DEF IndInv, Types, Counted, n
  <2>7. taille' + 1 = SumTo(after, n)
    BY <1>2, <2>5, <2>6
  <2>8. QED
    BY <1>2, <2>7 DEF Counted, Lengths, n, after
<1>8. ASSUME NEW c \in Couples, est' # "hung"
      PROVE  /\ UsedFirst(c)'
             /\ \A j \in 1..picEnd[c] : KeyOf(flows[c])'[j] = KeyOf(flows[c])[j]
  <2>1. UsedFirst(c) /\ picEnd[c] \in Nat /\ first[c] \in Nat
    BY <1>2, <1>3, <1>8 DEF IndInv
  <2>2. flows[c] \in Seq([key : Keys, agent : Monitors, used : BOOLEAN])
    BY <1>3
  <2>3. Pending(c)' <=> Pending(c)
    BY <1>2 DEF Pending
  <2>4. CASE c # b
    <3>1. flows'[c] = flows[c]
      BY <1>4, <2>4
    <3>2. Used(c)' = Used(c) /\ KeyOf(flows[c])' = KeyOf(flows[c])
      BY <3>1 DEF Used, KeyOf
    <3>3. QED
      BY <1>2, <2>1, <2>3, <3>1, <3>2 DEF UsedFirst
  <2>5. CASE c = b
    <3>1. Used(c)' = Used(c)
      <4>1. \A i : i \in 1..Len(flows'[c]) <=> i \in 1..Len(flows[c]) \/ i = Len(flows[c]) + 1
        BY <1>5, <2>5
      <4>2. \A i : i \in Used(c)' <=> i \in 1..Len(flows'[c]) /\ flows'[c][i].used
        BY DEF Used
      <4>3. \A i : i \in Used(c) <=> i \in 1..Len(flows[c]) /\ flows[c][i].used
        BY DEF Used
      <4>4. \A i : i \in Used(c)' <=> i \in Used(c)
        BY <1>1, <1>5, <2>5, <4>1, <4>2, <4>3
      <4>5. QED
        BY <4>4
    <3>2. picEnd'[c] <= Len(flows'[c])
      BY <1>2, <1>5, <2>1, <2>5 DEF UsedFirst
    <3>3. \A j \in 1..picEnd[c] : KeyOf(flows[c])'[j] = KeyOf(flows[c])[j]
      <4>1. \A j \in 1..picEnd[c] : j \in 1..Len(flows[c]) /\ j \in 1..Len(flows'[c])
        BY <1>5, <2>1, <2>5 DEF UsedFirst
      <4>2. DOMAIN flows[c] = 1..Len(flows[c]) /\ DOMAIN flows'[c] = 1..Len(flows'[c])
        BY <1>5, <1>4, <2>2, <2>5
      <4>3. QED
        BY <1>5, <2>5, <4>1, <4>2 DEF KeyOf
    <3>4. QED
      BY <1>2, <2>1, <2>3, <3>1, <3>2, <3>3 DEF UsedFirst
  <2>6. QED
    BY <2>4, <2>5
<1>9. ASSUME NEW c \in Couples, est' = "walk" /\ at' > c
      PROVE  Exact(KeyOf(flows[c]), first[c], picEnd[c], result[c])'
  <2>1. Exact(KeyOf(flows[c]), first[c], picEnd[c], result[c])
    BY <1>2, <1>9 DEF IndInv
  <2>2. \A j \in first[c] + 1..picEnd[c] : j \in 1..picEnd[c]
    BY <1>3
  <2> DEFINE a == KeyOf(flows[c])
             d == KeyOf(flows[c])'
  <2>3. \A j \in first[c] + 1..picEnd[c] : a[j] = d[j]
    BY <1>8, <1>9, <2>2
  <2> HIDE DEF a, d
  <2>4. Exact(d, first[c], picEnd[c], result[c])
    BY <2>1, <2>3, ExactSame DEF a
  <2>5. QED
    BY <1>2, <2>4 DEF d
<1>10. est' = "free" => result' = liberer_result'
  BY <1>2 DEF IndInv, liberer_result
<1>11. QED
  BY <1>6, <1>7, <1>8, <1>9, <1>10 DEF IndInv

(* The Estimation thread looks at the list of a couple.                    *)
LEMMA LookInd ==
    ASSUME IndInv, PicFlowEnd, at <= NbCouples
    PROVE  IndInv'
<1>1. /\ est = "pic" /\ at \in Couples /\ at' = at + 1
      /\ picEnd' = [picEnd EXCEPT ![at] = Len(flows[at])]
      /\ first' = [first EXCEPT ![at] = Cardinality(Used(at))]
      /\ UNCHANGED <<flows, result, taille, main, est>>
  BY Constants DEF PicFlowEnd, listVars, IndInv, Types, Couples
<1>2. /\ flows \in [Couples -> Seq([key : Keys, agent : Monitors, used : BOOLEAN])]
      /\ picEnd \in [Couples -> Nat] /\ first \in [Couples -> Nat]
  BY DEF IndInv, Types
<1>3. /\ UsedFirst(at) /\ ~Pending(at)
      /\ picEnd[at] \in Nat /\ Len(flows[at]) \in Nat
  BY <1>1, <1>2 DEF IndInv, Pending, Couples
<1>4. Cardinality(Used(at)) = picEnd[at]
  <2>1. Used(at) = 1..picEnd[at]
    BY <1>3 DEF UsedFirst
  <2>2. ASSUME NEW p \in Nat PROVE Cardinality(1..p) = p
    <3>1. Cardinality(1..p) = IF 1 > p THEN 0 ELSE p - 1 + 1
      BY FS_Interval
    <3>2. QED
      BY <3>1
  <2>3. QED
    BY <1>3, <2>1, <2>2
<1>5. /\ picEnd' \in [Couples -> Nat] /\ first' \in [Couples -> Nat]
      /\ picEnd'[at] = Len(flows[at]) /\ first'[at] = picEnd[at]
      /\ \A c \in Couples : c # at => picEnd'[c] = picEnd[c] /\ first'[c] = first[c]
  BY <1>1, <1>2, <1>3, <1>4
<1>6. Types'
  <2>1. at' \in Nat \ {0}
    BY <1>1 DEF Couples
  <2>2. QED
    BY <1>1, <1>5, <2>1 DEF IndInv, Types
<1>7. Counted'
  BY <1>1 DEF IndInv, Counted, Lengths
<1>8. ASSUME NEW c \in Couples PROVE UsedFirst(c)'
  <2>1. Used(c)' = Used(c) /\ UsedFirst(c) /\ at \in Int /\ c \in Int
    BY <1>1 DEF Used, IndInv, Couples
  <2>2. CASE c = at
    <3>1. Pending(c)'
      BY <1>1, <2>1, <2>2 DEF Pending
    <3>2. Used(c) = 1..picEnd[c] /\ result[c] \in Seq(SUBSET (1..picEnd[c])) /\ picEnd[c] <= Len(flows[c])
      BY <1>3, <2>2 DEF UsedFirst
    <3>3. QED
      BY <1>1, <1>3, <1>5, <2>1, <2>2, <3>1, <3>2 DEF UsedFirst
  <2>3. CASE c # at
    <3>1. Pending(c)' <=> Pending(c)
      BY <1>1, <2>1, <2>3 DEF Pending
    <3>2. QED
      BY <1>1, <1>5, <2>1, <2>3, <3>1 DEF UsedFirst
  <2>4. QED
    BY <2>2, <2>3
<1>9. QED
  BY <1>1, <1>6, <1>7, <1>8 DEF IndInv

(* The Estimation thread estimates the records of couple b.                *)
LEMMA EstimateInd ==
    ASSUME IndInv, EstimateCouple, NEW b, at = b
    PROVE  IndInv'
<1> DEFINE e == Estimated(b)
           list == [i \in 1..Len(flows[b]) |-> [flows[b][i] EXCEPT !.used = i \in e.used]]
           Records == [key : Keys, agent : Monitors, used : BOOLEAN]
<1>1. /\ est = "walk" /\ b \in Couples /\ at' = b + 1
      /\ flows' = [flows EXCEPT ![b] = list]
      /\ result' = [result EXCEPT ![b] = @ \o e.groups]
      /\ UNCHANGED <<picEnd, first, taille, main>> /\ est' \in {est, "hung"}
  <2>1. est = "walk" /\ at <= NbCouples /\ at' = at + 1
        /\ UNCHANGED <<picEnd, first, taille, main>>
    BY DEF EstimateCouple
  <2>2. est' \in {est, "hung"}
    BY DEF EstimateCouple, SendPathRequestPacket
  <2>3. /\ flows' = [flows EXCEPT ![b] = list]
        /\ result' = [result EXCEPT ![b] = @ \o e.groups]
    BY DEF EstimateCouple, IndInv, Types
  <2>4. b \in Couples
    BY <2>1, Constants DEF IndInv, Types, Couples
  <2>5. QED
    BY <2>1, <2>2, <2>3, <2>4
<1>2. /\ flows \in [Couples -> Seq(Records)]
      /\ picEnd \in [Couples -> Nat] /\ first \in [Couples -> Nat]
      /\ result \in [Couples -> Seq(SUBSET Nat)]
  BY DEF IndInv, Types
<1> HIDE DEF Records
<1>3. Pending(b) /\ UsedFirst(b) /\ b \in Int
  BY <1>1 DEF IndInv, Pending, Couples
<1>4. Looked(b)
  BY <1>1, <1>2, <1>3 DEF Looked, UsedFirst, Records
<1>5. /\ e \in Accs /\ e.used = 1..picEnd[b]
      /\ GoodWalk(e, picEnd[b], first[b], picEnd[b], KeyOf(flows[b]))
  BY <1>4, EstimatedGood
<1>6. /\ list \in Seq(Records) /\ Len(list) = Len(flows[b])
      /\ \A i \in 1..Len(list) : list[i].key = flows[b][i].key
      /\ \A i \in 1..Len(list) : list[i].used <=> i \in e.used
  <2>1. flows[b] \in Seq(Records) /\ Len(flows[b]) \in Nat
    BY <1>1, <1>2
  <2>2. ASSUME NEW i \in 1..Len(flows[b])
        PROVE  /\ list[i] \in Records /\ list[i].key = flows[b][i].key
               /\ list[i].used <=> i \in e.used
    <3>1. flows[b][i] \in Records
      BY <2>1
    <3>2. list[i] = [flows[b][i] EXCEPT !.used = i \in e.used]
      OBVIOUS
    <3>3. (i \in e.used) \in BOOLEAN
      OBVIOUS
    <3> HIDE DEF list, e
    <3>4. QED
      BY <3>1, <3>2, <3>3 DEF Records
  <2>3. list \in [1..Len(flows[b]) -> Records]
    BY <2>2
  <2>4. list \in Seq(Records)
    BY <2>1, <2>3
  <2>5. Len(list) = Len(flows[b])
    BY <2>1, <2>3, <2>4
  <2>6. QED
    BY <2>2, <2>4, <2>5
<1> HIDE DEF e, list
<1>7. /\ flows'[b] = list /\ result'[b] = result[b] \o e.groups
      /\ \A c \in Couples : c # b => flows'[c] = flows[c] /\ result'[c] = result[c]
  BY <1>1, <1>2
<1>8. KeyOf(flows'[b]) = KeyOf(flows[b]) /\ Used(b)' = 1..picEnd[b]
  <2>1. DOMAIN list = 1..Len(list) /\ DOMAIN flows[b] = 1..Len(list)
    BY <1>1, <1>2, <1>6
  <2>2. KeyOf(list) = KeyOf(flows[b])
    BY <1>6, <2>1 DEF KeyOf
  <2>3. 1..picEnd[b] \subseteq 1..Len(list)
    BY <1>4, <1>6 DEF Looked
  <2>4. \A i : i \in Used(b)' <=> i \in 1..Len(list) /\ list[i].used
    BY <1>7 DEF Used
  <2>5. \A i : i \in Used(b)' <=> i \in 1..picEnd[b]
    BY <1>5, <1>6, <2>3, <2>4
  <2>6. QED
    BY <1>7, <2>2, <2>5
<1>9. /\ result'[b] \in Seq(SUBSET (1..picEnd[b]))
      /\ Exact(KeyOf(flows'[b]), first'[b], picEnd'[b], result'[b])
  <2> DEFINE lo == first[b]
             hi == picEnd[b]
             key == KeyOf(flows[b])
             old == result[b]
  <2>1. lo \in Nat /\ hi \in Nat /\ lo <= hi /\ old \in Seq(SUBSET (1..lo))
    BY <1>3, <1>4 DEF Looked, UsedFirst
  <2>2. ASSUME NEW j \in lo + 1..hi PROVE key[j] \in Keys
    <3>1. j \in 1..Len(flows[b]) /\ flows[b] \in Seq(Records)
      BY <1>4 DEF Looked, Records
    <3>2. flows[b][j] \in Records /\ j \in DOMAIN flows[b]
      BY <3>1
    <3>3. QED
      BY <3>2 DEF KeyOf, Records
  <2>3. GoodWalk(e, hi, lo, hi, key)
    BY <1>5
  <2> HIDE DEF lo, hi, key, old
  <2>4. /\ old \o e.groups \in Seq(SUBSET (1..hi))
        /\ Exact(key, lo, hi, old \o e.groups)
    BY <1>5, <2>1, <2>2, <2>3, ExactGroups
  <2>5. QED
    BY <1>1, <1>7, <1>8, <2>4 DEF lo, hi, key, old
<1>10. Types'
  <2>1. flows' \in [Couples -> Seq(Records)]
    BY <1>1, <1>2, <1>6
  <2>2. result[b] \o e.groups \in Seq(SUBSET Nat)
    BY <1>1, <1>2, <1>5 DEF Accs
  <2>3. result' \in [Couples -> Seq(SUBSET Nat)]
    BY <1>1, <1>2, <2>2
  <2>4. b + 1 \in Nat \ {0}
    BY <1>1 DEF Couples
  <2>5. QED
    BY <1>1, <2>1, <2>3, <2>4 DEF IndInv, Types, Stages, Records
<1>11. Counted'
  <2>1. \A c \in Couples : Len(flows'[c]) = Len(flows[c])
    BY <1>6, <1>7
  <2>2. Lengths' = Lengths
    BY <2>1 DEF Lengths
  <2>3. QED
    BY <1>1, <2>2 DEF IndInv, Counted
<1>12. ASSUME NEW c \in Couples, est' # "hung" PROVE UsedFirst(c)'
  <2>1. c \in Int /\ UsedFirst(c) /\ est' = est
    BY <1>1, <1>12 DEF IndInv, Couples
  <2>2. CASE c = b
    <3>1. ~Pending(c)'
      BY <1>1, <1>3, <2>2 DEF Pending
    <3>2. picEnd'[c] <= Len(flows'[c])
      BY <1>1, <1>4, <1>6, <1>7, <2>2 DEF Looked
    <3>3. QED
      BY <1>1, <1>8, <1>9, <2>2, <3>1, <3>2 DEF UsedFirst
  <2>3. CASE c # b
    <3>1. Pending(c)' <=> Pending(c)
      BY <1>1, <1>3, <2>1, <2>3 DEF Pending
    <3>2. Used(c)' = Used(c)
      BY <1>7, <2>3 DEF Used
    <3>3. QED
      BY <1>1, <1>7, <2>1, <2>3, <3>1, <3>2 DEF UsedFirst
  <2>4. QED
    BY <2>2, <2>3
<1>13. ASSUME NEW c \in Couples, est' = "walk" /\ at' > c
       PROVE  Exact(KeyOf(flows[c]), first[c], picEnd[c], result[c])'
  <2>1. CASE c = b
    BY <1>9, <2>1
  <2>2. CASE c # b
    <3>1. at > c
      BY <1>1, <1>3, <1>13, <2>2 DEF Couples
    <3>2. Exact(KeyOf(flows[c]), first[c], picEnd[c], result[c])
      BY <1>1, <3>1 DEF IndInv
    <3>3. QED
      BY <1>1, <1>7, <2>2, <3>2
  <2>3. QED
    BY <2>1, <2>2
<1>14. est' = "free" => result' = liberer_result'
  BY <1>1
<1>15. QED
  BY <1>10, <1>11, <1>12, <1>13, <1>14 DEF IndInv

(* The output is written and the groups are freed.                         *)
LEMMA WriteInd ==
    ASSUME IndInv, WriteOutput, est' = "free"
    PROVE  IndInv'
<1>1. /\ est = "reconfigure" /\ result' = liberer_result
      /\ UNCHANGED <<flows, taille, main, picEnd, first, at>>
  BY DEF WriteOutput, listVars
<1>2. result' = [c \in Couples |-> <<>>]
  BY <1>1 DEF liberer_result
<1>3. Types'
  <2>1. result' \in [Couples -> Seq(SUBSET Nat)]
    BY <1>2
  <2>2. QED
    BY <1>1, <2>1 DEF IndInv, Types, Stages
<1>4. Counted'
  BY <1>1 DEF IndInv, Counted, Lengths
<1>5. ASSUME NEW c \in Couples PROVE UsedFirst(c)'
  <2>1. ~Pending(c) /\ ~Pending(c)' /\ UsedFirst(c)
    BY <1>1 DEF Pending, IndInv
  <2>2. Used(c)' = Used(c)
    BY <1>1 DEF Used
  <2>3. result'[c] \in Seq(SUBSET (1..picEnd[c]))
    BY <1>2
  <2>4. QED
    BY <1>1, <2>1, <2>2, <2>3 DEF UsedFirst
<1>6. result' = liberer_result'
  BY <1>1 DEF liberer_result
<1>7. QED
  BY <1>3, <1>4, <1>5, <1>6 DEF IndInv

(* The records that were estimated are freed.                              *)
LEMMA FreeInd ==
    ASSUME IndInv, liberer_flow
    PROVE  IndInv'
<1> DEFINE Records == [key : Keys, agent : Monitors, used : BOOLEAN]
<1>1. /\ est = "free" /\ main = "idle" /\ est' = "wipe"
      /\ flows' = [c \in Couples |-> liberer(c)]
      /\ taille' = taille - SumTo(picEnd, NbCouples)
      /\ picEnd' = [c \in Couples |-> 0] /\ first' = [c \in Couples |-> 0]
      /\ UNCHANGED <<main, result, at>>
  BY DEF liberer_flow
<1>2. /\ flows \in [Couples -> Seq(Records)] /\ picEnd \in [Couples -> Nat]
      /\ taille \in Int
  BY DEF IndInv, Types
<1> HIDE DEF Records
<1>3. result = [c \in Couples |-> <<>>]
  BY <1>1 DEF IndInv, liberer_result
<1>4. ASSUME NEW c \in Couples
      PROVE  /\ flows'[c] \in Seq(Records)
             /\ Len(flows'[c]) = Len(flows[c]) - picEnd[c]
             /\ \A i \in 1..Len(flows'[c]) : ~flows'[c][i].used
             /\ Len(flows[c]) \in Nat
  <2>1. /\ flows[c] \in Seq(Records) /\ Len(flows[c]) \in Nat
        /\ picEnd[c] \in Nat /\ picEnd[c] <= Len(flows[c])
        /\ Used(c) = 1..picEnd[c]
    <3>1. UsedFirst(c) /\ ~Pending(c)
      BY <1>1 DEF IndInv, Pending
    <3>2. flows[c] \in Seq(Records) /\ picEnd[c] \in Nat
      BY <1>2
    <3>3. QED
      BY <3>1, <3>2 DEF UsedFirst
  <2> DEFINE s == flows[c]
             m == picEnd[c] + 1
             n == Len(flows[c])
             t == SubSeq(s, m, n)
  <2>2. flows'[c] = t
    BY <1>1 DEF liberer
  <2>3. s \in Seq(Records) /\ m \in 1..n + 1 /\ n \in 0..Len(s) /\ n \in Nat
    BY <2>1
  <2>4. /\ t \in Seq(Records) /\ Len(t) = IF m <= n THEN n - m + 1 ELSE 0
        /\ \A i \in 1..n - m + 1 : t[i] = s[m + i - 1]
    <3> HIDE DEF s, m, n
    <3>1. m \in Int /\ n \in Int /\ \A i \in m..n : i \in 1..Len(s)
      BY <2>3
    <3>2. QED
      BY <2>3, <3>1 DEF t
  <2>5. Len(t) = n - picEnd[c]
    BY <2>1, <2>4
  <2>6. ASSUME NEW i \in 1..Len(t) PROVE ~t[i].used
    <3>1. /\ i \in 1..n - m + 1 /\ m + i - 1 = picEnd[c] + i
          /\ picEnd[c] + i \in 1..n /\ picEnd[c] + i \notin 1..picEnd[c]
      <4> DEFINE p == picEnd[c]
      <4>1. p \in Nat /\ n \in Nat /\ Len(t) = n - p /\ m = p + 1 /\ i \in 1..n - p
        BY <2>1, <2>5
      <4> HIDE DEF p, n, m, t
      <4>2. i \in 1..n - m + 1 /\ m + i - 1 = p + i /\ p + i \in 1..n /\ p + i \notin 1..p
        BY <4>1
      <4>3. QED
        BY <4>2 DEF p
    <3>2. picEnd[c] + i \notin Used(c)
      BY <2>1, <3>1
    <3>3. ~s[picEnd[c] + i].used
      BY <3>1, <3>2 DEF Used
    <3>4. t[i] = s[m + i - 1]
      BY <2>4, <3>1
    <3>5. QED
      BY <3>1, <3>3, <3>4
  <2>7. QED
    BY <2>1, <2>2, <2>4, <2>5, <2>6
<1>5. Types'
  <2>1. flows' \in [Couples -> Seq(Records)]
    BY <1>1, <1>4
  <2>2. picEnd' \in [Couples -> Nat] /\ first' \in [Couples -> Nat]
    BY <1>1
  <2>3. SumTo(picEnd, NbCouples) \in Int
    <3>1. picEnd \in [1..NbCouples -> Int]
      BY <1>2 DEF Couples
    <3>2. QED
      BY <3>1, Constants, SumZero
  <2>4. taille' \in Int
    BY <1>1, <1>2, <2>3
  <2>5. QED
    BY <1>1, <2>1, <2>2, <2>4 DEF IndInv, Types, Stages, Records
<1>6. Counted'
  <2> DEFINE n == NbCouples
             after == [c \in Couples |-> Len(flows'[c])]
  <2>1. n \in Nat /\ Couples = 1..n
    BY Constants DEF Couples
  <2>2. /\ Lengths \in [1..n -> Int] /\ picEnd \in [1..n -> Int] /\ after \in [1..n -> Int]
        /\ \A c \in 1..n : after[c] = Lengths[c] - picEnd[c]
    BY <1>2, <1>4, <2>1 DEF Lengths
  <2> HIDE DEF n, after
  <2>3. SumTo(after, n) = SumTo(Lengths, n) - SumTo(picEnd, n)
    BY <2>1, <2>2, SumMinus
  <2>4. taille = SumTo(Lengths, n)
    BY <1>1, <1>2 DEF IndInv, Counted, n
  <2>5. taille' = SumTo(after, n)
    BY <1>1, <2>3, <2>4 DEF n
  <2>6. Lengths' = after
    BY DEF Lengths, after
  <2>7. taille' \in Int
    BY <1>5 DEF Types
  <2>8. QED
    BY <1>1, <2>5, <2>6, <2>7 DEF Counted, n
<1>7. ASSUME NEW c \in Couples PROVE UsedFirst(c)'
  <2>1. ~Pending(c)' /\ picEnd'[c] = 0 /\ result'[c] = <<>> /\ 1..0 = {}
    BY <1>1, <1>3 DEF Pending
  <2>2. Used(c)' = {}
    BY <1>4 DEF Used
  <2>3. picEnd'[c] <= Len(flows'[c])
    BY <1>4, <2>1
  <2>4. QED
    BY <2>1, <2>2, <2>3 DEF UsedFirst
<1>8. QED
  BY <1>1, <1>5, <1>6, <1>7 DEF IndInv

(* The other steps of the Estimation thread                                *)
LEMMA StagesInd ==
    ASSUME IndInv,
           \/ EstimationStarts \/ EstimationDone \/ Reconfigurer \/ Wipe \/ Rearm
           \/ PicFlowEnd /\ ~(at <= NbCouples)
           \/ WriteOutput /\ est' # "free"
    PROVE  IndInv'
<1> USE DEF listVars, walkVars, rateVars, localVars
<1>1. at \in Nat \ {0} /\ NbCouples \in Nat /\ \A c \in Couples : c \in Nat /\ 1 <= c /\ c <= NbCouples
  BY Constants DEF IndInv, Types, Couples
<1>2. CASE EstimationStarts
  BY <1>1, <1>2, StageInd DEF EstimationStarts, Stages, Pending
<1>3. CASE EstimationDone
  <2>1. /\ est = "walk" /\ at > NbCouples /\ at' = 1 /\ est' \in {"rearm", "reconfigure"}
        /\ UNCHANGED <<flows, picEnd, first, result, taille, main>>
    BY <1>3 DEF EstimationDone
  <2>2. QED
    BY <1>1, <2>1, StageInd DEF Stages, Pending
<1>4. CASE Reconfigurer
  <2>1. /\ est = "reconfigure" /\ at' = at + 1 /\ est' \in {est, "hung"}
        /\ UNCHANGED <<flows, picEnd, first, result, taille, main>>
    BY <1>4 DEF Reconfigurer, Reconfigure, SendControlPacket
  <2>2. QED
    BY <1>1, <2>1, StageInd DEF Stages, Pending
<1>5. CASE Wipe
  BY <1>1, <1>5, StageInd DEF Wipe, Stages, Pending
<1>6. CASE Rearm
  BY <1>1, <1>6, StageInd DEF Rearm, Stages, Pending
<1>7. CASE PicFlowEnd /\ ~(at <= NbCouples)
  <2>1. /\ est = "pic" /\ at > NbCouples /\ at' = 1 /\ est' = "walk"
        /\ UNCHANGED <<flows, picEnd, first, result, taille, main>>
    BY <1>1, <1>7 DEF PicFlowEnd
  <2>2. QED
    BY <1>1, <2>1, StageInd DEF Stages, Pending
<1>8. CASE WriteOutput /\ est' # "free"
  <2>1. est = "reconfigure" /\ UNCHANGED <<flows, picEnd, first, result, taille, main, est, at>>
    BY <1>8 DEF WriteOutput
  <2>2. QED
    BY <1>1, <2>1, StageInd DEF Stages, Pending
<1>9. QED
  BY <1>2, <1>3, <1>4, <1>5, <1>6, <1>7, <1>8

(* Every step preserves the invariant.                                     *)
LEMMA Invariance == IndInv /\ [Next]_vars => IndInv'
<1> SUFFICES ASSUME IndInv, [Next]_vars PROVE IndInv'
  OBVIOUS
<1> DEFINE Still == UNCHANGED <<flows, picEnd, first, result, taille, main, est, at>>
<1>1. ASSUME Still PROVE IndInv'
  <2>1. /\ est \in Stages /\ at \in Nat \ {0}
        /\ \A c \in Couples : Pending(c)' <=> Pending(c)
    BY <1>1 DEF IndInv, Types, Pending
  <2>2. QED
    BY <1>1, <2>1, StageInd
<1>2. CASE AddFlowCount
  <2>1. /\ main = "linked" /\ main' = "idle" /\ taille' = taille + 1
        /\ UNCHANGED <<flows, picEnd, first, result, est, at>>
    BY <1>2 DEF AddFlowCount, walkVars
  <2>2. Types' /\ Counted'
    <3>1. taille \in Int /\ taille + 1 = SumTo(Lengths, NbCouples)
      BY <2>1 DEF IndInv, Types, Counted
    <3>2. Lengths' = Lengths
      BY <2>1 DEF Lengths
    <3>3. taille' \in Int /\ taille' + 0 = SumTo(Lengths', NbCouples)
      BY <2>1, <3>1, <3>2
    <3>4. Counted'
      BY <2>1, <3>3 DEF Counted
    <3>5. Types'
      BY <2>1, <3>3 DEF IndInv, Types
    <3>6. QED
      BY <3>4, <3>5
  <2>3. ASSUME NEW c \in Couples, est' # "hung" PROVE UsedFirst(c)'
    <3>1. UsedFirst(c) /\ (Pending(c)' <=> Pending(c)) /\ Used(c)' = Used(c)
      BY <2>1, <2>3 DEF IndInv, Pending, Used
    <3>2. QED
      BY <2>1, <3>1 DEF UsedFirst
  <2>4. ASSUME NEW c \in Couples, est' = "walk" /\ at' > c
        PROVE  Exact(KeyOf(flows[c]), first[c], picEnd[c], result[c])'
    <3>1. Exact(KeyOf(flows[c]), first[c], picEnd[c], result[c])
      BY <2>1, <2>4 DEF IndInv
    <3>2. QED
      BY <2>1, <3>1
  <2>5. est' = "free" => result' = liberer_result'
    BY <2>1 DEF IndInv, liberer_result
  <2>6. QED
    BY <2>2, <2>3, <2>4, <2>5 DEF IndInv
<1>3. ASSUME NEW s \in Sources, AddFlowLink(s[1], s[2], s[3]) PROVE IndInv'
  BY <1>3, LinkInd
<1>4. CASE Estimation
  <2>1. CASE PicFlowEnd
    BY <2>1, LookInd, StagesInd
  <2>2. CASE EstimateCouple
    <3>1. PICK b : at = b
      OBVIOUS
    <3>2. QED
      BY <2>2, <3>1, EstimateInd
  <2>3. CASE WriteOutput
    BY <2>3, WriteInd, StagesInd
  <2>4. CASE liberer_flow
    BY <2>4, FreeInd
  <2>5. QED
    BY <1>4, <2>1, <2>2, <2>3, <2>4, StagesInd DEF Estimation
<1>5. CASE fcompteurRead \/ fcompteurWrite \/ \E m \in Monitors : AddNode(m)
  <2>1. Still
    BY <1>5 DEF fcompteurRead, fcompteurWrite, AddNode, listVars, walkVars
  <2>2. QED
    BY <1>1, <2>1
<1>6. CASE UNCHANGED vars
  <2>1. Still
    BY <1>6 DEF vars, listVars, walkVars
  <2>2. QED
    BY <1>1, <2>1
<1>7. QED
  BY <1>2, <1>3, <1>4, <1>5, <1>6 DEF Next

-----------------------------------------------------------------------------
(* The theorems *)

(* The collector and the Estimation thread share the lists without a lock, *)
(* and no record is lost: taille counts the records that are linked, and   *)
(* the records a liberer frees are those the estimation used (NothingLost).*)
THEOREM NothingLostCorrect == Spec => []NothingLost
<1>1. IndInv => NothingLost
  <2> SUFFICES ASSUME IndInv PROVE NothingLost
    OBVIOUS
  <2>1. \A c \in Couples : est \in {"reconfigure", "free"} => Used(c) = 1..picEnd[c]
    BY DEF IndInv, UsedFirst, Pending
  <2>2. taille + (IF main = "linked" THEN 1 ELSE 0)
            = SumTo([c \in Couples |-> Len(flows[c])], NbCouples)
    BY DEF IndInv, Counted, Lengths
  <2>3. QED
    BY <2>1, <2>2 DEF NothingLost
<1>2. QED
  BY <1>1, InitInd, Invariance, PTL DEF Spec

(* Whatever records arrive during it, the estimation of a couple makes one *)
(* result of each 5-tuple among the records it looked at, of all of its    *)
(* records, and none of a 5-tuple whose one record is PicFlow_End          *)
(* (OneResultPerFlow).                                                     *)
THEOREM OneResultCorrect == Spec => []OneResultPerFlow
<1>1. IndInv => OneResultPerFlow
  <2> SUFFICES ASSUME IndInv, NEW c \in Couples, est = "walk" /\ at > c
               PROVE  LET new == first[c] + 1 .. picEnd[c]
                          same(k) == {i \in new : flows[c][i].key = k}
                          made == {i \in DOMAIN result[c] : result[c][i] \cap new # {}}
                      IN  /\ {result[c][i] : i \in made}
                                = {same(k) : k \in Keys} \ {{}, {picEnd[c]}}
                          /\ \A i, j \in made : result[c][i] = result[c][j] => i = j
    BY DEF OneResultPerFlow
  <2> DEFINE lo == first[c]
             hi == picEnd[c]
             same(k) == {i \in lo + 1 .. hi : flows[c][i].key = k}
  <2>1. Exact(KeyOf(flows[c]), lo, hi, result[c])
    BY DEF IndInv
  <2>2. \A i \in lo + 1 .. hi : KeyOf(flows[c])[i] = flows[c][i].key
    <3>1. /\ flows[c] \in Seq([key : Keys, agent : Monitors, used : BOOLEAN])
          /\ lo \in Nat /\ hi \in Nat /\ hi <= Len(flows[c])
      BY DEF IndInv, Types, UsedFirst
    <3>2. DOMAIN flows[c] = 1..Len(flows[c]) /\ Len(flows[c]) \in Nat
      BY <3>1
    <3>3. \A i \in lo + 1 .. hi : i \in DOMAIN flows[c]
      BY <3>1, <3>2
    <3>4. QED
      BY <3>3 DEF KeyOf
  <2>3. \A k : Same(KeyOf(flows[c]), lo, hi, k) = same(k)
    BY <2>2 DEF Same
  <2>4. {Same(KeyOf(flows[c]), lo, hi, k) : k \in Keys} = {same(k) : k \in Keys}
    BY <2>3
  <2>5. QED
    BY <2>1, <2>4 DEF Exact, Made
<1>2. QED
  BY <1>1, InitInd, Invariance, PTL DEF Spec

-----------------------------------------------------------------------------
(* The rates *)

(* A monitor whose request was acknowledged has a sampling node, which     *)
(* AddNode therefore never makes anew.                                     *)
AckInv ==
    /\ DOMAIN rate = Monitors /\ DOMAIN node = Monitors
    /\ acked \subseteq Monitors
    /\ \A m \in acked : node[m] # NONE /\ node[m] = rate[m] \div Fine

(* No request has been sent at first.                                      *)
LEMMA AckInit == Init => AckInv
BY DEF Init, AckInv, remplir_les_moniteurs

(* A request changes the rate of one monitor in flowd and, if it is        *)
(* answered, in the monitor.                                               *)
LEMMA ReconfigureAck ==
    ASSUME AckInv, NEW m \in Monitors, Reconfigure(m)
    PROVE  AckInv'
<1> DEFINE new == NewRate(m)
           p == new \div Fine
<1>1. rate' = [rate EXCEPT ![m] = new] /\ SendControlPacket(m, p)
  BY DEF Reconfigure
<1> HIDE DEF new, p
<1>2. /\ DOMAIN rate' = Monitors /\ rate'[m] = new
      /\ \A k \in Monitors : k # m => rate'[k] = rate[k]
  BY <1>1 DEF AckInv
<1>3. CASE UNCHANGED node /\ acked' = acked \ {m}
  BY <1>2, <1>3 DEF AckInv
<1>4. CASE /\ ValidateSamplingRate(p, Whole) /\ ChangeSamplingRate(m, p)
           /\ acked' \in {acked \ {m}, IF node[m] = NONE THEN acked \ {m} ELSE acked \cup {m}}
  <2>1. p # NONE
    BY <1>4 DEF ValidateSamplingRate, NONE
  <2>2. CASE node[m] = NONE
    BY <1>2, <1>4, <2>2 DEF AckInv, ChangeSamplingRate
  <2>3. CASE node[m] # NONE
    <3>1. node' = [node EXCEPT ![m] = p]
      BY <1>4, <2>3 DEF ChangeSamplingRate
    <3>2. /\ DOMAIN node' = Monitors /\ node'[m] = p
          /\ \A k \in Monitors : k # m => node'[k] = node[k]
      BY <3>1 DEF AckInv
    <3>3. acked' \subseteq acked \cup {m}
      BY <1>4
    <3>4. QED
      BY <1>2, <2>1, <3>2, <3>3 DEF AckInv, p
  <2>4. QED
    BY <2>2, <2>3
<1>5. QED
  BY <1>1, <1>3, <1>4 DEF SendControlPacket

(* Every step keeps the rates that were acknowledged in force.             *)
LEMMA AckInvariance == IndInv /\ AckInv /\ [Next]_vars => AckInv'
<1> SUFFICES ASSUME IndInv, AckInv, [Next]_vars PROVE AckInv'
  OBVIOUS
<1> DEFINE Still == UNCHANGED <<rate, node, acked>>
<1>1. ASSUME Still PROVE AckInv'
  BY <1>1 DEF AckInv
<1>2. CASE Reconfigurer
  <2>1. PICK m : m = at
    OBVIOUS
  <2>2. m \in Monitors
    BY <1>2, <2>1, Constants DEF Reconfigurer, IndInv, Types, Monitors
  <2>3. Still \/ Reconfigure(m)
    BY <1>2, <2>1 DEF Reconfigurer
  <2>4. QED
    BY <1>1, <2>2, <2>3, ReconfigureAck
<1>3. ASSUME NEW m \in Monitors, AddNode(m) PROVE AckInv'
  <2>1. node[m] = NONE /\ node' = [node EXCEPT ![m] = InitialRate] /\ UNCHANGED <<rate, acked>>
    BY <1>3 DEF AddNode
  <2>2. m \notin acked
    BY <2>1 DEF AckInv
  <2>3. QED
    BY <2>1, <2>2 DEF AckInv
<1>4. CASE EstimationStarts \/ PicFlowEnd \/ EstimateCouple \/ EstimationDone \/ WriteOutput
           \/ liberer_flow \/ Wipe \/ Rearm
  <2>1. Still
    BY <1>4 DEF EstimationStarts, PicFlowEnd, EstimateCouple, EstimationDone, WriteOutput,
                liberer_flow, Wipe, Rearm, rateVars
  <2>2. QED
    BY <1>1, <2>1
<1>5. CASE \/ AddFlowCount \/ fcompteurRead \/ fcompteurWrite \/ UNCHANGED vars
           \/ \E s \in Sources : AddFlowLink(s[1], s[2], s[3])
  <2>1. Still
    BY <1>5 DEF AddFlowCount, fcompteurRead, fcompteurWrite, AddFlowLink, rateVars, vars
  <2>2. QED
    BY <1>1, <2>1
<1>6. QED
  BY <1>2, <1>3, <1>4, <1>5 DEF Next, Estimation

(* However the collector, the monitors and lost answers interleave, the    *)
(* rate flowd uses for a monitor that acknowledged its last request is the *)
(* one the monitor samples with, up to the digits of the request           *)
(* (AckedRateInForce).                                                     *)
THEOREM AckedRateCorrect == Spec => []AckedRateInForce
<1>1. AckInv => AckedRateInForce
  BY DEF AckInv, AckedRateInForce
<1>2. QED
  BY <1>1, InitInd, Invariance, AckInit, AckInvariance, PTL DEF Spec

=============================================================================
