----------------------------- MODULE NspProofs -----------------------------
(***************************************************************************)
(* Proofs about NSP, modules Playback and Routing.  Playback: no packet is *)
(* passed over by the scans, a reply travels between the ASs of the packet *)
(* it answers, and the three threads implement the queue of reports that   *)
(* softflowd relies on, for any ASs, traces, routes and bounds.  Routing:  *)
(* the costs that Dijkstra leaves are the least costs, and a packet is     *)
(* sampled on the path that flowd is told, for any number of routers and   *)
(* any costs.                                                              *)
(***************************************************************************)
EXTENDS Playback, Routing, Induction, SequenceTheorems

-----------------------------------------------------------------------------
(* Sequences of items with an id *)

Ids(s) == {s[i].id : i \in DOMAIN s}
Increasing(s) == \A i, j \in DOMAIN s : i < j => s[i].id < s[j].id
OneEach(s) == \A i, j \in DOMAIN s : s[i].id = s[j].id => i = j

(* What Append does to the items of a sequence.                            *)
LEMMA AppendItem ==
    ASSUME NEW S, NEW s \in Seq(S), NEW x \in S
    PROVE  /\ Append(s, x) \in Seq(S)
           /\ Len(Append(s, x)) = Len(s) + 1
           /\ DOMAIN s = 1..Len(s) /\ DOMAIN Append(s, x) = 1..Len(s) + 1
           /\ Append(s, x)[Len(s) + 1] = x
           /\ \A i \in 1..Len(s) : Append(s, x)[i] = s[i]
           /\ Range(Append(s, x)) = Range(s) \cup {x}
           /\ Ids(Append(s, x)) = Ids(s) \cup {x.id}
<1> DEFINE t == Append(s, x)
           n == Len(s)
<1>1. /\ t \in Seq(S) /\ Len(t) = n + 1 /\ n \in Nat
      /\ DOMAIN s = 1..n /\ DOMAIN t = 1..n + 1
      /\ t[n + 1] = x /\ \A i \in 1..n : t[i] = s[i]
  OBVIOUS
<1>2. \A i : i \in 1..n + 1 <=> i \in 1..n \/ i = n + 1
  BY <1>1
<1> HIDE DEF t, n
<1>3. Range(t) = Range(s) \cup {x}
  BY <1>1, <1>2 DEF Range
<1>4. Ids(t) = Ids(s) \cup {x.id}
  BY <1>1, <1>2 DEF Ids
<1>5. QED
  BY <1>1, <1>3, <1>4 DEF t, n

(* What Head and Tail do.                                                  *)
LEMMA TailItem ==
    ASSUME NEW S, NEW s \in Seq(S), s # <<>>
    PROVE  /\ Tail(s) \in Seq(S) /\ Head(s) = s[1] /\ s[1] \in S
           /\ Len(Tail(s)) = Len(s) - 1 /\ Len(s) \in Nat \ {0}
           /\ DOMAIN s = 1..Len(s) /\ DOMAIN Tail(s) = 1..Len(s) - 1
           /\ \A i \in 1..Len(s) - 1 : Tail(s)[i] = s[i + 1]
           /\ Range(s) = {s[1]} \cup Range(Tail(s))
           /\ Ids(s) = {s[1].id} \cup Ids(Tail(s))
<1> DEFINE t == Tail(s)
           n == Len(s)
<1>1. /\ t \in Seq(S) /\ Head(s) = s[1] /\ s[1] \in S
      /\ Len(t) = n - 1 /\ n \in Nat \ {0}
      /\ DOMAIN s = 1..n /\ DOMAIN t = 1..n - 1
      /\ \A i \in 1..n - 1 : t[i] = s[i + 1]
  <2>1. n \in Nat \ {0} /\ DOMAIN s = 1..n /\ 1 \in 1..n
    BY EmptySeq
  <2>2. t \in Seq(S) /\ Len(t) = n - 1 /\ DOMAIN t = 1..n - 1
    BY <2>1
  <2>3. \A i \in 1..n - 1 : t[i] = s[i + 1]
    BY <2>1
  <2>4. QED
    BY <2>1, <2>2, <2>3
<1>2. /\ \A i \in 1..n - 1 : i + 1 \in 1..n
      /\ \A i \in 1..n : i = 1 \/ \E j \in 1..n - 1 : i = j + 1
      /\ 1 \in 1..n
  <2>1. ASSUME NEW i \in 1..n, i # 1 PROVE i - 1 \in 1..n - 1 /\ i = (i - 1) + 1
    BY <1>1, <2>1
  <2>2. QED
    BY <1>1, <2>1
<1> HIDE DEF t, n
<1>3. Range(s) = {s[1]} \cup Range(t)
  <2>1. Range(t) \subseteq Range(s) /\ s[1] \in Range(s)
    BY <1>1, <1>2 DEF Range
  <2>2. ASSUME NEW i \in 1..n, i # 1 PROVE s[i] \in Range(t)
    <3>1. PICK j \in 1..n - 1 : i = j + 1
      BY <1>2, <2>2
    <3>2. t[j] = s[i] /\ j \in DOMAIN t
      BY <1>1, <3>1
    <3>3. QED
      BY <3>2 DEF Range
  <2>3. QED
    BY <1>1, <2>1, <2>2 DEF Range
<1>4. Ids(s) = {s[1].id} \cup Ids(t)
  <2>1. ASSUME NEW i \in 1..n - 1 PROVE t[i].id \in Ids(s)
    BY <1>1, <1>2 DEF Ids
  <2>2. ASSUME NEW i \in 1..n, i # 1 PROVE s[i].id \in Ids(t)
    <3>1. PICK j \in 1..n - 1 : i = j + 1
      BY <1>2, <2>2
    <3>2. t[j] = s[i] /\ j \in DOMAIN t
      BY <1>1, <3>1
    <3>3. QED
      BY <3>2 DEF Ids
  <2>3. s[1].id \in Ids(s)
    BY <1>1, <1>2 DEF Ids
  <2>4. QED
    <3>1. DOMAIN s = 1..n /\ DOMAIN t = 1..n - 1
      BY <1>1
    <3>2. Ids(s) = {s[i].id : i \in 1..n} /\ Ids(t) = {t[i].id : i \in 1..n - 1}
      BY <3>1 DEF Ids
    <3>3. QED
      BY <2>1, <2>2, <2>3, <3>2
<1>5. QED
  BY <1>1, <1>3, <1>4 DEF t, n

(* A later item behind increasing ones                                     *)
LEMMA IncreasingAppend ==
    ASSUME NEW S, NEW s \in Seq(S), NEW x \in S, Increasing(s),
           \A i \in Ids(s) : i < x.id
    PROVE  Increasing(Append(s, x))
<1> DEFINE t == Append(s, x)
           n == Len(s)
<1>1. /\ DOMAIN s = 1..n /\ DOMAIN t = 1..n + 1 /\ n \in Nat
      /\ t[n + 1] = x /\ \A i \in 1..n : t[i] = s[i]
  BY AppendItem
<1>2. \A i \in 1..n : s[i].id < x.id
  BY <1>1 DEF Ids
<1>3. \A i, j \in 1..n + 1 : i < j => i \in 1..n /\ (j \in 1..n \/ j = n + 1)
  BY <1>1
<1> HIDE DEF t, n
<1>4. QED
  BY <1>1, <1>2, <1>3 DEF Increasing, t

(* Two sequences without a common id, one behind the other                 *)
LEMMA ConcatItems ==
    ASSUME NEW S, NEW s \in Seq(S), NEW t \in Seq(S),
           OneEach(s), OneEach(t), Ids(s) \cap Ids(t) = {}
    PROVE  /\ s \o t \in Seq(S) /\ OneEach(s \o t)
           /\ Range(s \o t) = Range(s) \cup Range(t)
<1> DEFINE r == s \o t
           m == Len(s)
           n == Len(t)
<1>1. /\ r \in Seq(S) /\ m \in Nat /\ n \in Nat
      /\ DOMAIN s = 1..m /\ DOMAIN t = 1..n /\ DOMAIN r = 1..m + n
  OBVIOUS
<1>2. \A x \in 1..m + n : r[x] = IF x <= m THEN s[x] ELSE t[x - m]
  OBVIOUS
<1>3. /\ \A x \in 1..m : x \in 1..m + n /\ r[x] = s[x]
      /\ \A y \in 1..n : m + y \in 1..m + n /\ r[m + y] = t[y]
  <2>1. \A y \in 1..n : m + y \in 1..m + n /\ ~(m + y <= m) /\ (m + y) - m = y
    BY <1>1
  <2>2. \A x \in 1..m : x \in 1..m + n /\ x <= m
    BY <1>1
  <2>3. QED
    BY <1>2, <2>1, <2>2
<1>4. \A x \in 1..m + n : x \in 1..m \/ \E y \in 1..n : x = m + y
  <2>1. ASSUME NEW x \in 1..m + n, x \notin 1..m PROVE x - m \in 1..n /\ x = m + (x - m)
    BY <1>1, <2>1
  <2>2. QED
    BY <2>1
<1> HIDE DEF r, m, n
<1>5. Range(r) = Range(s) \cup Range(t)
  <2>1. Range(s) \subseteq Range(r)
    BY <1>1, <1>3 DEF Range
  <2>2. ASSUME NEW y \in 1..n PROVE t[y] \in Range(r)
    BY <1>1, <1>3 DEF Range
  <2>3. ASSUME NEW x \in 1..m + n PROVE r[x] \in Range(s) \cup Range(t)
    BY <1>1, <1>3, <1>4 DEF Range
  <2>4. QED
    BY <1>1, <2>1, <2>2, <2>3 DEF Range
<1>6. OneEach(r)
  <2>1. SUFFICES ASSUME NEW x \in 1..m + n, NEW y \in 1..m + n, r[x].id = r[y].id
                 PROVE  x = y
    BY <1>1 DEF OneEach
  <2>2. \A i \in 1..m, j \in 1..n : s[i].id # t[j].id
    BY <1>1 DEF Ids
  <2>3. CASE x \in 1..m /\ y \in 1..m
    BY <1>1, <1>3, <2>1, <2>3 DEF OneEach
  <2>4. CASE x \in 1..m /\ y \notin 1..m
    BY <1>3, <1>4, <2>1, <2>2, <2>4
  <2>5. CASE x \notin 1..m /\ y \in 1..m
    BY <1>3, <1>4, <2>1, <2>2, <2>5
  <2>6. CASE x \notin 1..m /\ y \notin 1..m
    <3>1. PICK i \in 1..n, j \in 1..n : x = m + i /\ y = m + j
      BY <1>4, <2>6
    <3>2. t[i].id = t[j].id
      BY <1>3, <2>1, <3>1
    <3>3. i = j
      BY <1>1, <3>2 DEF OneEach
    <3>4. QED
      BY <3>1, <3>3
  <2>7. QED
    BY <2>3, <2>4, <2>5, <2>6
<1>7. QED
  BY <1>1, <1>5, <1>6 DEF r

-----------------------------------------------------------------------------
(* The scans *)

(* What a scan of a list of S has found.                                   *)
Scans(S) == [due : Seq(S), kept : Seq(S), stop : BOOLEAN]

(* One step of the scan of a list                                          *)
ScanAt(list, ts, before, i) ==
    IF ~before.stop /\ list[i].ts = ts
    THEN [before EXCEPT !.due = Append(@, list[i])]
    ELSE [before EXCEPT !.kept = Append(@, list[i]), !.stop = @ \/ list[i].ts > ts]

(* f has what the scan of the list has found at each place.                *)
ScanOf(f, list, ts, S) ==
    /\ f \in [0..Len(list) -> Scans(S)]
    /\ f[0] = [due |-> <<>>, kept |-> <<>>, stop |-> FALSE]
    /\ \A i \in 1..Len(list) : f[i] = ScanAt(list, ts, f[i - 1], i)

(* One step of the scan yields two lists.                                  *)
LEMMA ScanAtTyped ==
    ASSUME NEW S, NEW list \in Seq(S), NEW ts, NEW before \in Scans(S), NEW i \in 1..Len(list)
    PROVE  ScanAt(list, ts, before, i) \in Scans(S)
<1>1. before.due \in Seq(S) /\ before.kept \in Seq(S) /\ list[i] \in S
  BY DEF Scans
<1>2. Append(before.due, list[i]) \in Seq(S) /\ Append(before.kept, list[i]) \in Seq(S)
  BY <1>1
<1>3. (before.stop \/ list[i].ts > ts) \in BOOLEAN
  OBVIOUS
<1>4. QED
  BY <1>2, <1>3 DEF Scans, ScanAt

(* The scan is well defined.                                               *)
LEMMA ScanDefined ==
    ASSUME NEW S, NEW list \in Seq(S), NEW ts
    PROVE  \E f : ScanOf(f, list, ts, S) /\ Scan(list, ts) = f[Len(list)]
<1> DEFINE n == Len(list)
           V == Scans(S)
           base == [due |-> <<>>, kept |-> <<>>, stop |-> FALSE]
           Step(f) == [i \in 0..n |-> IF i = 0 THEN base ELSE ScanAt(list, ts, f[i - 1], i)]
           g == [x \in Nat \X V |-> IF x[1] \in 1..n THEN ScanAt(list, ts, x[2], x[1]) ELSE base]
<1>1. base \in V /\ n \in Nat
  BY DEF Scans
<1>2. g \in [Nat \X V -> V]
  <2>1. ASSUME NEW i \in 1..n, NEW v \in V PROVE ScanAt(list, ts, v, i) \in V
    BY ScanAtTyped
  <2> HIDE DEF V, base, n
  <2>2. ASSUME NEW x \in Nat \X V
        PROVE  (IF x[1] \in 1..n THEN ScanAt(list, ts, x[2], x[1]) ELSE base) \in V
    BY <1>1, <2>1
  <2>3. QED
    BY <2>2
<1>3. ASSUME NEW i \in 1..n, NEW v \in V PROVE g[<<i, v>>] = ScanAt(list, ts, v, i)
  <2> HIDE DEF V, base
  <2>1. <<i, v>> \in Nat \X V /\ i \in Nat
    BY <1>1
  <2>2. QED
    BY <2>1
<1> HIDE DEF g, V
<1>4. PICK f : Recursive(f, n, V, base, g)
  <2> HIDE DEF n, base
  <2>1. QED
    BY <1>1, <1>2, RecursionExists
<1>5. f = Step(f)
  <2>1. ASSUME NEW i \in 0..n PROVE f[i] = Step(f)[i]
    <3>1. CASE i = 0
      BY <1>4, <3>1 DEF Recursive
    <3>2. CASE i # 0
      <4>1. i \in 1..n /\ i - 1 \in 0..n
        BY <1>1, <3>2
      <4>2. f[i - 1] \in V /\ f[i] = g[<<i, f[i - 1]>>]
        BY <1>4, <4>1 DEF Recursive
      <4>3. QED
        BY <1>3, <3>2, <4>1, <4>2
    <3>3. QED
      BY <3>1, <3>2
  <2>2. QED
    BY <1>4, <2>1 DEF Recursive
<1> DEFINE w == CHOOSE h : h = Step(h)
<1>6. w = Step(w)
  BY <1>5
<1>7. Scan(list, ts) = w[n]
  BY DEF Scan, ScanAt
<1> HIDE DEF w
<1>8. w = [i \in 0..n |-> w[i]] /\ w[0] = base
  BY <1>1, <1>6
<1>9. ASSUME NEW i \in 1..n PROVE w[i] = ScanAt(list, ts, w[i - 1], i)
  <2>1. i \in 0..n /\ i # 0
    BY <1>1
  <2>2. QED
    BY <1>6, <2>1
<1>10. Recursive(w, n, V, base, g)
  <2>1. \A i \in 1..n : w[i - 1] \in V => w[i] = g[<<i, w[i - 1]>>]
    BY <1>3, <1>9
  <2> HIDE DEF n, base
  <2>2. QED
    BY <1>1, <1>2, <1>8, <2>1, RecursionTyped
<1>11. ScanOf(w, list, ts, S)
  BY <1>9, <1>10 DEF ScanOf, Recursive, V
<1>12. QED
  BY <1>7, <1>11

(* The scan splits a list of increasing ids into two, and takes the first  *)
(* packet if it is due.                                                    *)
Split(due, kept, packets) ==
    /\ Increasing(due) /\ Increasing(kept)
    /\ Range(due) \cup Range(kept) = packets
    /\ Ids(due) \cap Ids(kept) = {}

(* A scan splits a list in order into what is due and what is kept, each   *)
(* in order, and takes the first packet if its time has come.              *)
LEMMA ScanSplits ==
    ASSUME NEW S, \A p \in S : p.id \in Nat, NEW list \in Seq(S), NEW ts, Increasing(list)
    PROVE  LET scan == Scan(list, ts)
           IN  /\ scan.due \in Seq(S) /\ scan.kept \in Seq(S)
               /\ Split(scan.due, scan.kept, Range(list))
               /\ list # <<>> /\ list[1].ts = ts => list[1].id \in Ids(scan.due)
<1> DEFINE n == Len(list)
           upTo(i) == {list[j] : j \in 1..i}
<1>1. n \in Nat /\ DOMAIN list = 1..n
  OBVIOUS
<1>2. PICK f : ScanOf(f, list, ts, S) /\ Scan(list, ts) = f[n]
  BY ScanDefined
<1>3. /\ f \in [0..n -> Scans(S)] /\ f[0] = [due |-> <<>>, kept |-> <<>>, stop |-> FALSE]
      /\ \A i \in 1..n : f[i] = ScanAt(list, ts, f[i - 1], i)
  BY <1>2 DEF ScanOf
<1> DEFINE Good(i) == /\ Split(f[i].due, f[i].kept, upTo(i))
                      /\ i > 0 /\ list[1].ts = ts => list[1].id \in Ids(f[i].due)
           P == {i \in Nat : i \in 0..n => Good(i)}
<1>4. 0 \in P
  <2>1. upTo(0) = {} /\ DOMAIN <<>> = {}
    OBVIOUS
  <2>2. Range(<<>>) = {} /\ Ids(<<>>) = {} /\ Increasing(<<>>)
    BY DEF Range, Ids, Increasing
  <2>3. Good(0)
    BY <1>3, <2>1, <2>2 DEF Split
  <2>4. QED
    BY <2>3
<1>5. ASSUME NEW i \in P PROVE i + 1 \in P
  <2>1. SUFFICES ASSUME i + 1 \in 0..n PROVE Good(i + 1)
    OBVIOUS
  <2>2. i \in Nat /\ i \in 0..n /\ (i + 1) - 1 = i /\ i + 1 \in 1..n
    BY <1>1, <2>1
  <2>3. Good(i) /\ f[i] \in Scans(S) /\ f[i + 1] = ScanAt(list, ts, f[i], i + 1)
    BY <1>3, <2>2
  <2> DEFINE x == list[i + 1]
             due == f[i].due
             kept == f[i].kept
             due2 == f[i + 1].due
             kept2 == f[i + 1].kept
  <2>4. x \in S /\ x.id \in Nat /\ due \in Seq(S) /\ kept \in Seq(S)
    BY <2>2, <2>3 DEF Scans
  <2>5. \/ due2 = Append(due, x) /\ kept2 = kept
        \/ due2 = due /\ kept2 = Append(kept, x) /\ (f[i].stop \/ x.ts # ts)
    <3> DEFINE before == f[i]
               m == i + 1
    <3>1. before \in Scans(S) /\ m \in 1..Len(list) /\ f[m] = ScanAt(list, ts, before, m)
      BY <2>2, <2>3
    <3> HIDE DEF before, m, P, Good
    <3>2. \/ f[m].due = Append(before.due, list[m]) /\ f[m].kept = before.kept
          \/ /\ f[m].due = before.due /\ f[m].kept = Append(before.kept, list[m])
             /\ before.stop \/ list[m].ts # ts
      BY <3>1 DEF Scans, ScanAt
    <3>3. QED
      BY <3>2 DEF before, m
  <2>6. upTo(i + 1) = upTo(i) \cup {x}
    <3>1. 1..i + 1 = (1..i) \cup {i + 1}
      BY <2>2
    <3>2. QED
      BY <3>1
  <2>7. ASSUME NEW k \in Ids(due) \cup Ids(kept) PROVE k < x.id
    <3>1. PICK p \in Range(due) \cup Range(kept) : k = p.id
      BY DEF Ids, Range
    <3>2. PICK j \in 1..i : p = list[j]
      BY <2>3, <3>1 DEF Split
    <3>3. j \in 1..n /\ i + 1 \in 1..n /\ j < i + 1
      BY <1>1, <2>2
    <3>4. list[j].id < list[i + 1].id
      BY <1>1, <3>3 DEF Increasing
    <3>5. QED
      BY <3>1, <3>2, <3>4
  <2>8. x.id \notin Ids(due) \cup Ids(kept)
    BY <2>4, <2>7
  <2>9. i = 0 => f[i].stop = FALSE
    BY <1>3
  <2>10. Split(due, kept, upTo(i)) /\ (i > 0 /\ list[1].ts = ts => list[1].id \in Ids(due))
    BY <2>3
  <2> HIDE DEF P, Good, upTo, due, kept, due2, kept2
  <2>11. Split(due2, kept2, upTo(i + 1))
    <3> HIDE DEF x
    <3>1. CASE due2 = Append(due, x) /\ kept2 = kept
      <4>1. /\ Increasing(due2) /\ Range(due2) = Range(due) \cup {x}
            /\ Ids(due2) = Ids(due) \cup {x.id}
        BY <2>4, <2>7, <2>10, <3>1, AppendItem, IncreasingAppend DEF Split
      <4>2. QED
        BY <2>6, <2>8, <2>10, <3>1, <4>1 DEF Split
    <3>2. CASE due2 = due /\ kept2 = Append(kept, x)
      <4>1. /\ Increasing(kept2) /\ Range(kept2) = Range(kept) \cup {x}
            /\ Ids(kept2) = Ids(kept) \cup {x.id}
        BY <2>4, <2>7, <2>10, <3>2, AppendItem, IncreasingAppend DEF Split
      <4>2. QED
        BY <2>6, <2>8, <2>10, <3>2, <4>1 DEF Split
    <3>3. QED
      BY <2>5, <3>1, <3>2
  <2>12. ASSUME list[1].ts = ts PROVE list[1].id \in Ids(due2)
    <3>1. due2 = due \/ Ids(due2) = Ids(due) \cup {x.id}
      <4> HIDE DEF x
      <4>1. Ids(Append(due, x)) = Ids(due) \cup {x.id}
        BY <2>4, AppendItem
      <4>2. QED
        BY <2>5, <4>1
    <3>2. CASE i > 0
      BY <2>10, <2>12, <3>1, <3>2
    <3>3. CASE i = 0
      <4>1. x = list[1] /\ f[i].stop = FALSE
        BY <2>9, <3>3
      <4>2. due2 = Append(due, x)
        BY <2>5, <2>12, <4>1
      <4>3. Ids(due2) = Ids(due) \cup {x.id}
        <5> HIDE DEF x
        <5>1. QED
          BY <2>4, <4>2, AppendItem
      <4>4. QED
        BY <4>1, <4>3
    <3>4. QED
      BY <2>2, <3>2, <3>3
  <2>13. QED
    BY <2>11, <2>12 DEF Good, due2, kept2
<1>6. P = Nat
  <2>1. P \subseteq Nat
    OBVIOUS
  <2> HIDE DEF P
  <2>2. QED
    BY <1>4, <1>5, <2>1, NatInduct
<1>7. Good(n) /\ f[n] \in Scans(S)
  <2> HIDE DEF Good
  <2>1. n \in P /\ n \in 0..n
    BY <1>1, <1>6
  <2>2. QED
    BY <1>3, <2>1
<1>8. upTo(n) = Range(list)
  BY <1>1 DEF Range
<1>9. list # <<>> => n > 0
  BY <1>1, EmptySeq
<1> HIDE DEF upTo
<1>10. QED
  BY <1>2, <1>7, <1>8, <1>9 DEF Scans

-----------------------------------------------------------------------------
(* The packets that wait in the lists, and the batches taken from them *)

Times == {p.ts : p \in Packets}
Addrs == {p.src : p \in Packets} \cup {p.dst : p \in Packets}
Items == [id : Nat \ {0}, ts : Times, src : Addrs, dst : Addrs, couple : Couples]

(* Every list has its packets in the order of the time axis, and a packet  *)
(* is in one list only.                                                    *)
ListsInOrder ==
    /\ matrix \in [Couples -> Seq(Items)]
    /\ \A c \in Couples : Increasing(matrix[c])
    /\ \A c, d \in Couples : c # d => Ids(matrix[c]) \cap Ids(matrix[d]) = {}

(* The ids of a sequence are those of its items.                           *)
LEMMA IdsRange == ASSUME NEW s PROVE Ids(s) = {p.id : p \in Range(s)}
BY DEF Ids, Range

(* In a list in order no id is there twice.                                *)
LEMMA IncreasingOneEach ==
    ASSUME NEW s \in Seq(Items), Increasing(s)
    PROVE  OneEach(s)
<1>1. DOMAIN s = 1..Len(s) /\ Len(s) \in Nat
  OBVIOUS
<1>2. ASSUME NEW i \in 1..Len(s), NEW j \in 1..Len(s), s[i].id = s[j].id, i < j PROVE FALSE
  <2>1. s[i].id < s[j].id
    BY <1>1, <1>2 DEF Increasing
  <2>2. s[i] \in Items
    OBVIOUS
  <2>3. s[i].id \in Nat
    BY <2>2 DEF Items
  <2>4. QED
    BY <1>2, <2>1, <2>3
<1>3. \A i, j \in 1..Len(s) : i < j \/ i = j \/ j < i
  BY <1>1
<1>4. QED
  BY <1>1, <1>2, <1>3 DEF OneEach

(* The scan of the list of a couple                                        *)
LEMMA ScanOfCouple ==
    ASSUME ListsInOrder, NEW c \in Couples, NEW ts
    PROVE  /\ Scan(matrix[c], ts).due \in Seq(Items) /\ Scan(matrix[c], ts).kept \in Seq(Items)
           /\ Split(Scan(matrix[c], ts).due, Scan(matrix[c], ts).kept, Range(matrix[c]))
           /\ matrix[c] # <<>> /\ matrix[c][1].ts = ts
                 => matrix[c][1].id \in Ids(Scan(matrix[c], ts).due)
           /\ OneEach(Scan(matrix[c], ts).due)
           /\ Ids(Scan(matrix[c], ts).due) \subseteq Ids(matrix[c])
           /\ Ids(Scan(matrix[c], ts).kept) \subseteq Ids(matrix[c])
<1> DEFINE list == matrix[c]
           scan == Scan(list, ts)
<1>1. list \in Seq(Items) /\ Increasing(list) /\ \A p \in Items : p.id \in Nat
  BY DEF ListsInOrder, Items
<1>2. /\ scan.due \in Seq(Items) /\ scan.kept \in Seq(Items)
      /\ Split(scan.due, scan.kept, Range(list))
      /\ list # <<>> /\ list[1].ts = ts => list[1].id \in Ids(scan.due)
  <2> HIDE DEF list
  <2>1. QED
    BY <1>1, ScanSplits
<1> HIDE DEF list, scan
<1>3. OneEach(scan.due)
  BY <1>2, IncreasingOneEach DEF Split
<1>4. Ids(scan.due) \subseteq Ids(list) /\ Ids(scan.kept) \subseteq Ids(list)
  <2>1. Range(scan.due) \subseteq Range(list) /\ Range(scan.kept) \subseteq Range(list)
    BY <1>2 DEF Split
  <2>2. QED
    BY <2>1, IdsRange
<1>5. QED
  BY <1>2, <1>3, <1>4 DEF list, scan

(* f has the batch of the first couples at each place.                     *)
BatchOf(f, ts) ==
    /\ f \in [0..Len(lAsCouples) -> Seq(Items)]
    /\ f[0] = <<>>
    /\ \A k \in 1..Len(lAsCouples) : f[k] = f[k - 1] \o Scan(matrix[lAsCouples[k]], ts).due

(* lAsCouples is a sequence of all couples.                                *)
LEMMA CouplesListed ==
    /\ Len(lAsCouples) \in Nat
    /\ \A k \in 1..Len(lAsCouples) : lAsCouples[k] \in Couples
    /\ \A c \in Couples : \E k \in 1..Len(lAsCouples) : lAsCouples[k] = c
    /\ \A j, k \in 1..Len(lAsCouples) : lAsCouples[j] = lAsCouples[k] => j = k
<1>1. DOMAIN lAsCouples = 1..Len(lAsCouples) /\ Len(lAsCouples) \in Nat
  BY CouplesAssumption
<1>2. QED
  BY <1>1, CouplesAssumption DEF Couples, Range, IsInjective

(* The batch is well defined ...                                           *)
LEMMA BatchDefined ==
    ASSUME ListsInOrder, NEW ts
    PROVE  \E f : BatchOf(f, ts) /\ Batch(ts) = f[Len(lAsCouples)]
<1> DEFINE n == Len(lAsCouples)
           V == Seq(Items)
           base == <<>>
           due(k) == Scan(matrix[lAsCouples[k]], ts).due
           Step(f) == [k \in 0..n |-> IF k = 0 THEN base ELSE f[k - 1] \o due(k)]
           g == [x \in Nat \X V |-> IF x[1] \in 1..n THEN x[2] \o due(x[1]) ELSE base]
<1>1. base \in V /\ n \in Nat
  BY CouplesListed
<1>2. ASSUME NEW k \in 1..n, NEW v \in V PROVE v \o due(k) \in V
  <2>1. due(k) \in V
    BY CouplesListed, ScanOfCouple
  <2> HIDE DEF due
  <2>2. QED
    BY <2>1
<1> HIDE DEF due, n, V, base
<1>3. g \in [Nat \X V -> V]
  <2>1. ASSUME NEW x \in Nat \X V
        PROVE  (IF x[1] \in 1..n THEN x[2] \o due(x[1]) ELSE base) \in V
    BY <1>1, <1>2
  <2>2. QED
    BY <2>1
<1>4. ASSUME NEW k \in 1..n, NEW v \in V PROVE g[<<k, v>>] = v \o due(k)
  <2>1. <<k, v>> \in Nat \X V /\ k \in Nat
    BY <1>1
  <2>2. QED
    BY <2>1
<1> HIDE DEF g
<1>5. PICK f : Recursive(f, n, V, base, g)
  BY <1>1, <1>3, RecursionExists
<1>6. f = Step(f)
  <2>1. ASSUME NEW k \in 0..n PROVE f[k] = Step(f)[k]
    <3>1. CASE k = 0
      BY <1>5, <3>1 DEF Recursive
    <3>2. CASE k # 0
      <4>1. k \in 1..n /\ k - 1 \in 0..n
        BY <1>1, <3>2
      <4>2. f[k - 1] \in V /\ f[k] = g[<<k, f[k - 1]>>]
        BY <1>5, <4>1 DEF Recursive
      <4>3. QED
        BY <1>4, <3>2, <4>1, <4>2
    <3>3. QED
      BY <3>1, <3>2
  <2>2. QED
    BY <1>5, <2>1 DEF Recursive
<1> DEFINE w == CHOOSE h : h = Step(h)
<1>7. w = Step(w)
  BY <1>6
<1>8. Batch(ts) = w[n]
  BY DEF Batch, n, base, due
<1> HIDE DEF w
<1>9. w = [k \in 0..n |-> w[k]] /\ w[0] = base
  BY <1>1, <1>7
<1>10. ASSUME NEW k \in 1..n PROVE w[k] = w[k - 1] \o due(k)
  <2>1. k \in 0..n /\ k # 0
    BY <1>1
  <2>2. QED
    BY <1>7, <2>1
<1>11. Recursive(w, n, V, base, g)
  <2>1. \A k \in 1..n : w[k - 1] \in V => w[k] = g[<<k, w[k - 1]>>]
    BY <1>4, <1>10
  <2>2. QED
    BY <1>1, <1>3, <1>9, <2>1, RecursionTyped
<1>12. BatchOf(w, ts)
  BY <1>10, <1>11 DEF BatchOf, Recursive, n, V, base, due
<1>13. QED
  BY <1>8, <1>12 DEF n

(* ... and has what the scans of the lists take, each packet once.         *)
LEMMA BatchTaken ==
    ASSUME ListsInOrder, NEW ts
    PROVE  /\ Batch(ts) \in Seq(Items) /\ OneEach(Batch(ts))
           /\ \A p : p \in Range(Batch(ts))
                  <=> \E c \in Couples : p \in Range(Scan(matrix[c], ts).due)
<1> DEFINE n == Len(lAsCouples)
           C(k) == lAsCouples[k]
           due(k) == Scan(matrix[C(k)], ts).due
<1>1. PICK f : BatchOf(f, ts) /\ Batch(ts) = f[n]
  BY BatchDefined
<1>2. /\ f \in [0..n -> Seq(Items)] /\ f[0] = <<>>
      /\ \A k \in 1..n : f[k] = f[k - 1] \o due(k)
  BY <1>1 DEF BatchOf
<1>3. /\ n \in Nat /\ \A k \in 1..n : C(k) \in Couples
      /\ \A c \in Couples : \E k \in 1..n : C(k) = c
      /\ \A j, k \in 1..n : C(j) = C(k) => j = k
  BY CouplesListed
<1>4. ASSUME NEW k \in 1..n
      PROVE  due(k) \in Seq(Items) /\ OneEach(due(k)) /\ Ids(due(k)) \subseteq Ids(matrix[C(k)])
  BY <1>3, ScanOfCouple
<1>5. ASSUME NEW j \in 1..n, NEW k \in 1..n, j # k PROVE Ids(due(j)) \cap Ids(due(k)) = {}
  <2>1. C(j) \in Couples /\ C(k) \in Couples /\ C(j) # C(k)
    BY <1>3, <1>5
  <2>2. Ids(matrix[C(j)]) \cap Ids(matrix[C(k)]) = {}
    BY <2>1, Zenon DEF ListsInOrder
  <2>3. QED
    BY <1>4, <2>2
<1> HIDE DEF C, due, n
<1> DEFINE Good(k) == /\ OneEach(f[k])
                      /\ \A p : p \in Range(f[k]) <=> \E j \in 1..k : p \in Range(due(j))
           P == {k \in Nat : k \in 0..n => Good(k)}
<1>6. 0 \in P
  <2>1. DOMAIN <<>> = {} /\ 1..0 = {}
    OBVIOUS
  <2>2. OneEach(<<>>) /\ Range(<<>>) = {}
    BY <2>1 DEF OneEach, Range
  <2>3. Good(0)
    BY <1>2, <2>1, <2>2
  <2>4. QED
    BY <2>3
<1>7. ASSUME NEW k \in P PROVE k + 1 \in P
  <2>1. SUFFICES ASSUME k + 1 \in 0..n PROVE Good(k + 1)
    OBVIOUS
  <2>2. k \in Nat /\ k \in 0..n /\ (k + 1) - 1 = k /\ k + 1 \in 1..n
    BY <1>3, <2>1
  <2>3. Good(k)
    BY <2>2
  <2>4. f[k] \in Seq(Items) /\ f[k + 1] = f[k] \o due(k + 1)
    BY <1>2, <2>2
  <2>5. \A j \in 1..k : j \in 1..n /\ j # k + 1
    BY <1>3, <2>2
  <2>6. Ids(f[k]) \cap Ids(due(k + 1)) = {}
    <3>1. SUFFICES ASSUME NEW p \in Range(f[k]), p.id \in Ids(due(k + 1)) PROVE FALSE
      BY IdsRange
    <3>2. PICK j \in 1..k : p \in Range(due(j))
      BY <2>3
    <3>3. p.id \in Ids(due(j))
      BY <3>2, IdsRange
    <3>4. QED
      BY <1>5, <2>2, <2>5, <3>1, <3>3
  <2>7. /\ OneEach(f[k] \o due(k + 1))
        /\ Range(f[k] \o due(k + 1)) = Range(f[k]) \cup Range(due(k + 1))
    BY <1>4, <2>2, <2>3, <2>4, <2>6, ConcatItems
  <2>8. \A j : j \in 1..k + 1 <=> j \in 1..k \/ j = k + 1
    BY <2>2
  <2>9. QED
    BY <2>3, <2>4, <2>7, <2>8
<1>8. P = Nat
  <2>1. P \subseteq Nat
    OBVIOUS
  <2> HIDE DEF P
  <2>2. QED
    BY <1>6, <1>7, <2>1, NatInduct
<1>9. Good(n) /\ f[n] \in Seq(Items)
  <2>1. n \in P /\ n \in 0..n
    BY <1>3, <1>8
  <2> HIDE DEF Good
  <2>2. QED
    BY <1>2, <2>1
<1>10. ASSUME NEW p
       PROVE  (\E j \in 1..n : p \in Range(due(j)))
                  <=> \E c \in Couples : p \in Range(Scan(matrix[c], ts).due)
  BY <1>3 DEF due
<1>11. QED
  BY <1>1, <1>9, <1>10

-----------------------------------------------------------------------------
(* The inductive invariant *)

Reports == [id : Nat, at : Interfaces, first : BOOLEAN]

(* Where the main thread is.                                               *)
Senders == {"idle", "axis", "send", "stopping", "done"}

(* The types of the variables.                                             *)
Types ==
    /\ left \in Seq(Seq(Packets)) /\ left # <<>>
    /\ toSend \in Seq(Items)
    /\ timeAxis \in Seq(Times) /\ timeAxisSize \in Nat /\ uaxe \in Nat
    /\ sender \in Senders /\ hop \in Nat /\ fwd \in BOOLEAN
    /\ buffer \in Seq(Reports) /\ wire \in Seq(Reports)

(* A packet that waits has its entry on what is left of the axis, and not  *)
(* the entry that is being sent.                                           *)
OnTheAxis ==
    /\ uaxe + Len(timeAxis) = timeAxisSize
    /\ sender = "send" => uaxe < timeAxisSize
    /\ \A c \in Couples : \A p \in Range(matrix[c]) :
          /\ p.id \in uaxe + 1..timeAxisSize
          /\ p.ts = timeAxis[p.id - uaxe]
          /\ sender = "send" => p.id # uaxe + 1

(* A packet waits or is being sent, once.                                  *)
Sending ==
    /\ toSend # <<>> => sender = "send"
    /\ OneEach(toSend)
    /\ Ids(toSend) \subseteq 1..timeAxisSize
    /\ \A c \in Couples : Ids(toSend) \cap Ids(matrix[c]) = {}

(* Only packets that no longer wait have been reported, and of those that  *)
(* are being sent only the first one, if it is marked.                     *)
Reported == Ids(buffer) \cup Ids(wire)

Marked ==
    /\ Reported \subseteq 1..timeAxisSize
    /\ \A c \in Couples : Reported \cap Ids(matrix[c]) = {}
    /\ \A i \in DOMAIN toSend : i # 1 => toSend[i].id \notin Reported
    /\ toSend # <<>> => (toSend[1].id \in Reported <=> fwd)

(* The ASs of a packet are the only ones that know its source and its      *)
(* destination, or the ones of their class.                                *)
Placed(p) ==
    /\ method = 2 => /\ AsClass[p.couple[1]] = ClassOf[p.src]
                     /\ AsClass[p.couple[2]] = ClassOf[p.dst]
    /\ method # 2 /\ (method = 1 \/ p.src # p.dst) =>
          /\ FindAs(SourceKey(p)) = {p.couple[1]}
          /\ FindAs(DestKey(p)) = {p.couple[2]}

(* That is so for the packets that wait and those that are being sent.     *)
AllPlaced ==
    /\ method \in {1, 2, 3} /\ DOMAIN known = Ases
    /\ \A p \in Waiting \cup Range(toSend) : Placed(p)

(* No two ASs know a key, other than the one of a packet from an address   *)
(* to itself that is dispatched by flow.                                   *)
KnownOnce ==
    \A a, b \in Ases : \A k \in known[a] \cap known[b] : method = 1 \/ k[1] # k[2] => a = b

(* No conjunct is inductive by itself: that a packet is sent by its turn   *)
(* needs the order of the lists and their place on the axis, that its      *)
(* report is marked needs that it was not reported while it waited.        *)
IndInv == Types /\ ListsInOrder /\ OnTheAxis /\ Sending /\ Marked /\ AllPlaced /\ KnownOnce

(* Nothing is loaded at first.                                             *)
LEMMA InitInd == Init => IndInv
<1> SUFFICES ASSUME Init PROVE IndInv
  OBVIOUS
<1> USE DEF Init
<1>1. DOMAIN <<>> = {} /\ Range(<<>>) = {} /\ Ids(<<>>) = {} /\ Increasing(<<>>) /\ OneEach(<<>>)
  <2>1. DOMAIN <<>> = {}
    OBVIOUS
  <2>2. QED
    BY <2>1 DEF Range, Ids, Increasing, OneEach
<1>2. \A c \in Couples : matrix[c] = <<>>
  OBVIOUS
<1>3. Types
  <2>1. \A S : <<>> \in Seq(S)
    OBVIOUS
  <2>2. left \in Seq(Seq(Packets)) /\ left # <<>>
    BY TracesAssumption
  <2>3. QED
    BY <2>1, <2>2 DEF Types, Senders
<1>4. ListsInOrder
  BY <1>1, <1>2 DEF ListsInOrder
<1>5. OnTheAxis
  BY <1>1, <1>2 DEF OnTheAxis
<1>6. Sending
  BY <1>1, <1>2 DEF Sending
<1>7. Marked
  BY <1>1, <1>2 DEF Marked, Reported
<1>8. AllPlaced
  <2>1. Waiting \cup Range(toSend) = {}
    BY <1>1, <1>2 DEF Waiting
  <2>2. QED
    BY <2>1 DEF AllPlaced
<1>9. KnownOnce
  BY DEF KnownOnce
<1>10. QED
  BY <1>3, <1>4, <1>5, <1>6, <1>7, <1>8, <1>9 DEF IndInv

(* Steps without new packets or keys                                       *)
LEMMA StayPlaced ==
    ASSUME AllPlaced, KnownOnce, UNCHANGED <<method, known, matrix>>,
           Range(toSend') \subseteq Range(toSend)
    PROVE  AllPlaced' /\ KnownOnce'
<1>1. \A p : Placed(p) => Placed(p)'
  BY DEF Placed, FindAs, SourceKey, DestKey
<1>2. Waiting' = Waiting
  BY DEF Waiting
<1>3. \A p \in Waiting' \cup Range(toSend') : Placed(p)'
  BY <1>1, <1>2 DEF AllPlaced
<1>4. QED
  BY <1>3 DEF AllPlaced, KnownOnce

(* Steps that touch no packet                                              *)
LEMMA Still ==
    ASSUME IndInv,
           UNCHANGED <<method, known, axisVars, uaxe, toSend, fwd, buffer, wire>>,
           left' \in Seq(Seq(Packets)), left' # <<>>, hop' \in Nat,
           sender' \in Senders,
           sender' = "send" => sender = "send", toSend # <<>> => sender' = "send"
    PROVE  IndInv'
<1> USE DEF IndInv, axisVars
<1>1. Types'
  BY DEF Types
<1>2. ListsInOrder'
  BY DEF ListsInOrder
<1>3. OnTheAxis'
  BY DEF OnTheAxis
<1>4. Sending'
  BY DEF Sending
<1>5. Marked'
  BY DEF Marked, Reported
<1>6. AllPlaced' /\ KnownOnce'
  BY StayPlaced
<1>7. QED
  BY <1>1, <1>2, <1>3, <1>4, <1>5, <1>6

(* Steps that leave the packets, the axis and the reports alone.           *)
LEMMA StillSteps ==
    ASSUME IndInv,
           \/ LoaderTakes \/ LoaderDispatch \/ DispatchReturns \/ LoaderFails \/ LoaderReleases
           \/ EndOfFile \/ TraficLoadingEnded \/ SenderTakes \/ NotSampled \/ SenderReleases
           \/ Shutdown \/ IfaceTakes \/ IfaceFails \/ IfaceReleases \/ IfaceEnds
           \/ UNCHANGED vars
    PROVE  IndInv'
<1>1. /\ left \in Seq(Seq(Packets)) /\ left # <<>> /\ hop \in Nat
      /\ sender \in Senders /\ (toSend # <<>> => sender = "send")
  BY DEF IndInv, Types, Sending
<1> USE DEF loaderVars, axisVars, senderVars, ifaceVars
<1>2. CASE \/ LoaderTakes \/ LoaderDispatch \/ DispatchReturns \/ LoaderFails \/ LoaderReleases
           \/ TraficLoadingEnded \/ IfaceTakes \/ IfaceFails \/ IfaceReleases \/ IfaceEnds
  BY <1>1, <1>2, Still DEF LoaderTakes, LoaderDispatch, DispatchReturns, LoaderFails,
        LoaderReleases, TraficLoadingEnded, IfaceTakes, IfaceFails, IfaceReleases, IfaceEnds
<1>3. CASE EndOfFile
  <2>1. Len(left) > 1 => Tail(left) \in Seq(Seq(Packets)) /\ Tail(left) # <<>>
    <3>1. /\ Tail(left) \in Seq(Seq(Packets))
          /\ Len(Tail(left)) = Len(left) - 1 /\ Len(left) \in Nat \ {0}
      BY <1>1, TailItem
    <3>2. \A n \in Nat \ {0} : n > 1 => n - 1 # 0
      OBVIOUS
    <3>3. Len(left) > 1 => Len(Tail(left)) # 0
      BY <3>1, <3>2
    <3>4. QED
      BY <3>1, <3>3
  <2>2. QED
    BY <1>1, <1>3, <2>1, Still DEF EndOfFile
<1>4. CASE SenderTakes \/ NotSampled \/ SenderReleases \/ Shutdown
  BY <1>1, <1>4, Still DEF SenderTakes, NotSampled, SenderReleases, Shutdown, Senders
<1>5. CASE UNCHANGED vars
  BY <1>1, <1>5, Still DEF vars
<1>6. QED
  BY <1>2, <1>3, <1>4, <1>5

-----------------------------------------------------------------------------
(* Dispatching *)

(* The AS that is found is the only one that knows the key.                *)
LEMMA FoundOnce ==
    ASSUME KnownOnce, NEW k, method = 1 \/ k[1] # k[2], FindAs(k) # {}
    PROVE  FindAs(k) = {FirstAs(FindAs(k))}
<1>1. PICK a : a \in FindAs(k)
  OBVIOUS
<1>2. a \in Ases /\ a \in Nat /\ FindAs(k) = {a}
  BY <1>1, CouplesAssumption DEF FindAs, KnownOnce
<1>3. a <= a
  BY <1>2
<1>4. FirstAs({a}) = a
  BY <1>3 DEF FirstAs
<1>5. QED
  BY <1>2, <1>4

(* What an AS learns is what no AS knew.                                   *)
LEMMA Learnt ==
    ASSUME DOMAIN known = Ases, NEW p, NEW s \in Ases, NEW d \in Ases, known' = Learn(p, s, d),
           NEW k
    PROVE  FindAs(k)' = FindAs(k)
              \cup (IF k = SourceKey(p) /\ FindAs(k) = {} THEN {s} ELSE {})
              \cup (IF k = DestKey(p) /\ FindAs(k) = {} THEN {d} ELSE {})
<1> DEFINE K == SourceKey(p)
           L == DestKey(p)
           E(x) == FindAs(x) = {}
<1>1. ASSUME NEW a \in Ases
      PROVE  k \in known'[a] <=> \/ k \in known[a] \/ (a = s /\ E(K) /\ k = K)
                                 \/ (a = d /\ E(L) /\ k = L)
  <2> HIDE DEF E, K, L
  <2>1. known'[a] = known[a] \cup (IF a = s /\ E(K) THEN {K} ELSE {})
                             \cup (IF a = d /\ E(L) THEN {L} ELSE {})
    BY DEF Learn, NewKey, E, K, L
  <2>2. QED
    BY <2>1
<1>2. FindAs(k)' = {a \in Ases : k \in known'[a]} /\ FindAs(k) = {a \in Ases : k \in known[a]}
  BY DEF FindAs
<1>3. (k = K /\ E(K) <=> k = K /\ FindAs(k) = {}) /\ (k = L /\ E(L) <=> k = L /\ FindAs(k) = {})
  OBVIOUS
<1> HIDE DEF E, K, L
<1>4. QED
  BY <1>1, <1>2, <1>3 DEF K, L

(* The keys of a packet are one only if it is dispatched by prefix, or     *)
(* goes from an address to itself.                                         *)
LEMMA Keys ==
    ASSUME method \in {1, 3}, NEW p
    PROVE  /\ SourceKey(p) = DestKey(p) => method = 1 \/ SourceKey(p)[1] = SourceKey(p)[2]
           /\ p.src # p.dst => method = 1 \/ SourceKey(p)[1] # SourceKey(p)[2]
           /\ p.src # p.dst => method = 1 \/ DestKey(p)[1] # DestKey(p)[2]
           /\ method = 3 /\ SourceKey(p) = DestKey(p) => p.src = p.dst
<1>1. CASE method = 1
  BY <1>1
<1>2. CASE method = 3
  <2>1. SourceKey(p) = <<p.src, p.dst>> /\ DestKey(p) = <<p.dst, p.src>>
    BY <1>2 DEF SourceKey, DestKey
  <2>2. QED
    BY <1>2, <2>1
<1>3. QED
  BY <1>1, <1>2

(* Dispatching places a packet, moves none and keeps the keys apart.       *)
LEMMA Dispatched ==
    ASSUME AllPlaced, KnownOnce, UNCHANGED method, NEW p, NEW s \in Ases, NEW d \in Ases,
           DispatchByKey(p, s, d) \/ DispatchByClass(p, s, d)
    PROVE  /\ DOMAIN known' = Ases /\ KnownOnce'
           /\ \A q : Placed(q) => Placed(q)'
           /\ \A q : q.src = p.src /\ q.dst = p.dst /\ q.couple = <<s, d>> => Placed(q)'
<1>1. method \in {1, 2, 3} /\ DOMAIN known = Ases
  BY DEF AllPlaced
<1>2. \A q : SourceKey(q)' = SourceKey(q) /\ DestKey(q)' = DestKey(q)
  BY DEF SourceKey, DestKey
<1>3. CASE DispatchByClass(p, s, d)
  <2>1. method = 2 /\ known' = known /\ ClassOf[p.src] = AsClass[s] /\ ClassOf[p.dst] = AsClass[d]
    BY <1>3 DEF DispatchByClass
  <2>2. QED
    BY <1>1, <2>1 DEF Placed, KnownOnce
<1>4. CASE DispatchByKey(p, s, d)
  <2> DEFINE K == SourceKey(p)
             L == DestKey(p)
             F(k) == FindAs(k)
             G(k) == FindAs(k)'
             Plain(k) == method = 1 \/ k[1] # k[2]
  <2>1. /\ method \in {1, 3} /\ known' = Learn(p, s, d)
        /\ F(K) # {} => s = FirstAs(F(K))
        /\ method = 1 /\ F(K) = {} /\ K = L => d = s
        /\ ~(method = 1 /\ F(K) = {} /\ K = L) /\ F(L) # {} => d = FirstAs(F(L))
    BY <1>4 DEF DispatchByKey, SelectAs, SameUnknown
  <2>2. \A k : G(k) = F(k) \cup (IF k = K /\ F(k) = {} THEN {s} ELSE {})
                           \cup (IF k = L /\ F(k) = {} THEN {d} ELSE {})
    BY <1>1, <2>1, Learnt
  <2>3. \A k : Plain(k) /\ F(k) # {} => F(k) = {FirstAs(F(k))}
    BY FoundOnce
  <2>4. /\ K = L => method = 1 \/ ~Plain(K)
        /\ p.src # p.dst => Plain(K) /\ Plain(L)
        /\ method = 1 => Plain(K) /\ Plain(L)
        /\ p.src # p.dst /\ K = L => method = 1
    BY <2>1, Keys
  <2>5. DOMAIN known' = Ases
    BY <2>1 DEF Learn
  <2> HIDE DEF F, G, K, L, Plain
  <2>6. \A k : F(k) # {} => G(k) = F(k)
    BY <2>2
  <2>7. Plain(K) /\ Plain(L) => G(K) = {s} /\ G(L) = {d}
    <3>1. CASE K = L
      BY <2>1, <2>2, <2>3, <2>4, <3>1
    <3>2. CASE K # L
      BY <2>1, <2>2, <2>3, <3>2
    <3>3. QED
      BY <3>1, <3>2
  <2>8. ASSUME NEW k, Plain(k), NEW a \in G(k), NEW b \in G(k) PROVE a = b
    <3>1. CASE F(k) # {}
      BY <2>3, <2>6, <2>8, <3>1
    <3>2. CASE F(k) = {}
      BY <2>1, <2>2, <2>4, <2>8, <3>2
    <3>3. QED
      BY <3>1, <3>2
  <2>9. KnownOnce'
    <3>1. SUFFICES ASSUME NEW a \in Ases, NEW b \in Ases, NEW k \in known'[a] \cap known'[b],
                          method = 1 \/ k[1] # k[2]
                   PROVE  a = b
      BY DEF KnownOnce
    <3>2. a \in G(k) /\ b \in G(k)
      BY <3>1 DEF G, FindAs
    <3>3. QED
      BY <2>8, <3>1, <3>2 DEF Plain
  <2>10. ASSUME NEW q, Placed(q) PROVE Placed(q)'
    <3>1. method = 1 \/ q.src # q.dst =>
            F(SourceKey(q)) = {q.couple[1]} /\ F(DestKey(q)) = {q.couple[2]}
      BY <2>1, <2>10 DEF Placed, F
    <3>2. method = 1 \/ q.src # q.dst =>
            G(SourceKey(q)) = {q.couple[1]} /\ G(DestKey(q)) = {q.couple[2]}
      BY <2>6, <3>1
    <3>3. QED
      BY <1>2, <2>1, <3>2 DEF Placed, G, FindAs
  <2>11. ASSUME NEW q, q.src = p.src, q.dst = p.dst, q.couple = <<s, d>> PROVE Placed(q)'
    <3>1. SourceKey(q) = K /\ DestKey(q) = L /\ q.couple[1] = s /\ q.couple[2] = d
      BY <2>11 DEF SourceKey, DestKey, K, L
    <3>2. method = 1 \/ q.src # q.dst =>
            G(SourceKey(q)) = {q.couple[1]} /\ G(DestKey(q)) = {q.couple[2]}
      BY <2>4, <2>7, <2>11, <3>1
    <3>3. QED
      BY <1>2, <2>1, <3>2 DEF Placed, G, FindAs
  <2>12. QED
    BY <2>5, <2>9, <2>10, <2>11
<1>5. QED
  BY <1>3, <1>4

(* A draw in vain moves no packet and keeps the keys apart.                *)
LEMMA DrawnInVain ==
    ASSUME AllPlaced, KnownOnce, UNCHANGED method, NEW p, DrawFails(p)
    PROVE  DOMAIN known' = Ases /\ KnownOnce' /\ \A q : Placed(q) => Placed(q)'
<1>1. /\ DOMAIN known = Ases /\ method \in {1, 3}
      /\ \A q : SourceKey(q)' = SourceKey(q) /\ DestKey(q)' = DestKey(q)
  BY DEF AllPlaced, DrawFails, SourceKey, DestKey
<1>2. CASE UNCHANGED known
  BY <1>1, <1>2 DEF Placed, FindAs, KnownOnce
<1>3. CASE ~UNCHANGED known
  <2> DEFINE K == SourceKey(p)
             F(k) == FindAs(k)
             G(k) == FindAs(k)'
             Plain(k) == method = 1 \/ k[1] # k[2]
  <2>1. PICK s \in Ases : known' = [a \in Ases |-> known[a] \cup NewKey(a = s, K)]
    BY <1>3 DEF DrawFails
  <2>2. \A k : G(k) = F(k) \cup (IF k = K /\ F(k) = {} THEN {s} ELSE {})
    <3>1. ASSUME NEW k, NEW a \in Ases
          PROVE  k \in known'[a] <=> k \in known[a] \/ (a = s /\ k = K /\ F(K) = {})
      <4>1. known'[a] = known[a] \cup (IF a = s /\ F(K) = {} THEN {K} ELSE {})
        BY <2>1 DEF NewKey
      <4> HIDE DEF F, K
      <4>2. QED
        BY <4>1
    <3>2. \A k : F(k) = {a \in Ases : k \in known[a]} /\ G(k) = {a \in Ases : k \in known'[a]}
      BY DEF FindAs
    <3> HIDE DEF F, G, K
    <3>3. QED
      BY <3>1, <3>2
  <2>3. \A k : Plain(k) /\ F(k) # {} => F(k) = {FirstAs(F(k))}
    BY FoundOnce
  <2>4. DOMAIN known' = Ases
    BY <2>1
  <2> HIDE DEF F, G, K, Plain
  <2>5. \A k : F(k) # {} => G(k) = F(k)
    BY <2>2
  <2>6. \A k : Plain(k) => \A a, b \in G(k) : a = b
    BY <2>2, <2>3
  <2>7. KnownOnce'
    <3>1. SUFFICES ASSUME NEW a \in Ases, NEW b \in Ases, NEW k \in known'[a] \cap known'[b],
                          method = 1 \/ k[1] # k[2]
                   PROVE  a = b
      BY DEF KnownOnce
    <3>2. a \in G(k) /\ b \in G(k)
      BY <3>1 DEF G, FindAs
    <3>3. QED
      BY <2>6, <3>1, <3>2 DEF Plain
  <2>8. ASSUME NEW q, Placed(q) PROVE Placed(q)'
    <3>1. method = 1 \/ q.src # q.dst =>
            F(SourceKey(q)) = {q.couple[1]} /\ F(DestKey(q)) = {q.couple[2]}
      BY <1>1, <2>8 DEF Placed, F
    <3>2. method = 1 \/ q.src # q.dst =>
            G(SourceKey(q)) = {q.couple[1]} /\ G(DestKey(q)) = {q.couple[2]}
      BY <2>5, <3>1
    <3>3. QED
      BY <1>1, <3>2 DEF Placed, G, FindAs
  <2>9. QED
    BY <2>4, <2>7, <2>8
<1>4. QED
  BY <1>2, <1>3

-----------------------------------------------------------------------------
(* The steps of the threads *)

(* The next packet of a trace.                                             *)
LEMMA NextPacket ==
    ASSUME Types, Head(left) # <<>>
    PROVE  /\ Head(Head(left)) \in Packets
           /\ <<Tail(Head(left))>> \o Tail(left) \in Seq(Seq(Packets))
           /\ <<Tail(Head(left))>> \o Tail(left) # <<>>
<1>1. Head(left) \in Seq(Packets) /\ Tail(left) \in Seq(Seq(Packets))
  <2>1. left \in Seq(Seq(Packets)) /\ left # <<>>
    BY DEF Types
  <2>2. QED
    BY <2>1, TailItem
<1>2. Head(Head(left)) \in Packets /\ Tail(Head(left)) \in Seq(Packets)
  BY <1>1, TailItem
<1> DEFINE a == Tail(Head(left))
           b == Tail(left)
<1>3. a \in Seq(Packets) /\ b \in Seq(Seq(Packets))
  BY <1>1, <1>2
<1> HIDE DEF a, b
<1>4. <<a>> \in Seq(Seq(Packets)) /\ Len(<<a>>) = 1
  BY <1>3
<1>5. <<a>> \o b \in Seq(Seq(Packets)) /\ Len(<<a>> \o b) = 1 + Len(b) /\ Len(b) \in Nat
  BY <1>3, <1>4
<1>6. <<a>> \o b # <<>>
  <2>1. Len(<<a>> \o b) # 0
    BY <1>5
  <2>2. QED
    BY <2>1
<1>7. QED
  BY <1>2, <1>5, <1>6 DEF a, b

(* A packet that is dispatched is the last one of the axis and of its      *)
(* list.                                                                   *)
LEMMA LoadedInd ==
    ASSUME IndInv, NEW p \in Packets, NEW s \in Ases, NEW d \in Ases,
           left' \in Seq(Seq(Packets)), left' # <<>>,
           UNCHANGED <<method, senderVars, wire, buffer>>,
           DispatchByKey(p, s, d) \/ DispatchByClass(p, s, d),
           timeAxis' = Append(timeAxis, p.ts),
           timeAxisSize' = timeAxisSize + 1,
           matrix' = [matrix EXCEPT ![<<s, d>>] = PushPacket(Loaded(p, s, d), @)]
    PROVE  IndInv'
<1>0. PICK x : x = Loaded(p, s, d)
  OBVIOUS
<1> DEFINE e == <<s, d>>
           n == timeAxisSize
<1>1. /\ Types /\ ListsInOrder /\ OnTheAxis /\ Sending /\ Marked /\ AllPlaced /\ KnownOnce
      /\ n \in Nat /\ uaxe \in Nat /\ timeAxis \in Seq(Times)
  BY DEF IndInv, Types
<1>2. UNCHANGED <<method, sender, uaxe, toSend, hop, fwd, wire, buffer>>
  BY DEF senderVars
<1>3. x \in Items /\ x.id = n + 1 /\ x.ts = p.ts /\ x.src = p.src /\ x.dst = p.dst
      /\ x.couple = e /\ e \in Couples /\ p.ts \in Times
  BY <1>0, <1>1 DEF Loaded, Items, Times, Addrs, Couples
<1>4. matrix \in [Couples -> Seq(Items)]
  BY <1>1 DEF ListsInOrder
<1>5. /\ matrix' \in [Couples -> Seq(Items)] /\ matrix'[e] = Append(matrix[e], x)
      /\ \A c \in Couples : c # e => matrix'[c] = matrix[c]
  <2>1. matrix[e] \in Seq(Items)
    BY <1>3, <1>4
  <2> HIDE DEF e
  <2>2. Append(matrix[e], x) \in Seq(Items)
    BY <1>3, <2>1
  <2>3. matrix' = [matrix EXCEPT ![e] = Append(@, x)]
    BY <1>0 DEF PushPacket, e
  <2>4. QED
    BY <1>3, <1>4, <2>2, <2>3
<1> HIDE DEF e, n
<1>6. ASSUME NEW c \in Couples
      PROVE  /\ Ids(matrix'[c]) = Ids(matrix[c]) \cup (IF c = e THEN {n + 1} ELSE {})
             /\ Range(matrix'[c]) = Range(matrix[c]) \cup (IF c = e THEN {x} ELSE {})
  <2>1. matrix[c] \in Seq(Items)
    BY <1>4
  <2>2. CASE c = e
    <3> DEFINE list == matrix[e]
    <3>1. list \in Seq(Items)
      BY <2>1, <2>2
    <3> HIDE DEF list
    <3>2. Ids(Append(list, x)) = Ids(list) \cup {x.id} /\ Range(Append(list, x)) = Range(list) \cup {x}
      BY <1>3, <3>1, AppendItem
    <3>3. QED
      BY <1>3, <1>5, <2>2, <3>2 DEF list
  <2>3. CASE c # e
    BY <1>5, <2>3
  <2>4. QED
    BY <2>2, <2>3
<1>7. ASSUME NEW c \in Couples PROVE Ids(matrix[c]) \subseteq 1..n
  <2>1. ASSUME NEW q \in Range(matrix[c]) PROVE q.id \in 1..n
    <3>1. q.id \in uaxe + 1..n
      BY <1>1 DEF OnTheAxis, n
    <3>2. QED
      BY <1>1, <3>1
  <2>2. QED
    BY <2>1, IdsRange
<1>8. n + 1 \notin 1..n /\ 1..n \subseteq 1..n + 1 /\ n' = n + 1
  BY <1>1 DEF n
<1>9. Types'
  <2>1. timeAxis' \in Seq(Times)
    BY <1>1, <1>3
  <2>2. QED
    BY <1>1, <1>2, <1>8, <2>1 DEF Types, n
<1>10. ListsInOrder'
  <2>1. ASSUME NEW c \in Couples PROVE Increasing(matrix'[c])
    <3>1. Increasing(matrix[c]) /\ matrix[c] \in Seq(Items)
      BY <1>1, <1>4 DEF ListsInOrder
    <3>2. \A i \in 1..n : i < n + 1
      BY <1>1
    <3>3. CASE c = e
      <4> DEFINE list == matrix[c]
      <4>1. list \in Seq(Items) /\ Increasing(list) /\ \A i \in Ids(list) : i < x.id
        BY <1>3, <1>7, <3>1, <3>2
      <4> HIDE DEF list
      <4>2. Increasing(Append(list, x))
        BY <1>3, <4>1, IncreasingAppend
      <4>3. QED
        BY <1>5, <3>3, <4>2 DEF list
    <3>4. CASE c # e
      BY <1>5, <3>1, <3>4
    <3>5. QED
      BY <3>3, <3>4
  <2>2. ASSUME NEW c \in Couples, NEW f \in Couples, c # f
        PROVE  Ids(matrix'[c]) \cap Ids(matrix'[f]) = {}
    <3>1. Ids(matrix[c]) \cap Ids(matrix[f]) = {}
      BY <1>1, <2>2 DEF ListsInOrder
    <3>2. n + 1 \notin Ids(matrix[c]) /\ n + 1 \notin Ids(matrix[f])
      BY <1>7, <1>8
    <3>3. ~(c = e /\ f = e)
      BY <2>2
    <3>4. QED
      BY <1>6, <3>1, <3>2, <3>3
  <2>3. QED
    BY <1>5, <2>1, <2>2 DEF ListsInOrder
<1>11. OnTheAxis'
  <2> DEFINE t == timeAxis
             m == Len(t)
  <2>1. m \in Nat /\ uaxe + m = n /\ (sender = "send" => uaxe < n)
    BY <1>1 DEF OnTheAxis, n
  <2>2. Len(t') = m + 1 /\ t'[m + 1] = p.ts /\ \A i \in 1..m : t'[i] = t[i]
    BY <1>1, <1>3, AppendItem
  <2>3. ASSUME NEW c \in Couples, NEW q \in Range(matrix'[c])
        PROVE  /\ q.id \in uaxe + 1..n + 1 /\ q.ts = t'[q.id - uaxe]
               /\ sender = "send" => q.id # uaxe + 1
    <3>1. CASE q = x
      <4>1. (n + 1) - uaxe = m + 1 /\ n + 1 \in uaxe + 1..n + 1
        BY <1>1, <2>1
      <4>2. sender = "send" => n + 1 # uaxe + 1
        BY <1>1, <2>1
      <4>3. QED
        BY <1>3, <2>2, <3>1, <4>1, <4>2
    <3>2. CASE q # x
      <4>1. /\ q.id \in uaxe + 1..n /\ q.ts = t[q.id - uaxe]
            /\ sender = "send" => q.id # uaxe + 1
        BY <1>1, <1>6, <3>2 DEF OnTheAxis, n
      <4>2. q.id \in uaxe + 1..n + 1 /\ q.id - uaxe \in 1..m
        <5>1. uaxe \in Nat /\ n \in Nat
          BY <1>1, <2>1
        <5>2. q.id \in Nat /\ uaxe + 1 <= q.id /\ q.id <= n
          BY <4>1, <5>1
        <5> HIDE DEF m, n
        <5>3. m \in Nat /\ n = uaxe + m
          BY <2>1
        <5>4. QED
          BY <5>1, <5>2, <5>3, SMTT(30)
      <4>3. QED
        BY <2>2, <4>1, <4>2
    <3>3. QED
      BY <3>1, <3>2
  <2>4. uaxe + (m + 1) = n + 1 /\ (sender = "send" => uaxe < n + 1)
    <3>1. \A u, k, l \in Nat : u + k = l => u + (k + 1) = l + 1
      OBVIOUS
    <3>2. \A u, l \in Nat : u < l => u < l + 1
      OBVIOUS
    <3> HIDE DEF m
    <3>3. QED
      BY <1>1, <2>1, <3>1, <3>2
  <2>5. QED
    BY <1>2, <1>8, <2>2, <2>3, <2>4 DEF OnTheAxis, n
<1>12. Sending'
  <2>1. Ids(toSend) \subseteq 1..n
    BY <1>1 DEF Sending, n
  <2>2. ASSUME NEW c \in Couples PROVE Ids(toSend) \cap Ids(matrix'[c]) = {}
    BY <1>1, <1>6, <1>8, <2>1 DEF Sending
  <2>3. QED
    BY <1>1, <1>2, <1>8, <2>1, <2>2 DEF Sending, n
<1>13. Marked'
  <2>1. Reported \subseteq 1..n
    BY <1>1 DEF Marked, n
  <2>2. ASSUME NEW c \in Couples PROVE Reported \cap Ids(matrix'[c]) = {}
    BY <1>1, <1>6, <1>8, <2>1 DEF Marked
  <2>3. Reported' = Reported
    BY <1>2 DEF Reported
  <2>4. QED
    BY <1>1, <1>2, <1>8, <2>1, <2>2, <2>3 DEF Marked, n
<1>14. DOMAIN known' = Ases /\ KnownOnce' /\ Placed(x)' /\ \A q : Placed(q) => Placed(q)'
  <2>1. UNCHANGED method
    BY <1>2
  <2>2. x.src = p.src /\ x.dst = p.dst /\ x.couple = <<s, d>>
    BY <1>3 DEF e
  <2>3. \A q : q.src = p.src /\ q.dst = p.dst /\ q.couple = <<s, d>> => Placed(q)'
    BY <1>1, <2>1, Dispatched
  <2>4. DOMAIN known' = Ases /\ KnownOnce' /\ \A q : Placed(q) => Placed(q)'
    BY <1>1, <2>1, Dispatched
  <2>5. QED
    BY <2>2, <2>3, <2>4
<1>15. AllPlaced'
  <2>1. \A q \in Waiting' : q = x \/ q \in Waiting
    BY <1>6 DEF Waiting
  <2>2. \A q \in Waiting \cup Range(toSend) : Placed(q)
    BY <1>1 DEF AllPlaced
  <2>3. \A q \in Waiting' \cup Range(toSend)' : Placed(q)'
    BY <1>2, <1>14, <2>1, <2>2
  <2>4. QED
    BY <1>1, <1>2, <1>14, <2>3 DEF AllPlaced
<1>16. QED
  BY <1>9, <1>10, <1>11, <1>12, <1>13, <1>14, <1>15 DEF IndInv

(* A packet read from a trace is put at the end of its list and of the     *)
(* axis, under ASs that know its addresses from now on.                    *)
LEMMA ReadPacketInd == IndInv /\ ReadPacket => IndInv'
<1> SUFFICES ASSUME IndInv, ReadPacket PROVE IndInv'
  OBVIOUS
<1> DEFINE p == Head(Head(left))
<1>1. /\ PerPacketCallBackFunction(p) /\ Head(left) # <<>>
      /\ left' = <<Tail(Head(left))>> \o Tail(left)
      /\ UNCHANGED <<method, senderVars, wire, buffer>>
  BY DEF ReadPacket, ifaceVars
<1>2. p \in Packets /\ left' \in Seq(Seq(Packets)) /\ left' # <<>>
  BY <1>1, NextPacket DEF IndInv
<1>3. PICK y : y = p
  OBVIOUS
<1>4. CASE Undispatched(p)
  <2>1. /\ hop \in Nat /\ sender \in Senders
        /\ toSend # <<>> => sender = "send"
    BY DEF IndInv, Types, Sending
  <2>2. UNCHANGED <<method, known, axisVars, uaxe, toSend, fwd, buffer, wire>> /\ hop' = hop
        /\ sender' = sender
    BY <1>1, <1>4 DEF Undispatched, senderVars, axisVars
  <2>3. QED
    BY <1>2, <2>1, <2>2, Still
<1>5. CASE DrawFails(p)
  <2>1. UNCHANGED <<method, axisVars, sender, uaxe, toSend, hop, fwd, buffer, wire>>
    BY <1>1, <1>5 DEF DrawFails, senderVars
  <2>2. DOMAIN known' = Ases /\ KnownOnce' /\ \A q : Placed(q) => Placed(q)'
    BY <1>1, <1>5, DrawnInVain DEF IndInv
  <2>3. Types'
    BY <1>2, <2>1 DEF IndInv, Types, axisVars
  <2>4. ListsInOrder' /\ OnTheAxis' /\ Sending' /\ Marked'
    BY <2>1 DEF IndInv, ListsInOrder, OnTheAxis, Sending, Marked, Reported, axisVars
  <2>5. AllPlaced'
    <3>1. Waiting' = Waiting /\ Range(toSend)' = Range(toSend)
      BY <2>1 DEF Waiting, axisVars
    <3>2. QED
      BY <2>1, <2>2, <3>1 DEF IndInv, AllPlaced
  <2>6. QED
    BY <2>2, <2>3, <2>4, <2>5 DEF IndInv
<1>6. CASE ~Undispatched(p) /\ ~DrawFails(p)
  <2> HIDE DEF p
  <2>1. PICK s \in Ases, d \in Ases :
            /\ DispatchByKey(y, s, d) \/ DispatchByClass(y, s, d)
            /\ timeAxis' = Append(timeAxis, y.ts)
            /\ timeAxisSize' = timeAxisSize + 1
            /\ matrix' = [matrix EXCEPT ![<<s, d>>] = PushPacket(Loaded(y, s, d), @)]
    BY <1>1, <1>3, <1>6 DEF PerPacketCallBackFunction
  <2>2. y \in Packets
    BY <1>2, <1>3
  <2>3. QED
    BY <1>1, <1>2, <2>1, <2>2, LoadedInd
<1>7. QED
  BY <1>4, <1>5, <1>6

(* The scans of the lists take the packets of the current entry.           *)
LEMMA UpdateInd == IndInv /\ UpdateTheListOfPacketsToSend => IndInv'
<1> SUFFICES ASSUME IndInv, UpdateTheListOfPacketsToSend PROVE IndInv'
  OBVIOUS
<1>1. PICK t : t = Head(timeAxis)
  OBVIOUS
<1> DEFINE n == timeAxisSize
           Due(c) == Scan(matrix[c], t).due
           Kept(c) == Scan(matrix[c], t).kept
<1>2. /\ sender = "axis" /\ uaxe < n /\ sender' = "send" /\ hop' = 0 /\ fwd' = FALSE
      /\ toSend' = Batch(t) /\ matrix' = [c \in Couples |-> Kept(c)]
      /\ UNCHANGED <<method, left, known, timeAxis, n, uaxe, wire, buffer>>
  BY <1>1 DEF UpdateTheListOfPacketsToSend, loaderVars, ifaceVars
<1>3. /\ Types /\ ListsInOrder /\ OnTheAxis /\ Sending /\ Marked /\ AllPlaced /\ KnownOnce
      /\ n \in Nat /\ uaxe \in Nat /\ timeAxis \in Seq(Times)
  BY DEF IndInv, Types
<1>4. ASSUME NEW c \in Couples
      PROVE  /\ Due(c) \in Seq(Items) /\ Kept(c) \in Seq(Items) /\ OneEach(Due(c))
             /\ Increasing(Kept(c)) /\ Ids(Due(c)) \cap Ids(Kept(c)) = {}
             /\ Range(Due(c)) \subseteq Range(matrix[c]) /\ Range(Kept(c)) \subseteq Range(matrix[c])
             /\ Ids(Due(c)) \subseteq Ids(matrix[c]) /\ Ids(Kept(c)) \subseteq Ids(matrix[c])
             /\ matrix[c] # <<>> /\ matrix[c][1].ts = t => matrix[c][1].id \in Ids(Due(c))
  BY <1>3, ScanOfCouple DEF Split
<1>5. /\ toSend' \in Seq(Items) /\ OneEach(toSend')
      /\ \A p : p \in Range(toSend') <=> \E c \in Couples : p \in Range(Due(c))
  BY <1>2, <1>3, BatchTaken
<1> HIDE DEF n, Due, Kept
<1>6. \A c \in Couples : matrix'[c] = Kept(c)
  BY <1>2
<1>7. ASSUME NEW i \in Ids(toSend') PROVE \E c \in Couples : i \in Ids(Due(c))
  <2>1. PICK p \in Range(toSend') : i = p.id
    BY IdsRange
  <2>2. PICK c \in Couples : p \in Range(Due(c))
    BY <1>5
  <2>3. QED
    BY <2>1, <2>2, IdsRange
<1>8. ASSUME NEW c \in Couples, NEW p \in Range(matrix[c])
      PROVE  p.id \in uaxe + 1..n /\ p.ts = timeAxis[p.id - uaxe] /\ p.id \in Ids(matrix[c])
  BY <1>3, IdsRange DEF OnTheAxis, n
<1>9. Types'
  <2>1. toSend' \in Seq(Items) /\ hop' \in Nat /\ fwd' \in BOOLEAN
    BY <1>2, <1>5
  <2>2. QED
    BY <1>2, <1>3, <2>1 DEF Types, Senders, n
<1>10. ListsInOrder'
  <2>1. matrix' \in [Couples -> Seq(Items)]
    BY <1>2, <1>4
  <2>2. ASSUME NEW c \in Couples, NEW d \in Couples, c # d
        PROVE  Ids(matrix'[c]) \cap Ids(matrix'[d]) = {}
    <3>1. Ids(matrix[c]) \cap Ids(matrix[d]) = {}
      BY <1>3, <2>2 DEF ListsInOrder
    <3>2. QED
      BY <1>4, <1>6, <3>1
  <2>3. \A c \in Couples : Increasing(matrix'[c])
    BY <1>4, <1>6
  <2>4. QED
    BY <2>1, <2>2, <2>3 DEF ListsInOrder
<1>11. ASSUME NEW c \in Couples, NEW p \in Range(Kept(c)) PROVE p.id # uaxe + 1
  <2>1. SUFFICES ASSUME p.id = uaxe + 1 PROVE FALSE
    OBVIOUS
  <2> DEFINE list == matrix[c]
  <2>2. p \in Range(list) /\ list \in Seq(Items) /\ Increasing(list)
    BY <1>3, <1>4, <1>11 DEF ListsInOrder
  <2>3. PICK i \in 1..Len(list) : p = list[i]
    BY <2>2 DEF Range
  <2>4. 1 \in 1..Len(list) /\ DOMAIN list = 1..Len(list) /\ list # <<>> /\ (i # 1 => 1 < i)
    BY <2>2, <2>3
  <2>5. list[1] \in Range(list)
    BY <2>4 DEF Range
  <2>6. list[1].id \in uaxe + 1..n
    BY <1>8, <2>5
  <2>7. i = 1
    <3>1. SUFFICES ASSUME i # 1 PROVE FALSE
      OBVIOUS
    <3>2. list[1].id < list[i].id
      BY <2>2, <2>3, <2>4, <3>1 DEF Increasing
    <3>3. list[1].id < uaxe + 1
      BY <2>1, <2>3, <3>2
    <3> HIDE DEF list
    <3>4. QED
      BY <1>3, <2>6, <3>3
  <2>8. p.ts = t
    <3>1. p.ts = timeAxis[p.id - uaxe]
      BY <1>8, <2>2
    <3>2. p.id - uaxe = 1
      BY <1>3, <2>1
    <3>3. timeAxis # <<>>
      <4>1. uaxe + Len(timeAxis) = n
        BY <1>3 DEF OnTheAxis, n
      <4>2. Len(timeAxis) # 0
        BY <1>2, <1>3, <4>1
      <4>3. QED
        BY <4>2
    <3>4. t = timeAxis[1]
      BY <1>1, <1>3, <3>3, TailItem
    <3>5. QED
      BY <3>1, <3>2, <3>4
  <2>9. p.id \in Ids(Due(c))
    BY <1>4, <2>3, <2>4, <2>7, <2>8
  <2>10. p.id \in Ids(Kept(c))
    BY <1>11, IdsRange
  <2>11. QED
    BY <1>4, <2>9, <2>10
<1>12. OnTheAxis'
  <2>1. uaxe + Len(timeAxis) = n
    BY <1>3 DEF OnTheAxis, n
  <2>2. ASSUME NEW c \in Couples, NEW p \in Range(matrix'[c])
        PROVE  p.id \in uaxe + 1..n /\ p.ts = timeAxis[p.id - uaxe] /\ p.id # uaxe + 1
    <3>1. p \in Range(Kept(c)) /\ p \in Range(matrix[c])
      BY <1>4, <1>6
    <3>2. QED
      BY <1>8, <1>11, <3>1
  <2>3. QED
    BY <1>2, <2>1, <2>2 DEF OnTheAxis, n
<1>13. Sending'
  <2>1. Ids(toSend') \subseteq 1..n
    <3>1. ASSUME NEW c \in Couples, NEW p \in Range(Due(c)) PROVE p.id \in 1..n
      <4>1. p.id \in uaxe + 1..n
        BY <1>4, <1>8
      <4>2. QED
        BY <1>3, <4>1
    <3>2. QED
      BY <1>5, <3>1, IdsRange
  <2>2. ASSUME NEW c \in Couples PROVE Ids(toSend') \cap Ids(matrix'[c]) = {}
    <3>1. SUFFICES ASSUME NEW i \in Ids(toSend'), i \in Ids(Kept(c)) PROVE FALSE
      BY <1>6
    <3>2. PICK d \in Couples : i \in Ids(Due(d))
      BY <1>7
    <3>3. CASE c = d
      BY <1>4, <3>1, <3>2, <3>3
    <3>4. CASE c # d
      <4>1. Ids(matrix[c]) \cap Ids(matrix[d]) = {}
        BY <1>3, <3>4 DEF ListsInOrder
      <4>2. QED
        BY <1>4, <3>1, <3>2, <4>1
    <3>5. QED
      BY <3>3, <3>4
  <2>3. QED
    BY <1>2, <1>5, <2>1, <2>2 DEF Sending, n
<1>14. Marked'
  <2>1. Reported' = Reported
    BY <1>2 DEF Reported
  <2>2. \A c \in Couples : Reported \cap Ids(matrix[c]) = {}
    BY <1>3 DEF Marked
  <2>3. Reported \subseteq 1..n /\ \A c \in Couples : Reported \cap Ids(matrix'[c]) = {}
    BY <1>3, <1>4, <1>6, <2>2 DEF Marked, n
  <2>4. \A i \in Ids(toSend') : i \notin Reported
    BY <1>4, <1>7, <2>2
  <2>5. \A i \in DOMAIN toSend' : toSend'[i].id \notin Reported
    BY <2>4 DEF Ids
  <2>6. toSend' # <<>> => 1 \in DOMAIN toSend'
    <3>1. ASSUME toSend' # <<>> PROVE 1 \in DOMAIN toSend'
      <4>1. Len(toSend') \in Nat \ {0} /\ DOMAIN toSend' = 1..Len(toSend')
        BY <1>5, <3>1, TailItem
      <4>2. QED
        BY <4>1
    <3>2. QED
      BY <3>1
  <2>7. QED
    BY <1>2, <2>1, <2>3, <2>5, <2>6 DEF Marked, n
<1>15. AllPlaced' /\ KnownOnce'
  <2>1. ASSUME NEW p \in Waiting' \cup Range(toSend') PROVE p \in Waiting
    BY <1>4, <1>5, <1>6 DEF Waiting
  <2>2. \A p \in Waiting : Placed(p)
    BY <1>3 DEF AllPlaced
  <2>3. \A p : Placed(p) => Placed(p)'
    BY <1>2 DEF Placed, FindAs, SourceKey, DestKey
  <2>4. \A p \in Waiting' \cup Range(toSend') : Placed(p)'
    BY <2>1, <2>2, <2>3
  <2>5. QED
    BY <1>2, <1>3, <2>4 DEF AllPlaced, KnownOnce
<1>16. QED
  BY <1>9, <1>10, <1>12, <1>13, <1>14, <1>15 DEF IndInv

(* What a report of the first packet to send is                            *)
LEMMA ReportTyped ==
    ASSUME Types, toSend # <<>>, hop < Len(Route[Head(toSend).couple])
    PROVE  /\ ReportOf(Head(toSend), Route[Head(toSend).couple][hop + 1]) \in Reports
           /\ ReportOf(Head(toSend), Route[Head(toSend).couple][hop + 1]).id = toSend[1].id
<1>1. PICK p : p = Head(toSend)
  OBVIOUS
<1>2. p = toSend[1] /\ p \in Items /\ hop \in Nat /\ fwd \in BOOLEAN
  <2>1. toSend \in Seq(Items) /\ hop \in Nat /\ fwd \in BOOLEAN
    BY DEF Types
  <2>2. QED
    BY <1>1, <2>1, TailItem
<1>3. PICK route : route = Route[p.couple]
  OBVIOUS
<1>4. route \in Seq(Interfaces) /\ p.id \in Nat
  BY <1>2, <1>3, RouteAssumption DEF Items, Couples
<1>5. route[hop + 1] \in Interfaces
  <2>1. hop + 1 \in 1..Len(route)
    BY <1>1, <1>2, <1>3, <1>4
  <2>2. QED
    BY <1>4, <2>1
<1>6. ReportOf(p, route[hop + 1]) \in Reports /\ ReportOf(p, route[hop + 1]).id = p.id
  BY <1>2, <1>4, <1>5 DEF ReportOf, Reports
<1>7. QED
  BY <1>1, <1>2, <1>3, <1>6

(* A report of the first packet to send.                                   *)
LEMMA ReportInd == IndInv /\ Report => IndInv'
<1> SUFFICES ASSUME IndInv, Report PROVE IndInv'
  OBVIOUS
<1> USE DEF IndInv
<1>1. PICK r : r = ReportOf(Head(toSend), Route[Head(toSend).couple][hop + 1])
  OBVIOUS
<1>2. /\ toSend # <<>> /\ hop < Len(Route[Head(toSend).couple])
      /\ buffer' = Append(buffer, r) /\ fwd' = TRUE /\ hop' = hop + 1
      /\ UNCHANGED <<method, left, known, axisVars, sender, uaxe, toSend, wire>>
  BY <1>1 DEF Report, loaderVars, ifaceVars
<1>3. r \in Reports /\ r.id = toSend[1].id
  BY <1>1, <1>2, ReportTyped
<1>4. /\ buffer \in Seq(Reports) /\ toSend \in Seq(Items) /\ hop \in Nat
      /\ UNCHANGED <<method, left, known, timeAxis, timeAxisSize, matrix, sender, uaxe, toSend, wire>>
  BY <1>2 DEF Types, axisVars
<1>5. buffer' \in Seq(Reports) /\ Ids(buffer') = Ids(buffer) \cup {r.id}
  BY <1>2, <1>3, <1>4, AppendItem
<1>6. 1 \in DOMAIN toSend
  <2>1. Len(toSend) \in Nat \ {0} /\ DOMAIN toSend = 1..Len(toSend)
    BY <1>2, <1>4, TailItem
  <2>2. QED
    BY <2>1
<1>7. Types'
  BY <1>2, <1>4, <1>5 DEF Types
<1>8. ListsInOrder' /\ OnTheAxis' /\ Sending'
  BY <1>4 DEF ListsInOrder, OnTheAxis, Sending
<1>9. Marked'
  <2>1. Reported' = Reported \cup {r.id}
    BY <1>4, <1>5 DEF Reported
  <2>2. r.id \in Ids(toSend)
    BY <1>3, <1>6 DEF Ids
  <2>3. Reported' \subseteq 1..timeAxisSize
    BY <2>1, <2>2 DEF Marked, Sending
  <2>4. \A c \in Couples : Reported' \cap Ids(matrix[c]) = {}
    BY <2>1, <2>2 DEF Marked, Sending
  <2>5. ASSUME NEW i \in DOMAIN toSend, i # 1 PROVE toSend[i].id \notin Reported'
    <3>1. toSend[i].id # r.id
      BY <1>3, <1>6, <2>5 DEF Sending, OneEach
    <3>2. QED
      BY <2>1, <2>5, <3>1 DEF Marked
  <2>6. toSend[1].id \in Reported'
    BY <1>3, <2>1
  <2>7. QED
    BY <1>2, <1>4, <2>3, <2>4, <2>5, <2>6 DEF Marked
<1>10. AllPlaced' /\ KnownOnce'
  BY <1>4, StayPlaced
<1>11. QED
  BY <1>7, <1>8, <1>9, <1>10

(* The first packet has been sent; the next one has no report yet.         *)
LEMMA PacketSentInd == IndInv /\ PacketSent => IndInv'
<1> SUFFICES ASSUME IndInv, PacketSent PROVE IndInv'
  OBVIOUS
<1> USE DEF IndInv
<1>1. /\ sender = "send" /\ toSend # <<>> /\ toSend' = Tail(toSend) /\ hop' = 0 /\ fwd' = FALSE
      /\ UNCHANGED <<method, left, known, timeAxis, timeAxisSize, matrix, sender, uaxe, wire, buffer>>
  BY DEF PacketSent, loaderVars, axisVars, ifaceVars
<1> DEFINE n == Len(toSend)
<1>2. /\ toSend \in Seq(Items) /\ toSend' \in Seq(Items) /\ n \in Nat \ {0}
      /\ DOMAIN toSend = 1..n /\ DOMAIN toSend' = 1..n - 1
      /\ \A i \in 1..n - 1 : toSend'[i] = toSend[i + 1]
      /\ Range(toSend') \subseteq Range(toSend) /\ Ids(toSend') \subseteq Ids(toSend)
  <2>1. toSend \in Seq(Items)
    BY DEF Types
  <2>2. QED
    BY <1>1, <2>1, TailItem
<1>3. \A i \in 1..n - 1 : i + 1 \in 1..n /\ i + 1 # 1
  BY <1>2
<1> HIDE DEF n
<1>4. Types'
  BY <1>1, <1>2 DEF Types
<1>5. ListsInOrder' /\ OnTheAxis'
  BY <1>1 DEF ListsInOrder, OnTheAxis
<1>6. Sending'
  <2>1. OneEach(toSend')
    <3>1. SUFFICES ASSUME NEW i \in 1..n - 1, NEW j \in 1..n - 1, toSend'[i].id = toSend'[j].id
                   PROVE  i = j
      BY <1>2 DEF OneEach
    <3>2. i + 1 \in DOMAIN toSend /\ j + 1 \in DOMAIN toSend
      BY <1>2, <1>3
    <3>3. toSend[i + 1].id = toSend[j + 1].id
      BY <1>2, <3>1
    <3>4. i + 1 = j + 1
      BY <3>2, <3>3 DEF Sending, OneEach
    <3>5. QED
      BY <1>2, <3>4
  <2>2. QED
    BY <1>1, <1>2, <2>1 DEF Sending
<1>7. Marked'
  <2>1. Reported' = Reported
    BY <1>1 DEF Reported
  <2>2. \A i \in 1..n - 1 : toSend'[i].id \notin Reported
    BY <1>2, <1>3 DEF Marked
  <2>3. toSend' # <<>> => 1 \in 1..n - 1
    <3>1. ASSUME toSend' # <<>> PROVE 1 \in 1..n - 1
      <4>1. Len(toSend') \in Nat \ {0} /\ DOMAIN toSend' = 1..Len(toSend')
        BY <1>2, <3>1, TailItem
      <4>2. 1 \in DOMAIN toSend'
        BY <4>1
      <4>3. QED
        BY <1>2, <4>2
    <3>2. QED
      BY <3>1
  <2>4. QED
    BY <1>1, <1>2, <2>1, <2>2, <2>3 DEF Marked
<1>8. AllPlaced' /\ KnownOnce'
  BY <1>1, <1>2, StayPlaced
<1>9. QED
  BY <1>4, <1>5, <1>6, <1>7, <1>8

(* The axis moves on, past an entry whose packet no longer waits.          *)
LEMMA EntrySentInd == IndInv /\ EntrySent => IndInv'
<1> SUFFICES ASSUME IndInv, EntrySent PROVE IndInv'
  OBVIOUS
<1> USE DEF IndInv
<1>1. /\ sender = "send" /\ toSend = <<>> /\ uaxe' = uaxe + 1 /\ timeAxis' = Tail(timeAxis)
      /\ sender' = "axis"
      /\ UNCHANGED <<method, left, known, timeAxisSize, matrix, toSend, hop, fwd, wire, buffer>>
  BY DEF EntrySent, loaderVars, ifaceVars
<1> DEFINE n == timeAxisSize
           m == Len(timeAxis)
<1>2. /\ n \in Nat /\ uaxe \in Nat /\ timeAxis \in Seq(Times) /\ m \in Nat
      /\ uaxe + m = n /\ uaxe < n
  BY <1>1 DEF Types, OnTheAxis
<1>3. timeAxis # <<>>
  <2>1. m # 0
    BY <1>2
  <2>2. QED
    BY <2>1
<1>4. /\ timeAxis' \in Seq(Times) /\ Len(timeAxis') = m - 1
      /\ \A i \in 1..m - 1 : timeAxis'[i] = timeAxis[i + 1]
  BY <1>1, <1>2, <1>3, TailItem
<1>5. Types'
  BY <1>1, <1>2, <1>4 DEF Types, Senders
<1>6. ListsInOrder'
  BY <1>1 DEF ListsInOrder
<1>7. OnTheAxis'
  <2>1. (uaxe + 1) + (m - 1) = n
    BY <1>2
  <2>2. ASSUME NEW c \in Couples, NEW p \in Range(matrix[c])
        PROVE  p.id \in uaxe + 1 + 1..n /\ p.ts = timeAxis'[p.id - (uaxe + 1)]
    <3>1. p.id \in uaxe + 1..n /\ p.id # uaxe + 1 /\ p.ts = timeAxis[p.id - uaxe]
      BY <1>1 DEF OnTheAxis
    <3> HIDE DEF m, n
    <3>2. PICK k : k = p.id
      OBVIOUS
    <3>3. /\ k \in uaxe + 1 + 1..n /\ k - (uaxe + 1) \in 1..m - 1
          /\ (k - (uaxe + 1)) + 1 = k - uaxe
      BY <1>2, <3>1, <3>2
    <3>4. QED
      BY <1>4, <3>1, <3>2, <3>3
  <2>3. QED
    BY <1>1, <1>4, <2>1, <2>2 DEF OnTheAxis
<1>8. Sending' /\ Marked'
  BY <1>1 DEF Sending, Marked, Reported
<1>9. AllPlaced' /\ KnownOnce'
  BY <1>1, StayPlaced
<1>10. QED
  BY <1>5, <1>6, <1>7, <1>8, <1>9

(* A report moves from the buffer to the wire.                             *)
LEMMA IfaceSendsInd == IndInv /\ IfaceSends => IndInv'
<1> SUFFICES ASSUME IndInv, IfaceSends PROVE IndInv'
  OBVIOUS
<1> USE DEF IndInv
<1>1. /\ buffer # <<>> /\ wire' = Append(wire, Head(buffer)) /\ buffer' = Tail(buffer)
      /\ UNCHANGED <<method, left, known, timeAxis, timeAxisSize, matrix, sender, uaxe, toSend, hop, fwd>>
  BY DEF IfaceSends, loaderVars, axisVars, senderVars
<1>2. buffer \in Seq(Reports) /\ wire \in Seq(Reports)
  BY DEF Types
<1>3. /\ buffer' \in Seq(Reports) /\ Head(buffer) \in Reports
      /\ Ids(buffer) = {Head(buffer).id} \cup Ids(buffer')
  BY <1>1, <1>2, TailItem
<1>4. PICK r : r = Head(buffer)
  OBVIOUS
<1>5. wire' \in Seq(Reports) /\ Ids(wire') = Ids(wire) \cup {r.id}
  <2>1. r \in Reports /\ wire' = Append(wire, r)
    BY <1>1, <1>3, <1>4
  <2>2. QED
    BY <1>2, <2>1, AppendItem
<1>6. Reported' = Reported
  BY <1>3, <1>4, <1>5 DEF Reported
<1>7. Types'
  BY <1>1, <1>3, <1>5 DEF Types
<1>8. ListsInOrder' /\ OnTheAxis' /\ Sending'
  BY <1>1 DEF ListsInOrder, OnTheAxis, Sending
<1>9. Marked'
  BY <1>1, <1>6 DEF Marked
<1>10. AllPlaced' /\ KnownOnce'
  BY <1>1, StayPlaced
<1>11. QED
  BY <1>7, <1>8, <1>9, <1>10

(* The interface thread ends with nothing left in the buffer, and nothing  *)
(* is put there any more.                                                  *)
Stopped == iface = "ended" => sender \in {"stopping", "done"} /\ buffer = <<>>

LEMMA StoppedKept == Stopped /\ [Next]_vars => Stopped'
<1> SUFFICES ASSUME Stopped, [Next]_vars PROVE Stopped'
  OBVIOUS
<1> USE DEF Stopped, loaderVars, axisVars, senderVars, ifaceVars
<1>1. CASE LoaderStep \/ LoaderFails
  BY <1>1 DEF LoaderStep, LoaderTakes, LoaderDispatch, ReadPacket, DispatchReturns, LoaderFails,
              LoaderReleases, EndOfFile, TraficLoadingEnded
<1>2. CASE SenderStep
  BY <1>2 DEF SenderStep, SenderTakes, UpdateTheListOfPacketsToSend, Report, NotSampled,
              PacketSent, EntrySent, SenderReleases, Shutdown, Leave
<1>3. CASE IfaceStep \/ IfaceFails
  BY <1>3 DEF IfaceStep, IfaceTakes, IfaceSends, IfaceReleases, IfaceEnds, IfaceFails
<1>4. CASE UNCHANGED vars
  BY <1>4 DEF vars
<1>5. QED
  BY <1>1, <1>2, <1>3, <1>4 DEF Next

(* NSP leaves, and drops nothing.                                          *)
LEMMA LeaveInd == IndInv /\ Stopped /\ Leave => IndInv' /\ UNCHANGED <<timeAxisSize, buffer, wire>>
<1> SUFFICES ASSUME IndInv, Stopped, Leave PROVE IndInv' /\ UNCHANGED <<timeAxisSize, buffer, wire>>
  OBVIOUS
<1> USE DEF Leave, loaderVars, axisVars, senderVars, ifaceVars
<1>1. /\ left \in Seq(Seq(Packets)) /\ left # <<>> /\ hop \in Nat
      /\ (toSend # <<>> => sender = "send")
  BY DEF IndInv, Types, Sending
<1>2. buffer' = buffer /\ sender' = "done" /\ sender' \in Senders /\ toSend = <<>>
  BY <1>1 DEF Stopped, Senders
<1>3. QED
  BY <1>1, <1>2, Still

(* The invariant holds throughout.                                         *)
LEMMA Invariance == Spec => [](IndInv /\ Stopped)
<1>1. Init => IndInv /\ Stopped
  BY InitInd DEF Init, Stopped
<1>2. IndInv /\ Stopped /\ [Next]_vars => IndInv' /\ Stopped'
  <2> SUFFICES ASSUME IndInv, Stopped, [Next]_vars PROVE IndInv'
    BY StoppedKept
  <2>1. CASE ReadPacket
    BY <2>1, ReadPacketInd
  <2>2. CASE UpdateTheListOfPacketsToSend
    BY <2>2, UpdateInd
  <2>3. CASE Report
    BY <2>3, ReportInd
  <2>4. CASE PacketSent
    BY <2>4, PacketSentInd
  <2>5. CASE EntrySent
    BY <2>5, EntrySentInd
  <2>6. CASE IfaceSends
    BY <2>6, IfaceSendsInd
  <2>7. CASE Leave
    BY <2>7, LeaveInd
  <2>8. QED
    BY <2>1, <2>2, <2>3, <2>4, <2>5, <2>6, <2>7, StillSteps
       DEF Next, LoaderStep, SenderStep, IfaceStep
<1>3. QED
  BY <1>1, <1>2, PTL DEF Spec

-----------------------------------------------------------------------------
(* The theorems *)

(***************************************************************************)
(* Whatever the timestamps of the traces and the number of ASs, no packet  *)
(* that still waits has an entry of the time axis that was played: the     *)
(* scans, which stop at the first later packet of a list, reach the packet *)
(* of the entry, because it is the first of its list.                      *)
(***************************************************************************)
THEOREM SentCorrect == Spec => []SentByItsTurn
<1>1. IndInv => SentByItsTurn
  <2> SUFFICES ASSUME IndInv, NEW c \in Couples, NEW p \in Range(matrix[c]) PROVE p.id > uaxe
    BY DEF SentByItsTurn, Waiting
  <2>1. p.id \in uaxe + 1..timeAxisSize /\ uaxe \in Nat /\ timeAxisSize \in Nat
    BY DEF IndInv, OnTheAxis, Types
  <2>2. QED
    BY <2>1
<1>2. QED
  BY <1>1, Invariance, PTL

(***************************************************************************)
(* Under each of the three ways to dispatch (by prefix, by class, by       *)
(* flow), a packet and its reply travel between the same two ASs, in       *)
(* opposite directions: no two ASs come to know one key.                   *)
(***************************************************************************)
THEOREM ReplyCorrect == Spec => []ReplyReversed
<1>1. IndInv => ReplyReversed
  <2> SUFFICES ASSUME IndInv, NEW p \in Waiting \cup Range(toSend),
                      NEW q \in Waiting \cup Range(toSend),
                      p.src # p.dst, q.src = p.dst, q.dst = p.src
               PROVE  q.couple = <<p.couple[2], p.couple[1]>>
    BY DEF ReplyReversed
  <2>1. Placed(p) /\ Placed(q) /\ method \in {1, 2, 3}
    BY DEF IndInv, AllPlaced
  <2>2. p \in Items /\ q \in Items
    <3>1. matrix \in [Couples -> Seq(Items)] /\ toSend \in Seq(Items)
      BY DEF IndInv, ListsInOrder, Types
    <3>2. \A s \in Seq(Items) : Range(s) \subseteq Items
      BY DEF Range
    <3>3. QED
      BY <3>1, <3>2 DEF Waiting
  <2>3. PICK a \in Ases, b \in Ases : p.couple = <<a, b>>
    BY <2>2 DEF Items, Couples
  <2>4. PICK c \in Ases, d \in Ases : q.couple = <<c, d>>
    BY <2>2 DEF Items, Couples
  <2>5. c = b /\ d = a
    <3>1. CASE method = 2
      <4>1. AsClass[a] = ClassOf[p.src] /\ AsClass[b] = ClassOf[p.dst]
        BY <2>1, <2>3, <3>1 DEF Placed
      <4>2. AsClass[c] = ClassOf[q.src] /\ AsClass[d] = ClassOf[q.dst]
        BY <2>1, <2>4, <3>1 DEF Placed
      <4>3. QED
        BY <4>1, <4>2, ClassAssumption
    <3>2. CASE method # 2
      <4>1. FindAs(SourceKey(p)) = {a} /\ FindAs(DestKey(p)) = {b}
        BY <2>1, <2>3, <3>2 DEF Placed
      <4>2. FindAs(SourceKey(q)) = {c} /\ FindAs(DestKey(q)) = {d}
        BY <2>1, <2>4, <3>2 DEF Placed
      <4>3. SourceKey(q) = DestKey(p) /\ DestKey(q) = SourceKey(p)
        BY DEF SourceKey, DestKey
      <4>4. QED
        BY <4>1, <4>2, <4>3
    <3>3. QED
      BY <3>1, <3>2
  <2>6. QED
    BY <2>3, <2>4, <2>5
<1>2. QED
  BY <1>1, Invariance, PTL

(***************************************************************************)
(* The threads implement the queue of reports: what softflowd receives is  *)
(* what the routers reported, in that order, nothing lost or repeated, and *)
(* a report is marked as the first of its packet exactly when it is.       *)
(***************************************************************************)
THEOREM QueueImplemented == Spec => ImplementsReportQueue
<1>1. Init => Queue!Init
  BY DEF Init, Queue!Init
<1>2. IndInv /\ Stopped /\ [Next]_vars => [Queue!Next]_(Queue!vars)
  <2> SUFFICES ASSUME IndInv, Stopped, [Next]_vars PROVE [Queue!Next]_(Queue!vars)
    OBVIOUS
  <2>1. CASE ReadPacket
    <3>1. UNCHANGED <<buffer, wire>> /\ (timeAxisSize' = timeAxisSize \/ timeAxisSize' = timeAxisSize + 1)
      BY <2>1 DEF ReadPacket, ifaceVars, PerPacketCallBackFunction, Undispatched,
                       DrawFails, axisVars
    <3>2. QED
      BY <3>1 DEF Queue!Next, Queue!Load, Queue!vars
  <2>2. CASE Report
    <3>1. PICK p : p = Head(toSend)
      OBVIOUS
    <3>2. PICK at : at = Route[p.couple][hop + 1]
      OBVIOUS
    <3>3. /\ toSend # <<>> /\ buffer' = Append(buffer, [id |-> p.id, at |-> at, first |-> ~fwd])
          /\ UNCHANGED <<timeAxisSize, wire>>
      BY <2>2, <3>1, <3>2 DEF Report, ReportOf, axisVars, ifaceVars
    <3>4. at \in Interfaces /\ p = toSend[1] /\ fwd \in BOOLEAN
      <4>1. ReportOf(p, at) \in Reports
        BY <2>2, <3>1, <3>2, ReportTyped DEF IndInv, Report
      <4>2. at \in Interfaces
        BY <4>1 DEF ReportOf, Reports
      <4>3. toSend \in Seq(Items) /\ fwd \in BOOLEAN
        BY DEF IndInv, Types
      <4>4. QED
        BY <3>1, <3>3, <4>2, <4>3, TailItem
    <3>5. p.id \in Reported <=> fwd
      BY <3>3, <3>4 DEF IndInv, Marked
    <3>6. Queue!Seen(p.id) <=> p.id \in Reported
      BY DEF Queue!Seen, Reported, Ids
    <3>7. p.id \in 1..timeAxisSize
      <4>1. Len(toSend) \in Nat \ {0} /\ DOMAIN toSend = 1..Len(toSend)
        BY <3>3, TailItem DEF IndInv, Types
      <4>2. 1 \in DOMAIN toSend
        BY <4>1
      <4>3. QED
        BY <3>4, <4>2 DEF IndInv, Sending, Ids
    <3>8. Queue!Put(p.id, at)
      BY <3>3, <3>4, <3>5, <3>6 DEF Queue!Put
    <3>9. QED
      BY <3>4, <3>7, <3>8 DEF Queue!Next
  <2>3. CASE IfaceSends
    <3>1. Queue!Deliver
      BY <2>3 DEF IfaceSends, Queue!Deliver, axisVars
    <3>2. QED
      BY <3>1 DEF Queue!Next
  <2>4. CASE ~(ReadPacket \/ Report \/ IfaceSends)
    <3>1. UNCHANGED <<timeAxisSize, buffer, wire>>
      <4> USE DEF loaderVars, axisVars, senderVars, ifaceVars
      <4>1. CASE \/ LoaderTakes \/ LoaderDispatch \/ DispatchReturns \/ LoaderFails \/ LoaderReleases
                 \/ EndOfFile \/ TraficLoadingEnded
        BY <4>1 DEF LoaderTakes, LoaderDispatch, DispatchReturns, LoaderFails, LoaderReleases,
                    EndOfFile, TraficLoadingEnded
      <4>2. CASE \/ SenderTakes \/ UpdateTheListOfPacketsToSend \/ NotSampled \/ PacketSent
                 \/ EntrySent \/ SenderReleases \/ Shutdown
        BY <4>2 DEF SenderTakes, UpdateTheListOfPacketsToSend, NotSampled, PacketSent,
                    EntrySent, SenderReleases, Shutdown
      <4>3. CASE IfaceTakes \/ IfaceFails \/ IfaceReleases \/ IfaceEnds
        BY <4>3 DEF IfaceTakes, IfaceFails, IfaceReleases, IfaceEnds
      <4>4. CASE Leave
        BY <4>4, LeaveInd
      <4>5. CASE UNCHANGED vars
        BY <4>5 DEF vars
      <4>6. QED
        BY <2>4, <4>1, <4>2, <4>3, <4>4, <4>5 DEF Next, LoaderStep, SenderStep, IfaceStep
    <3>2. QED
      BY <3>1 DEF Queue!vars
  <2>5. QED
    BY <2>1, <2>2, <2>3, <2>4
<1>3. QED
  BY <1>1, <1>2, Invariance, PTL DEF Spec, ImplementsReportQueue, Queue!Spec

-----------------------------------------------------------------------------
(* Least costs of walks *)

(* The least element of a set of numbers.                                  *)
LEMMA MinOf ==
    ASSUME NEW T, T \subseteq Nat, T # {}
    PROVE  Min(T) \in T /\ \A y \in T : Min(T) <= y
BY NatLeast DEF Min

Reach == 0..INFINITY
NetworkType == [Routers -> [Routers -> Reach]]

(* What the costs of walks of one link more are, given those of walks w.   *)
Onward(l, w) ==
    [x \in Routers |->
        Min({w[x]} \cup {w[y] + l[y][x] : y \in {n \in Routers : l[n][x] # NoLink}})]

(* The least cost is that of a shorter walk or of one along a last link.   *)
LEMMA OnwardLeast ==
    ASSUME NEW l \in NetworkType, NEW w \in [Routers -> Reach]
    PROVE  /\ Onward(l, w) \in [Routers -> Reach]
           /\ \A x \in Routers :
                 /\ Onward(l, w)[x] <= w[x]
                 /\ \A y \in Routers : l[y][x] # NoLink => Onward(l, w)[x] <= w[y] + l[y][x]
                 /\ \/ Onward(l, w)[x] = w[x]
                    \/ \E y \in Routers : /\ l[y][x] # NoLink
                                          /\ Onward(l, w)[x] = w[y] + l[y][x]
<1>1. INFINITY \in Nat
  BY DEF INFINITY
<1>2. ASSUME NEW x \in Routers
      PROVE  /\ Onward(l, w)[x] \in Reach
             /\ Onward(l, w)[x] <= w[x]
             /\ \A y \in Routers : l[y][x] # NoLink => Onward(l, w)[x] <= w[y] + l[y][x]
             /\ \/ Onward(l, w)[x] = w[x]
                \/ \E y \in Routers : /\ l[y][x] # NoLink
                                      /\ Onward(l, w)[x] = w[y] + l[y][x]
  <2> DEFINE T == {w[x]} \cup {w[y] + l[y][x] : y \in {n \in Routers : l[n][x] # NoLink}}
  <2>1. \A y \in Routers : w[y] \in Nat /\ l[y][x] \in Nat /\ w[y] <= INFINITY
    BY <1>1 DEF Reach, NetworkType
  <2>2. T \subseteq Nat /\ T # {}
    BY <2>1
  <2>3. Onward(l, w)[x] = Min(T)
    BY DEF Onward
  <2>4. Min(T) \in T /\ \A y \in T : Min(T) <= y
    <3> HIDE DEF T
    <3>1. QED
      BY <2>2, MinOf
  <2>5. Min(T) \in Nat /\ Min(T) <= w[x]
    BY <2>2, <2>4
  <2>6. \A y \in Routers : l[y][x] # NoLink => Min(T) <= w[y] + l[y][x]
    BY <2>4
  <2>7. \/ Min(T) = w[x]
        \/ \E y \in Routers : l[y][x] # NoLink /\ Min(T) = w[y] + l[y][x]
    BY <2>4
  <2>8. Min(T) \in Reach
    BY <1>1, <2>1, <2>5 DEF Reach
  <2> HIDE DEF T
  <2>9. QED
    BY <2>3, <2>5, <2>6, <2>7, <2>8
<1>3. Onward(l, w) \in [Routers -> Reach]
  BY <1>2 DEF Onward
<1>4. QED
  BY <1>2, <1>3

AtStart(r) == [x \in Routers |-> IF x = r THEN 0 ELSE INFINITY]

(* WalkCosts is well defined.                                              *)
LEMMA WalkCostsDefined ==
    ASSUME NEW l \in NetworkType, NEW r \in Routers
    PROVE  /\ WalkCosts(l, r) \in [0..N -> [Routers -> Reach]]
           /\ WalkCosts(l, r)[0] = AtStart(r)
           /\ \A k \in 1..N : WalkCosts(l, r)[k] = Onward(l, WalkCosts(l, r)[k - 1])
<1> DEFINE V == [Routers -> Reach]
           base == AtStart(r)
           Step(f) == [k \in 0..N |-> IF k = 0 THEN base ELSE Onward(l, f[k - 1])]
           g == [p \in Nat \X V |-> Onward(l, p[2])]
           w == WalkCosts(l, r)
<1>1. N \in Nat /\ base \in V
  <2>1. INFINITY \in Nat
    BY DEF INFINITY
  <2>2. QED
    BY <2>1, NAssumption DEF Reach, AtStart
<1>2. \A v \in V : Onward(l, v) \in V
  BY OnwardLeast
<1>3. w = CHOOSE h : h = Step(h)
  BY DEF WalkCosts, Onward, AtStart
<1> HIDE DEF V, base, w
<1>4. g \in [Nat \X V -> V]
  BY <1>2
<1>5. \A k \in Nat, v \in V : g[<<k, v>>] = Onward(l, v)
  OBVIOUS
<1> HIDE DEF g
<1>6. PICK f : Recursive(f, N, V, base, g)
  BY <1>1, <1>4, RecursionExists
<1>7. f = Step(f)
  <2>1. ASSUME NEW k \in 0..N PROVE f[k] = Step(f)[k]
    <3>1. CASE k = 0
      BY <1>6, <3>1 DEF Recursive
    <3>2. CASE k # 0
      <4>1. k \in 1..N /\ k - 1 \in 0..N /\ k \in Nat
        BY <1>1, <3>2
      <4>2. f[k - 1] \in V /\ f[k] = g[<<k, f[k - 1]>>]
        BY <1>6, <4>1 DEF Recursive
      <4>3. QED
        BY <1>5, <3>2, <4>1, <4>2
    <3>3. QED
      BY <3>1, <3>2
  <2>2. QED
    BY <1>6, <2>1 DEF Recursive
<1>8. w = Step(w)
  BY <1>3, <1>7
<1>9. w = [k \in 0..N |-> w[k]] /\ w[0] = base
  BY <1>1, <1>8
<1>10. ASSUME NEW k \in 1..N PROVE w[k] = Onward(l, w[k - 1])
  <2>1. k \in 0..N /\ k # 0
    BY <1>1
  <2>2. QED
    BY <1>8, <2>1
<1>11. Recursive(w, N, V, base, g)
  <2>1. \A k \in 1..N : w[k - 1] \in V => w[k] = g[<<k, w[k - 1]>>]
    BY <1>1, <1>5, <1>10
  <2>2. QED
    BY <1>1, <1>4, <1>9, <2>1, RecursionTyped
<1>12. QED
  BY <1>10, <1>11 DEF Recursive, V, base, w

(* A longer walk may be cheaper, never dearer; the router it starts from   *)
(* costs nothing.                                                          *)
LEMMA WalkCostsFall ==
    ASSUME NEW l \in NetworkType, NEW r \in Routers, NEW x \in Routers, NEW k \in 0..N
    PROVE  /\ WalkCosts(l, r)[N][x] <= WalkCosts(l, r)[k][x]
           /\ WalkCosts(l, r)[k][x] \in Nat
<1> DEFINE w == WalkCosts(l, r)
           P == {d \in Nat : k + d \in 0..N => w[k + d][x] <= w[k][x]}
<1>1. N \in Nat /\ \A j \in 0..N : w[j] \in [Routers -> Reach]
  BY NAssumption, WalkCostsDefined
<1>2. \A j \in 0..N : w[j][x] \in Nat
  <2>1. INFINITY \in Nat
    BY DEF INFINITY
  <2>2. QED
    BY <1>1, <2>1 DEF Reach
<1>3. \A j \in 1..N : w[j][x] <= w[j - 1][x]
  <2>1. ASSUME NEW j \in 1..N PROVE w[j][x] <= w[j - 1][x]
    <3>1. j - 1 \in 0..N
      BY <1>1
    <3>2. w[j] = Onward(l, w[j - 1])
      BY WalkCostsDefined
    <3>3. w[j - 1] \in [Routers -> Reach]
      BY <1>1, <3>1
    <3>4. QED
      BY <3>2, <3>3, OnwardLeast
  <2>2. QED
    BY <2>1
<1> HIDE DEF w
<1>4. 0 \in P
  BY <1>1, <1>2
<1>5. ASSUME NEW d \in P PROVE d + 1 \in P
  <2>1. SUFFICES ASSUME k + (d + 1) \in 0..N PROVE w[k + (d + 1)][x] <= w[k][x]
    OBVIOUS
  <2>2. k + d \in 0..N /\ k + (d + 1) \in 1..N /\ (k + (d + 1)) - 1 = k + d
    BY <1>1, <2>1
  <2>3. w[k + (d + 1)][x] <= w[k + d][x] /\ w[k + d][x] <= w[k][x]
    BY <1>3, <2>2
  <2>4. QED
    BY <1>2, <2>2, <2>3
<1>6. P = Nat
  <2>1. P \subseteq Nat
    OBVIOUS
  <2> HIDE DEF P
  <2>2. QED
    BY <1>4, <1>5, <2>1, NatInduct
<1>7. N - k \in Nat /\ k + (N - k) = N /\ N \in 0..N
  BY <1>1
<1>8. w[N][x] <= w[k][x]
  BY <1>6, <1>7
<1>9. QED
  BY <1>2, <1>8 DEF w

-----------------------------------------------------------------------------
(* Dijkstra *)

Unvisited == Routers \ (visited \cup {turn})

(* The cost of y while the tables of r are filled, 0 for r itself.         *)
CostOf(y) == IF y = turn THEN 0 ELSE costs[turn][y]

(* The tables of r before Dijkstra has looked at them.                     *)
Untouched(r) ==
    /\ costs[r] = [x \in Routers \ {r} |-> IF x \in Direct(r) THEN link[r][x] ELSE INFINITY]
    /\ prev[r] = <<>>

(* What is so before ExploreNodeGraph, and what the tables are after it.   *)
TableTypes ==
    /\ link \in NetworkType
    /\ pc \in {"explore", "dijkstra", "ready", "forward", "arrived"}
    /\ turn \in Nat /\ visited \subseteq Routers
    /\ DOMAIN costs = Routers /\ DOMAIN prev = Routers /\ DOMAIN next = Routers
    /\ pc = "explore" =>
          /\ Connected /\ turn = 1 /\ visited = {}
          /\ prev = [r \in Routers |-> <<>>]
    /\ pc # "explore" => \A r \in Routers : costs[r] \in [Routers \ {r} -> Reach]
    /\ pc = "dijkstra" =>
          /\ turn \in Routers /\ turn \notin visited
          /\ \A r \in Routers : r > turn => Untouched(r)

(* A cost is that of a walk, which has at most a link more than routers    *)
(* were visited.                                                           *)
AboveWalks ==
    pc = "dijkstra" =>
        \A x \in Routers \ {turn} :
            costs[turn][x] >= WalkCosts(link, turn)[Cardinality(visited) + 1][x]

(* No walk to a visited router is cheaper than its cost.                   *)
Settled ==
    pc = "dijkstra" =>
        \A x \in visited : costs[turn][x] <= Distances(turn)[x]

(* The links of the router itself and of the visited ones were followed.   *)
Followed ==
    pc = "dijkstra" =>
        \A y \in visited \cup {turn} : \A x \in Routers \ {turn} :
            link[y][x] # NoLink => costs[turn][x] <= CostOf(y) + link[y][x]

DijkstraInv == TableTypes /\ AboveWalks /\ Settled /\ Followed

(* The types that the leaves need: numbers, and finite sets of routers.    *)
LEMMA Numbers ==
    /\ N \in Nat /\ N > 1 /\ INFINITY \in Nat
    /\ IsFiniteSet(Routers) /\ Cardinality(Routers) = N
BY NAssumption, FS_Interval DEF Routers, INFINITY

(* When a router is still to be visited there are two less than N.         *)
LEMMA VisitedCount ==
    ASSUME NEW V, V \subseteq Routers, NEW r \in Routers, r \notin V
    PROVE  /\ Cardinality(V) \in Nat /\ Cardinality(V) + 1 \in 1..N
           /\ \A m \in Routers \ (V \cup {r}) :
                 /\ Cardinality(V \cup {m}) = Cardinality(V) + 1
                 /\ Cardinality(V) + 2 \in 1..N
<1>1. IsFiniteSet(V) /\ Cardinality(V) \in Nat
  BY Numbers, FS_Subset, FS_CardinalityType
<1>2. IsFiniteSet(V \cup {r}) /\ Cardinality(V \cup {r}) = Cardinality(V) + 1
  BY <1>1, FS_AddElement
<1>3. Cardinality(V) + 1 <= N
  <2>1. V \cup {r} \subseteq Routers
    OBVIOUS
  <2>2. QED
    BY <1>2, <2>1, Numbers, FS_Subset
<1>4. ASSUME NEW m \in Routers \ (V \cup {r})
      PROVE  /\ Cardinality(V \cup {m}) = Cardinality(V) + 1
             /\ Cardinality(V) + 2 <= N
  <2>1. Cardinality(V \cup {m}) = Cardinality(V) + 1
    BY <1>1, FS_AddElement
  <2>2. /\ IsFiniteSet((V \cup {r}) \cup {m})
        /\ Cardinality((V \cup {r}) \cup {m}) = Cardinality(V) + 1 + 1
    BY <1>1, <1>2, FS_AddElement
  <2>3. (V \cup {r}) \cup {m} \subseteq Routers
    OBVIOUS
  <2>4. Cardinality(V) + 1 + 1 <= N
    BY <2>2, <2>3, Numbers, FS_Subset
  <2>5. QED
    BY <1>1, <2>1, <2>4, Numbers
<1>5. QED
  BY <1>1, <1>3, <1>4, Numbers

(* Mini finds a router of least cost among those to be visited.            *)
LEMMA MiniLeast ==
    ASSUME DijkstraInv, pc = "dijkstra", visited # DOMAIN costs[turn]
    PROVE  /\ Mini(turn) \in Unvisited
           /\ \A x \in Unvisited : costs[turn][Mini(turn)] <= costs[turn][x]
<1> DEFINE others == DOMAIN costs[turn] \ visited
           vals == {costs[turn][x] : x \in others}
           best == {x \in others : costs[turn][x] = Min(vals)}
<1>1. /\ turn \in Routers /\ visited \subseteq Routers /\ turn \notin visited
      /\ costs[turn] \in [Routers \ {turn} -> Reach]
  BY DEF DijkstraInv, TableTypes
<1>2. others = Unvisited /\ others # {}
  BY <1>1 DEF Unvisited
<1>3. vals \subseteq Nat /\ vals # {}
  BY <1>1, <1>2, Numbers DEF Reach, Unvisited
<1>4. Min(vals) \in vals /\ \A y \in vals : Min(vals) <= y
  <2> HIDE DEF vals
  <2>1. QED
    BY <1>3, MinOf
<1>5. best # {} /\ best \subseteq Nat
  <2>1. best # {}
    BY <1>4
  <2>2. best \subseteq Routers
    BY <1>2 DEF Unvisited
  <2>3. Routers \subseteq Nat
    BY Numbers DEF Routers
  <2>4. QED
    BY <2>1, <2>2, <2>3
<1>6. Min(best) \in best
  <2> HIDE DEF best
  <2>1. QED
    BY <1>5, MinOf
<1>7. Mini(turn) = Min(best)
  BY DEF Mini
<1>8. Mini(turn) \in others /\ costs[turn][Mini(turn)] = Min(vals)
  BY <1>6, <1>7
<1>9. \A x \in others : Min(vals) <= costs[turn][x]
  BY <1>4
<1> HIDE DEF others, vals, best
<1>10. QED
  BY <1>2, <1>8, <1>9

(* No walk to a router that is not visited is cheaper than Mini's cost:    *)
(* its first link out of the visited ones was followed.                    *)
LEMMA MiniSettled ==
    ASSUME DijkstraInv, pc = "dijkstra", visited # DOMAIN costs[turn]
    PROVE  \A x \in Unvisited : costs[turn][Mini(turn)] <= Distances(turn)[x]
<1> DEFINE w == WalkCosts(link, turn)
           m == costs[turn][Mini(turn)]
           P == {k \in Nat : k \in 0..N => \A x \in Unvisited : m <= w[k][x]}
<1>1. /\ turn \in Routers /\ visited \subseteq Routers /\ turn \notin visited
      /\ link \in NetworkType
      /\ costs[turn] \in [Routers \ {turn} -> Reach]
  BY DEF DijkstraInv, TableTypes
<1>2. \A x \in Routers \ {turn} : costs[turn][x] \in Nat /\ costs[turn][x] <= INFINITY
  BY <1>1, Numbers DEF Reach
<1>3. /\ m \in Nat /\ m <= INFINITY
      /\ \A x \in Unvisited : m <= costs[turn][x]
  BY <1>1, <1>2, MiniLeast DEF Unvisited
<1>4. \A k \in 0..N, x \in Routers : w[k][x] \in Nat /\ w[N][x] <= w[k][x]
  BY <1>1, WalkCostsFall
<1>5. \A x, y \in Routers : link[y][x] \in Nat
  BY <1>1, Numbers DEF NetworkType, Reach
<1>6. 0 \in P
  <2>1. w[0] = AtStart(turn)
    BY <1>1, WalkCostsDefined
  <2>2. \A x \in Unvisited : w[0][x] = INFINITY
    BY <2>1 DEF AtStart, Unvisited
  <2>3. QED
    BY <1>3, <2>2
<1>7. ASSUME NEW k \in P PROVE k + 1 \in P
  <2>1. SUFFICES ASSUME k + 1 \in 0..N, NEW x \in Unvisited PROVE m <= w[k + 1][x]
    OBVIOUS
  <2>2. k \in 0..N /\ k + 1 \in 1..N /\ (k + 1) - 1 = k
    BY <2>1, Numbers
  <2>3. w[k + 1] = Onward(link, w[k]) /\ w[k] \in [Routers -> Reach]
    <3>1. \A j \in 1..N : w[j] = Onward(link, w[j - 1])
      BY <1>1, WalkCostsDefined
    <3>2. w[k] \in [Routers -> Reach]
      <4>1. w \in [0..N -> [Routers -> Reach]]
        BY <1>1, WalkCostsDefined
      <4> HIDE DEF w
      <4>2. QED
        BY <2>2, <4>1
    <3> HIDE DEF w
    <3>3. QED
      BY <2>2, <3>1, <3>2
  <2>4. x \in Routers /\ x # turn /\ x \notin visited
    BY DEF Unvisited
  <2>5. \/ w[k + 1][x] = w[k][x]
        \/ \E y \in Routers : link[y][x] # NoLink /\ w[k + 1][x] = w[k][y] + link[y][x]
    BY <1>1, <2>3, <2>4, OnwardLeast
  <2>6. CASE w[k + 1][x] = w[k][x]
    BY <2>2, <2>6
  <2>7. ASSUME NEW y \in Routers, link[y][x] # NoLink, w[k + 1][x] = w[k][y] + link[y][x]
        PROVE  m <= w[k + 1][x]
    <3>1. w[k][y] \in Nat /\ link[y][x] \in Nat /\ w[N][y] <= w[k][y] /\ w[N][y] \in Nat
      BY <1>4, <1>5, <2>2, <2>4, Numbers
    <3>2. CASE y \in Unvisited
      <4>1. m <= w[k][y]
        BY <2>2, <3>2
      <4>2. QED
        BY <1>3, <2>7, <3>1, <4>1
    <3>3. CASE y \in visited \cup {turn}
      <4>1. costs[turn][x] <= CostOf(y) + link[y][x]
        BY <2>4, <2>7, <3>3 DEF DijkstraInv, Followed
      <4>2. CostOf(y) <= w[k][y] /\ CostOf(y) \in Nat
        <5>1. CASE y = turn
          BY <3>1, <5>1 DEF CostOf
        <5>2. CASE y # turn
          <6>1. costs[turn][y] <= w[N][y] /\ costs[turn][y] \in Nat
            BY <1>2, <3>3, <5>2 DEF DijkstraInv, Settled, Distances
          <6>2. QED
            BY <3>1, <5>2, <6>1 DEF CostOf
        <5>3. QED
          BY <5>1, <5>2
      <4>3. m <= costs[turn][x] /\ costs[turn][x] \in Nat
        BY <1>2, <1>3, <2>4
      <4>4. QED
        BY <1>3, <2>7, <3>1, <4>1, <4>2, <4>3
    <3>4. QED
      BY <3>2, <3>3 DEF Unvisited
  <2>8. QED
    BY <2>5, <2>6, <2>7
<1>8. P = Nat
  <2>1. P \subseteq Nat
    OBVIOUS
  <2> HIDE DEF P
  <2>2. QED
    BY <1>6, <1>7, <2>1, NatInduct
<1>9. N \in P /\ N \in 0..N
  BY <1>8, Numbers
<1>10. QED
  BY <1>9 DEF Distances

(* What one step of Dijkstra does to the costs of its router.              *)
LEMMA DijkstraCosts ==
    ASSUME DijkstraInv, Dijkstra
    PROVE  LET mini == Mini(turn)
               through(x) == costs[turn][mini] + link[mini][x]
           IN  /\ \A x \in Routers \ {turn} :
                     costs'[turn][x] = IF /\ link[mini][x] # NoLink
                                          /\ through(x) < costs[turn][x]
                                       THEN through(x) ELSE costs[turn][x]
               /\ costs'[turn] \in [Routers \ {turn} -> Reach]
               /\ DOMAIN costs' = Routers
               /\ \A r \in Routers \ {turn} : costs'[r] = costs[r]
<1> DEFINE mini == Mini(turn)
           through(x) == costs[turn][mini] + link[mini][x]
           better == {x \in DOMAIN costs[turn] \cap Direct(mini) : through(x) < costs[turn][x]}
<1>1. /\ turn \in Routers /\ DOMAIN costs = Routers
      /\ link \in NetworkType
      /\ costs[turn] \in [Routers \ {turn} -> Reach]
  BY DEF DijkstraInv, TableTypes, Dijkstra
<1>2. mini \in Unvisited
  BY MiniLeast DEF Dijkstra
<1>3. costs' = [costs EXCEPT ![turn] =
                   [x \in DOMAIN @ |-> IF x \in better THEN through(x) ELSE @[x]]]
  BY DEF Dijkstra
<1>4. \A x \in Routers \ {turn} :
         x \in better <=> link[mini][x] # NoLink /\ through(x) < costs[turn][x]
  BY <1>1 DEF Direct
<1>5. \A x \in Routers \ {turn} :
         costs[turn][x] \in Nat /\ costs[turn][x] <= INFINITY /\ link[mini][x] \in Nat
  BY <1>1, <1>2, Numbers DEF Reach, NetworkType, Unvisited
<1>6. costs[turn][mini] \in Nat
  BY <1>2, <1>5 DEF Unvisited
<1> HIDE DEF better, mini
<1>7. costs'[turn] = [x \in Routers \ {turn} |->
                         IF x \in better THEN through(x) ELSE costs[turn][x]]
  BY <1>1, <1>3
<1>8. \A r \in Routers \ {turn} : costs'[r] = costs[r]
  BY <1>1, <1>3
<1>9. \A x \in Routers \ {turn} : through(x) \in Nat
  BY <1>5, <1>6
<1>10. \A x \in Routers \ {turn} :
          (IF x \in better THEN through(x) ELSE costs[turn][x]) \in Reach
  BY <1>4, <1>5, <1>9, Numbers DEF Reach
<1>11. costs'[turn] \in [Routers \ {turn} -> Reach]
  BY <1>7, <1>10
<1>12. \A x \in Routers \ {turn} :
          costs'[turn][x] = IF link[mini][x] # NoLink /\ through(x) < costs[turn][x]
                            THEN through(x) ELSE costs[turn][x]
  BY <1>4, <1>7
<1>13. DOMAIN costs' = Routers
  BY <1>1, <1>3
<1>14. QED
  BY <1>8, <1>11, <1>12, <1>13 DEF mini

(* A visit keeps the invariant.                                            *)
LEMMA DijkstraKeeps == DijkstraInv /\ Dijkstra => DijkstraInv'
<1> SUFFICES ASSUME DijkstraInv, Dijkstra PROVE DijkstraInv'
  OBVIOUS
<1> DEFINE mini == Mini(turn)
           c == Cardinality(visited)
           w == WalkCosts(link, turn)
<1>1. /\ turn \in Routers /\ visited \subseteq Routers /\ turn \notin visited
      /\ link \in NetworkType
      /\ costs[turn] \in [Routers \ {turn} -> Reach]
      /\ pc = "dijkstra" /\ turn \in Nat
      /\ DOMAIN costs = Routers /\ DOMAIN prev = Routers /\ DOMAIN next = Routers
      /\ \A r \in Routers : costs[r] \in [Routers \ {r} -> Reach]
      /\ \A r \in Routers : r > turn => Untouched(r)
  BY DEF DijkstraInv, TableTypes, Dijkstra
<1>2. UNCHANGED <<link, pc, turn, next, pkt>>
  BY DEF Dijkstra
<1>3. visited' = visited \cup {mini} /\ mini \in Unvisited
  BY MiniLeast DEF Dijkstra
<1>4. mini \in Routers /\ mini # turn /\ mini \notin visited
  BY <1>3 DEF Unvisited
<1>5. /\ costs'[turn] \in [Routers \ {turn} -> Reach] /\ DOMAIN costs' = Routers
      /\ \A r \in Routers \ {turn} : costs'[r] = costs[r]
  BY DijkstraCosts
<1>6. \A x \in Routers \ {turn} :
         costs'[turn][x] = IF /\ link[mini][x] # NoLink
                              /\ costs[turn][mini] + link[mini][x] < costs[turn][x]
                           THEN costs[turn][mini] + link[mini][x] ELSE costs[turn][x]
  BY DijkstraCosts
<1>7. \A x \in Routers \ {turn} :
         /\ costs[turn][x] \in Nat /\ costs'[turn][x] \in Nat
         /\ \A y \in Routers : link[y][x] \in Nat
  BY <1>1, <1>5, Numbers DEF Reach, NetworkType
<1>8. \A k \in 0..N, x \in Routers : w[k][x] \in Nat /\ w[N][x] <= w[k][x]
  BY <1>1, WalkCostsFall
<1>9. c \in Nat /\ c + 1 \in 1..N /\ c + 2 \in 1..N /\ Cardinality(visited') = c + 1
  BY <1>1, <1>3, VisitedCount DEF Unvisited
<1>10. TableTypes'
  <2>1. DOMAIN prev' = Routers /\ \A r \in Routers \ {turn} : prev'[r] = prev[r]
    BY <1>1 DEF Dijkstra
  <2>2. \A r \in Routers : costs'[r] \in [Routers \ {r} -> Reach]
    BY <1>1, <1>5
  <2>3. ASSUME NEW r \in Routers, r > turn PROVE Untouched(r)'
    <3>1. r # turn
      BY <1>1, <2>3
    <3>2. costs'[r] = costs[r] /\ prev'[r] = prev[r] /\ link' = link
      BY <1>2, <1>5, <2>1, <3>1
    <3>3. Untouched(r)
      BY <1>1, <2>3
    <3>4. QED
      BY <3>2, <3>3 DEF Untouched, Direct
  <2>4. visited' \subseteq Routers /\ turn \notin visited'
    BY <1>1, <1>3, <1>4
  <2>5. QED
    BY <1>1, <1>2, <1>5, <2>1, <2>2, <2>3, <2>4 DEF TableTypes
<1>11. \A x \in Routers \ {turn} : costs'[turn][x] >= w[c + 2][x]
  <2>1. ASSUME NEW x \in Routers \ {turn} PROVE costs'[turn][x] >= w[c + 2][x]
    <3>1. /\ costs[turn][x] >= w[c + 1][x]
          /\ costs[turn][mini] >= w[c + 1][mini]
      BY <1>1, <1>4 DEF DijkstraInv, AboveWalks
    <3>2. w[c + 2] = Onward(link, w[c + 1]) /\ w[c + 1] \in [Routers -> Reach]
      <4>1. \A j \in 1..N : w[j] = Onward(link, w[j - 1])
        BY <1>1, WalkCostsDefined
      <4>2. w \in [0..N -> [Routers -> Reach]]
        BY <1>1, WalkCostsDefined
      <4>3. c + 1 \in 0..N /\ (c + 2) - 1 = c + 1
        BY <1>9
      <4> HIDE DEF w, c
      <4>4. QED
        BY <1>9, <4>1, <4>2, <4>3
    <3>3. /\ w[c + 2][x] <= w[c + 1][x]
          /\ link[mini][x] # NoLink => w[c + 2][x] <= w[c + 1][mini] + link[mini][x]
      BY <1>1, <1>4, <3>2, OnwardLeast
    <3>4. /\ w[c + 1][x] \in Nat /\ w[c + 2][x] \in Nat /\ w[c + 1][mini] \in Nat
          /\ costs[turn][mini] \in Nat /\ costs[turn][x] \in Nat /\ link[mini][x] \in Nat
      BY <1>4, <1>7, <1>8, <1>9
    <3> HIDE DEF w, c, mini
    <3>5. QED
      BY <1>6, <3>1, <3>3, <3>4
  <2>2. QED
    BY <2>1
<1>12. AboveWalks'
  <2>1. (Cardinality(visited) + 1)' = c + 2
    BY <1>9
  <2>2. QED
    BY <1>2, <1>11, <2>1 DEF AboveWalks
<1>13. \A x \in Routers \ {turn} : costs'[turn][x] >= w[N][x]
  <2>1. ASSUME NEW x \in Routers \ {turn} PROVE costs'[turn][x] >= w[N][x]
    <3>1. w[N][x] <= w[c + 2][x] /\ w[c + 2][x] \in Nat /\ w[N][x] \in Nat
      BY <1>8, <1>9, Numbers
    <3> HIDE DEF w, c
    <3>2. QED
      BY <1>7, <1>11, <3>1
  <2>2. QED
    BY <2>1
<1>14. \A x \in visited' : costs[turn][x] <= w[N][x] /\ x \in Routers \ {turn}
  <2>1. \A x \in visited : costs[turn][x] <= w[N][x]
    BY <1>1 DEF DijkstraInv, Settled, Distances
  <2>2. costs[turn][mini] <= w[N][mini]
    BY <1>3, MiniSettled DEF Distances, Dijkstra
  <2>3. QED
    BY <1>1, <1>3, <1>4, <2>1, <2>2
<1>15. \A x \in visited' : costs'[turn][x] = costs[turn][x]
  <2>1. ASSUME NEW x \in visited' PROVE costs'[turn][x] = costs[turn][x]
    <3>1. /\ costs[turn][x] <= w[N][x] /\ costs'[turn][x] >= w[N][x]
          /\ x \in Routers \ {turn}
      BY <1>13, <1>14
    <3>2. w[N][x] \in Nat
      BY <1>8, <3>1, Numbers
    <3> HIDE DEF w, mini
    <3>3. QED
      BY <1>6, <1>7, <3>1, <3>2
  <2>2. QED
    BY <2>1
<1>16. Settled'
  <2>1. Distances(turn)' = w[N]
    BY <1>2 DEF Distances
  <2>2. QED
    BY <1>2, <1>14, <1>15, <2>1 DEF Settled
<1>17. Followed'
  <2>1. SUFFICES ASSUME NEW y \in visited' \cup {turn}, NEW x \in Routers \ {turn},
                        link[y][x] # NoLink
                 PROVE  costs'[turn][x] <= CostOf(y)' + link[y][x]
    BY <1>2 DEF Followed
  <2>2. CostOf(y)' = CostOf(y) /\ CostOf(y) \in Nat /\ y \in Routers
    BY <1>1, <1>2, <1>7, <1>14, <1>15 DEF CostOf
  <2>3. costs'[turn][x] <= costs[turn][x]
    <3> HIDE DEF mini
    <3>1. QED
      BY <1>6, <1>7
  <2>4. CASE y = mini
    <3>1. CostOf(y) = costs[turn][mini]
      BY <1>4, <2>4 DEF CostOf
    <3> HIDE DEF mini
    <3>2. costs'[turn][x] <= costs[turn][mini] + link[mini][x]
      BY <1>6, <1>7, <2>1, <2>2, <2>4, <3>1
    <3>3. QED
      BY <2>2, <2>4, <3>1, <3>2
  <2>5. CASE y # mini
    <3>1. y \in visited \cup {turn}
      BY <1>3, <2>5
    <3>2. costs[turn][x] <= CostOf(y) + link[y][x]
      BY <1>1, <2>1, <3>1 DEF DijkstraInv, Followed
    <3>3. QED
      BY <1>7, <2>2, <2>3, <3>2
  <2>6. QED
    BY <2>4, <2>5
<1>18. QED
  BY <1>10, <1>12, <1>16, <1>17 DEF DijkstraInv

(* The start of Dijkstra for a router: its own links were followed.        *)
LEMMA UntouchedHolds ==
    ASSUME link \in NetworkType, turn \in Routers, visited = {}, Untouched(turn)
    PROVE  AboveWalks /\ Settled /\ Followed
<1> DEFINE w == WalkCosts(link, turn)
<1>1. \A x, y \in Routers : link[y][x] \in Nat /\ link[y][x] <= INFINITY
  BY Numbers DEF NetworkType, Reach
<1>2. \A x \in Routers \ {turn} :
         costs[turn][x] = IF link[turn][x] # NoLink THEN link[turn][x] ELSE INFINITY
  BY DEF Untouched, Direct
<1>3. Cardinality(visited) = 0
  BY FS_EmptySet
<1>4. ASSUME NEW x \in Routers \ {turn} PROVE costs[turn][x] >= w[1][x]
  <2>1. w[0] = AtStart(turn) /\ w[1] = Onward(link, w[0]) /\ w[0] \in [Routers -> Reach]
    <3>1. \A j \in 1..N : w[j] = Onward(link, w[j - 1])
      BY WalkCostsDefined
    <3>2. w[0] = AtStart(turn) /\ w \in [0..N -> [Routers -> Reach]]
      BY WalkCostsDefined
    <3> HIDE DEF w
    <3>3. 1 \in 1..N /\ 0 \in 0..N /\ 1 - 1 = 0
      BY Numbers
    <3>4. QED
      BY <3>1, <3>2, <3>3
  <2>2. w[0][x] = INFINITY /\ w[0][turn] = 0
    BY <2>1 DEF AtStart
  <2>3. /\ w[1][x] <= w[0][x]
        /\ link[turn][x] # NoLink => w[1][x] <= w[0][turn] + link[turn][x]
        /\ w[1][x] \in Nat
    BY <2>1, OnwardLeast, Numbers DEF Reach
  <2> HIDE DEF w
  <2>4. QED
    BY <1>1, <1>2, <2>2, <2>3, Numbers
<1>5. AboveWalks
  BY <1>3, <1>4 DEF AboveWalks
<1>6. Settled
  BY DEF Settled
<1>7. Followed
  <2>1. \A x \in Routers \ {turn} : link[turn][x] # NoLink =>
            costs[turn][x] <= CostOf(turn) + link[turn][x]
    BY <1>1, <1>2 DEF CostOf
  <2>2. QED
    BY <2>1 DEF Followed
<1>8. QED
  BY <1>5, <1>6, <1>7

(* A network of the topology has costs within INFINITY.                    *)
LEMMA NetworkTyped == Networks \subseteq NetworkType
<1> SUFFICES ASSUME NEW l \in Networks PROVE l \in NetworkType
  OBVIOUS
<1>1. PICK w \in [Pairs -> Costs \cup {NoLink}] :
         l = [a \in Routers |-> [b \in Routers |->
                 IF a < b THEN w[<<a, b>>] ELSE IF b < a THEN w[<<b, a>>] ELSE NoLink]]
  BY DEF Networks
<1>2. \A c \in Costs \cup {NoLink} : c \in Reach
  BY CostsAssumption, Numbers DEF Reach, NoLink
<1>3. ASSUME NEW a \in Routers, NEW b \in Routers PROVE l[a][b] \in Reach
  <2>1. l[a][b] = IF a < b THEN w[<<a, b>>] ELSE IF b < a THEN w[<<b, a>>] ELSE NoLink
    BY <1>1
  <2>2. a < b => <<a, b>> \in Pairs
    BY DEF Pairs
  <2>3. b < a => <<b, a>> \in Pairs
    BY DEF Pairs
  <2>4. QED
    BY <1>2, <2>1, <2>2, <2>3
<1>4. l = [a \in Routers |-> [b \in Routers |-> l[a][b]]]
  BY <1>1
<1>5. QED
  BY <1>3, <1>4 DEF NetworkType

(* The topology as it is read keeps the invariant.                         *)
LEMMA DijkstraInit == RoutingInit => DijkstraInv
<1> SUFFICES ASSUME RoutingInit PROVE DijkstraInv
  OBVIOUS
<1>1. link \in NetworkType
  BY NetworkTyped DEF RoutingInit
<1>2. pc = "explore" /\ turn = 1 /\ visited = {} /\ Connected
      /\ prev = [r \in Routers |-> <<>>]
      /\ DOMAIN costs = Routers /\ DOMAIN next = Routers
  BY DEF RoutingInit
<1>3. TableTypes
  BY <1>1, <1>2 DEF TableTypes
<1>4. QED
  BY <1>2, <1>3 DEF DijkstraInv, AboveWalks, Settled, Followed

(* ExploreNodeGraph leaves every table untouched.                          *)
LEMMA ExploreKeeps == DijkstraInv /\ ExploreNodeGraph => DijkstraInv'
<1> SUFFICES ASSUME DijkstraInv, ExploreNodeGraph PROVE DijkstraInv'
  OBVIOUS
<1>1. /\ link \in NetworkType /\ Connected /\ turn = 1 /\ visited = {}
      /\ prev = [r \in Routers |-> <<>>] /\ DOMAIN next = Routers
  BY DEF DijkstraInv, TableTypes, ExploreNodeGraph
<1>2. UNCHANGED <<link, turn, prev, visited, next, pkt>> /\ pc' = "dijkstra"
  BY DEF ExploreNodeGraph
<1>3. \A r \in Routers : VisitedRouters(r) = Routers \ {r}
  BY <1>1 DEF Connected
<1>4. costs' = [r \in Routers |-> [x \in Routers \ {r} |->
                   IF x \in Direct(r) THEN link[r][x] ELSE INFINITY]]
  BY <1>3 DEF ExploreNodeGraph
<1>5. \A r \in Routers : Untouched(r)'
  BY <1>1, <1>2, <1>4 DEF Untouched, Direct
<1>6. \A r \in Routers : costs'[r] \in [Routers \ {r} -> Reach]
  <2>1. ASSUME NEW r \in Routers, NEW x \in Routers \ {r}
        PROVE  (IF x \in Direct(r) THEN link[r][x] ELSE INFINITY) \in Reach
    BY <1>1, Numbers DEF NetworkType, Reach
  <2>2. QED
    BY <1>4, <2>1
<1>7. 1 \in Routers
  BY Numbers DEF Routers
<1>8. TableTypes'
  BY <1>1, <1>2, <1>4, <1>5, <1>6, <1>7 DEF TableTypes
<1>9. (AboveWalks /\ Settled /\ Followed)'
  <2>1. (link \in NetworkType /\ turn \in Routers /\ visited = {} /\ Untouched(turn))'
    BY <1>1, <1>2, <1>5, <1>7
  <2>2. QED
    BY <2>1, UntouchedHolds, PTL
<1>10. QED
  BY <1>8, <1>9 DEF DijkstraInv

(* The next router starts with its tables untouched.                       *)
LEMMA DrawKeeps == DijkstraInv /\ DrawDifferentPaths => DijkstraInv'
<1> SUFFICES ASSUME DijkstraInv, DrawDifferentPaths PROVE DijkstraInv'
  OBVIOUS
<1>1. /\ link \in NetworkType /\ turn \in Routers /\ turn \in Nat
      /\ DOMAIN costs = Routers /\ DOMAIN prev = Routers /\ DOMAIN next = Routers
      /\ \A r \in Routers : costs[r] \in [Routers \ {r} -> Reach]
      /\ \A r \in Routers : r > turn => Untouched(r)
  BY DEF DijkstraInv, TableTypes, DrawDifferentPaths
<1>2. /\ UNCHANGED <<link, costs, prev, pkt>>
      /\ visited' = {} /\ turn' = turn + 1
      /\ pc' = IF turn = N THEN "ready" ELSE "dijkstra"
      /\ DOMAIN next' = Routers
  BY <1>1 DEF DrawDifferentPaths
<1>3. ASSUME NEW r \in Routers, Untouched(r) PROVE Untouched(r)'
  BY <1>2, <1>3 DEF Untouched, Direct
<1>4. /\ link' \in NetworkType /\ turn' \in Nat /\ visited' \subseteq Routers
      /\ DOMAIN costs' = Routers /\ DOMAIN prev' = Routers /\ DOMAIN next' = Routers
      /\ \A r \in Routers : costs'[r] \in [Routers \ {r} -> Reach]
  BY <1>1, <1>2
<1>5. CASE turn = N
  <2>1. pc' = "ready"
    BY <1>2, <1>5
  <2>2. TableTypes'
    BY <1>4, <2>1 DEF TableTypes
  <2>3. QED
    BY <2>1, <2>2 DEF DijkstraInv, AboveWalks, Settled, Followed
<1>6. CASE turn # N
  <2>1. pc' = "dijkstra" /\ turn' \in Routers /\ turn' > turn
    BY <1>1, <1>2, <1>6, Numbers DEF Routers
  <2>2. \A r \in Routers : r > turn' => r > turn
    BY <1>1, <1>2, Numbers DEF Routers
  <2>3. TableTypes'
    <3>1. \A r \in Routers : r > turn' => Untouched(r)'
      BY <1>1, <1>3, <2>2
    <3>2. QED
      BY <1>2, <1>4, <2>1, <3>1 DEF TableTypes
  <2>4. Untouched(turn)'
    <3>1. Untouched(turn + 1)
      BY <1>1, <1>2, <2>1
    <3>2. QED
      BY <1>2, <3>1 DEF Untouched, Direct
  <2>5. (link \in NetworkType /\ turn \in Routers /\ visited = {} /\ Untouched(turn))'
    BY <1>2, <1>4, <2>1, <2>4
  <2>6. (AboveWalks /\ Settled /\ Followed)'
    BY <2>5, UntouchedHolds, PTL
  <2>7. QED
    BY <2>3, <2>6 DEF DijkstraInv
<1>7. QED
  BY <1>5, <1>6

(* Packets do not change the tables.                                       *)
LEMMA PacketsKeep ==
    ASSUME DijkstraInv, UNCHANGED <<link, turn, costs, prev, visited, next>>,
           pc # "explore", pc' \in {"ready", "forward", "arrived"}
    PROVE  DijkstraInv'
<1>1. TableTypes'
  BY DEF DijkstraInv, TableTypes
<1>2. QED
  BY <1>1 DEF DijkstraInv, AboveWalks, Settled, Followed

(* Every step keeps the invariant.                                         *)
LEMMA DijkstraStep == DijkstraInv /\ [RoutingNext]_routingVars => DijkstraInv'
<1> SUFFICES ASSUME DijkstraInv, [RoutingNext]_routingVars PROVE DijkstraInv'
  OBVIOUS
<1>1. CASE ExploreNodeGraph
  BY <1>1, ExploreKeeps
<1>2. CASE Dijkstra
  BY <1>2, DijkstraKeeps
<1>3. CASE DrawDifferentPaths
  BY <1>3, DrawKeeps
<1>4. CASE \E s, d \in Routers : SendPacket(s, d)
  BY <1>4, PacketsKeep DEF SendPacket
<1>5. CASE ForwardHop
  BY <1>5, PacketsKeep DEF ForwardHop
<1>6. CASE ForwardLast
  BY <1>6, PacketsKeep DEF ForwardLast
<1>7. CASE PacketDone
  BY <1>7, PacketsKeep DEF PacketDone
<1>8. CASE UNCHANGED routingVars
  <2>1. UNCHANGED <<link, pc, turn, costs, prev, visited, next>>
    BY <1>8 DEF routingVars
  <2>2. Connected' <=> Connected
    BY <2>1 DEF Connected, VisitedRouters, Via, Direct
  <2>3. \A r \in Routers : Untouched(r)' <=> Untouched(r)
    BY <2>1 DEF Untouched, Direct
  <2>4. TableTypes'
    BY <2>1, <2>2, <2>3 DEF DijkstraInv, TableTypes
  <2>5. (AboveWalks /\ Settled /\ Followed)'
    BY <2>1 DEF DijkstraInv, AboveWalks, Settled, Followed, CostOf, Distances
  <2>6. QED
    BY <2>4, <2>5 DEF DijkstraInv
<1>9. QED
  BY <1>1, <1>2, <1>3, <1>4, <1>5, <1>6, <1>7, <1>8 DEF RoutingNext

(* The tables keep their invariant.                                        *)
LEMMA DijkstraInvariance == RoutingInit /\ [][RoutingNext]_routingVars => []DijkstraInv
BY DijkstraInit, DijkstraStep, PTL

(* The cost of a visited router is the least cost of any walk to it, and   *)
(* no cost is ever below it, for any number of routers and any costs.      *)
THEOREM CostsCorrect == RoutingSpec => []CostsExact
<1>1. DijkstraInv => CostsExact
  <2> SUFFICES ASSUME DijkstraInv, pc = "dijkstra", NEW x \in DOMAIN costs[turn]
               PROVE  /\ costs[turn][x] >= Distances(turn)[x]
                      /\ x \in visited => costs[turn][x] = Distances(turn)[x]
    BY DEF CostsExact
  <2> DEFINE c == Cardinality(visited)
             w == WalkCosts(link, turn)
  <2>1. /\ turn \in Routers /\ visited \subseteq Routers /\ turn \notin visited
        /\ link \in NetworkType
        /\ costs[turn] \in [Routers \ {turn} -> Reach]
    BY DEF DijkstraInv, TableTypes
  <2>2. x \in Routers \ {turn} /\ costs[turn][x] \in Nat
    BY <2>1, Numbers DEF Reach
  <2>3. c + 1 \in 0..N
    BY <2>1, VisitedCount
  <2>4. w[N][x] <= w[c + 1][x] /\ w[c + 1][x] \in Nat
    BY <2>1, <2>2, <2>3, WalkCostsFall
  <2>5. w[N][x] \in Nat
    BY <2>1, <2>2, WalkCostsFall, Numbers
  <2>6. costs[turn][x] >= w[c + 1][x]
    BY <2>2 DEF DijkstraInv, AboveWalks
  <2>7. x \in visited => costs[turn][x] <= w[N][x]
    BY DEF DijkstraInv, Settled, Distances
  <2> HIDE DEF w, c
  <2>8. costs[turn][x] >= w[N][x] /\ (x \in visited => costs[turn][x] = w[N][x])
    BY <2>2, <2>4, <2>5, <2>6, <2>7
  <2>9. QED
    BY <2>8 DEF w, Distances
<1>2. QED
  BY <1>1, DijkstraInvariance, PTL DEF RoutingSpec

-----------------------------------------------------------------------------
(* The next router *)

(* A table of predecessors.                                                *)
IsPrev(p) == DOMAIN p \subseteq Routers /\ \A x \in DOMAIN p : p[x] \in Routers

(* Going back ends at a router, and at once at one without predecessor.    *)
LEMMA BackEnds ==
    ASSUME NEW p, IsPrev(p), NEW d \in Routers
    PROVE  Back(p, d) \in Routers /\ (d \notin DOMAIN p => Back(p, d) = d)
<1> DEFINE Before(x) == IF x \in DOMAIN p THEN p[x] ELSE x
           Step(f) == [k \in 0..N |-> IF k = 0 THEN d ELSE Before(f[k - 1])]
           g == [q \in Nat \X Routers |-> Before(q[2])]
           w == CHOOSE h : h = Step(h)
<1>1. Back(p, d) = w[N]
  BY DEF Back
<1>2. \A x \in Routers : Before(x) \in Routers
  BY DEF IsPrev
<1>3. g \in [Nat \X Routers -> Routers]
  BY <1>2
<1>4. \A k \in Nat, x \in Routers : g[<<k, x>>] = Before(x)
  OBVIOUS
<1>5. N \in Nat
  BY Numbers
<1> HIDE DEF g, Before
<1>6. PICK f : Recursive(f, N, Routers, d, g)
  BY <1>3, <1>5, RecursionExists
<1>7. f = Step(f)
  <2>1. ASSUME NEW k \in 0..N PROVE f[k] = Step(f)[k]
    <3>1. CASE k = 0
      BY <1>6, <3>1 DEF Recursive
    <3>2. CASE k # 0
      <4>1. k \in 1..N /\ k - 1 \in 0..N /\ k \in Nat
        BY <1>5, <3>2
      <4>2. f[k - 1] \in Routers /\ f[k] = g[<<k, f[k - 1]>>]
        BY <1>6, <4>1 DEF Recursive
      <4>3. QED
        BY <1>4, <3>2, <4>1, <4>2
    <3>3. QED
      BY <3>1, <3>2
  <2>2. QED
    BY <1>6, <2>1 DEF Recursive
<1>8. w = Step(w)
  BY <1>7
<1> HIDE DEF w
<1>9. w = [k \in 0..N |-> w[k]] /\ w[0] = d
  BY <1>5, <1>8
<1>10. ASSUME NEW k \in 1..N PROVE w[k] = Before(w[k - 1])
  <2>1. k \in 0..N /\ k # 0
    BY <1>5
  <2>2. QED
    BY <1>8, <2>1
<1>11. Recursive(w, N, Routers, d, g)
  <2>1. \A k \in 1..N : w[k - 1] \in Routers => w[k] = g[<<k, w[k - 1]>>]
    BY <1>4, <1>5, <1>10
  <2>2. QED
    BY <1>3, <1>5, <1>9, <2>1, RecursionTyped
<1>12. w[N] \in Routers
  BY <1>5, <1>11 DEF Recursive
<1>13. ASSUME d \notin DOMAIN p PROVE w[N] = d
  <2> DEFINE P == {k \in Nat : k \in 0..N => w[k] = d}
  <2>1. 0 \in P
    BY <1>9
  <2>2. ASSUME NEW k \in P PROVE k + 1 \in P
    <3>1. SUFFICES ASSUME k + 1 \in 0..N PROVE w[k + 1] = d
      OBVIOUS
    <3>2. k \in 0..N /\ k + 1 \in 1..N /\ (k + 1) - 1 = k
      BY <1>5, <3>1
    <3>3. w[k] = d /\ w[k + 1] = Before(w[k])
      BY <1>10, <3>2
    <3>4. QED
      BY <1>13, <3>3 DEF Before
  <2>3. P = Nat
    <3>1. P \subseteq Nat
      OBVIOUS
    <3> HIDE DEF P
    <3>2. QED
      BY <2>1, <2>2, <3>1, NatInduct
  <2>4. QED
    BY <1>5, <2>3
<1>14. QED
  BY <1>1, <1>12, <1>13

(* The tables of predecessors; and a direct link that is a shortest path   *)
(* was never improved upon.                                                *)
PrevInv ==
    /\ \A r \in Routers : IsPrev(prev[r])
    /\ NoDearLink => \A r \in Routers : \A x \in Direct(r) : x \notin DOMAIN prev[r]

(* The tables that were drawn say what the predecessors say.               *)
NextInv ==
    /\ pc # "explore" => \A r \in Routers : r < turn =>
          next[r] = [d \in Routers \ {r} |-> Back(prev[r], d)]
    /\ pc \in {"ready", "forward", "arrived"} => turn = N + 1

(* The links of the network do not change.                                 *)
LEMMA LinkStays ==
    ASSUME [RoutingNext]_routingVars
    PROVE  link' = link
BY DEF RoutingNext, routingVars, ExploreNodeGraph, Dijkstra, DrawDifferentPaths, SendPacket,
       ForwardHop, ForwardLast, PacketDone

(* No table of predecessors gains a direct link in such a network.         *)
LEMMA PrevStep == DijkstraInv /\ PrevInv /\ [RoutingNext]_routingVars => PrevInv'
<1> SUFFICES ASSUME DijkstraInv, PrevInv, [RoutingNext]_routingVars PROVE PrevInv'
  OBVIOUS
<1>1. link' = link
  BY LinkStays
<1>2. NoDearLink' = NoDearLink /\ \A r \in Routers : Direct(r)' = Direct(r)
  BY <1>1 DEF NoDearLink, Direct, Distances
<1>3. CASE Dijkstra
  <2> DEFINE mini == Mini(turn)
             better == {x \in DOMAIN costs[turn] \cap Direct(mini) :
                           costs[turn][mini] + link[mini][x] < costs[turn][x]}
  <2>1. /\ turn \in Routers /\ DOMAIN prev = Routers /\ pc = "dijkstra"
        /\ link \in NetworkType
        /\ costs[turn] \in [Routers \ {turn} -> Reach]
    BY <1>3 DEF DijkstraInv, TableTypes, Dijkstra
  <2>2. mini \in Routers
    BY <1>3, MiniLeast DEF Dijkstra, Unvisited
  <2>3. prev' = [prev EXCEPT ![turn] = InsertPrev(@, better, mini)]
    BY <1>3 DEF Dijkstra
  <2>4. better \subseteq Routers \ {turn}
    BY <2>1
  <2>5. \A x \in better : /\ link[mini][x] # NoLink
                           /\ costs[turn][mini] + link[mini][x] < costs[turn][x]
    BY DEF Direct
  <2>6. \A x \in better : costs'[turn][x] < costs[turn][x]
    BY <1>3, <2>4, <2>5, DijkstraCosts
  <2> HIDE DEF better, mini
  <2>7. /\ prev'[turn] = InsertPrev(prev[turn], better, mini)
        /\ \A r \in Routers \ {turn} : prev'[r] = prev[r]
    BY <2>1, <2>3
  <2>8. IsPrev(prev'[turn]) /\ DOMAIN prev'[turn] = DOMAIN prev[turn] \cup better
    <3>1. IsPrev(prev[turn])
      BY <2>1 DEF PrevInv
    <3>2. QED
      BY <2>2, <2>4, <2>7, <3>1 DEF IsPrev, InsertPrev
  <2>9. ASSUME NoDearLink, NEW x \in Direct(turn), x \in better PROVE FALSE
    <3>1. x \in Routers \ {turn} /\ link[turn][x] # NoLink
      BY <2>4, <2>9 DEF Direct
    <3>2. link[turn][x] = Distances(turn)[x]
      BY <2>1, <2>9 DEF NoDearLink
    <3>3. costs[turn][x] <= CostOf(turn) + link[turn][x]
      BY <2>1, <3>1 DEF DijkstraInv, Followed
    <3>4. DijkstraInv' /\ UNCHANGED <<link, pc, turn>>
      BY <1>3, DijkstraKeeps DEF Dijkstra
    <3>5. costs'[turn][x] >= WalkCosts(link, turn)[Cardinality(visited') + 1][x]
      BY <2>1, <3>1, <3>4 DEF DijkstraInv, AboveWalks
    <3>6. visited' \subseteq Routers /\ turn \notin visited'
      BY <2>1, <3>4 DEF DijkstraInv, TableTypes
    <3>7. Cardinality(visited') + 1 \in 0..N
      BY <2>1, <3>6, VisitedCount
    <3>8. /\ WalkCosts(link, turn)[N][x] <= WalkCosts(link, turn)[Cardinality(visited') + 1][x]
          /\ WalkCosts(link, turn)[Cardinality(visited') + 1][x] \in Nat
      BY <2>1, <3>1, <3>7, WalkCostsFall
    <3>9. /\ costs[turn][x] \in Nat /\ link[turn][x] \in Nat
          /\ costs'[turn][x] \in Nat /\ costs'[turn][x] < costs[turn][x]
      <4>1. costs'[turn] \in [Routers \ {turn} -> Reach]
        BY <1>3, DijkstraCosts
      <4>2. QED
        BY <2>1, <2>6, <2>9, <3>1, <4>1, Numbers DEF Reach, NetworkType
    <3>10. CostOf(turn) = 0
      BY DEF CostOf
    <3>11. WalkCosts(link, turn)[N][x] = link[turn][x]
      BY <3>2 DEF Distances
    <3>12. QED
      BY <3>3, <3>5, <3>8, <3>9, <3>10, <3>11
  <2>10. \A r \in Routers : IsPrev(prev'[r])
    BY <2>7, <2>8 DEF PrevInv
  <2>11. ASSUME NoDearLink, NEW r \in Routers, NEW x \in Direct(r)
         PROVE  x \notin DOMAIN prev'[r]
    BY <2>1, <2>7, <2>8, <2>9, <2>11 DEF PrevInv
  <2>12. QED
    BY <1>2, <2>10, <2>11 DEF PrevInv
<1>4. CASE ~Dijkstra
  <2>1. prev' = prev
    BY <1>4 DEF RoutingNext, routingVars, ExploreNodeGraph, DrawDifferentPaths, SendPacket,
                ForwardHop, ForwardLast, PacketDone
  <2>2. QED
    BY <1>2, <2>1 DEF PrevInv
<1>5. QED
  BY <1>3, <1>4

(* DrawDifferentPaths draws from the final predecessors.                   *)
LEMMA NextStep == DijkstraInv /\ NextInv /\ [RoutingNext]_routingVars => NextInv'
<1> SUFFICES ASSUME DijkstraInv, NextInv, [RoutingNext]_routingVars PROVE NextInv'
  OBVIOUS
<1>1. DOMAIN prev = Routers /\ DOMAIN next = Routers /\ turn \in Nat
  BY DEF DijkstraInv, TableTypes
<1>2. CASE ExploreNodeGraph
  <2>1. turn' = 1 /\ pc' = "dijkstra"
    BY <1>2 DEF ExploreNodeGraph, DijkstraInv, TableTypes
  <2>2. \A r \in Routers : ~(r < 1)
    BY Numbers DEF Routers
  <2>3. QED
    BY <2>1, <2>2 DEF NextInv
<1>3. CASE Dijkstra
  <2>1. /\ UNCHANGED <<pc, turn, next>> /\ pc = "dijkstra" /\ turn \in Routers
        /\ \A r \in Routers \ {turn} : prev'[r] = prev[r]
    BY <1>1, <1>3 DEF Dijkstra, DijkstraInv, TableTypes
  <2>2. \A r \in Routers : r < turn => r # turn
    BY <1>1
  <2>3. QED
    BY <2>1, <2>2 DEF NextInv
<1>4. CASE DrawDifferentPaths
  <2>1. /\ UNCHANGED prev /\ pc = "dijkstra" /\ turn \in Routers
        /\ turn' = turn + 1 /\ pc' = IF turn = N THEN "ready" ELSE "dijkstra"
        /\ costs[turn] \in [Routers \ {turn} -> Reach]
    BY <1>4 DEF DrawDifferentPaths, DijkstraInv, TableTypes
  <2>2. next' = [next EXCEPT ![turn] =
                   [d \in Routers \ {turn} |-> GetNextRouterToward(turn, d)]]
    BY <1>4, <2>1 DEF DrawDifferentPaths
  <2>3. [d \in Routers \ {turn} |-> GetNextRouterToward(turn, d)]
            = [d \in Routers \ {turn} |-> Back(prev[turn], d)]
    BY DEF GetNextRouterToward
  <2>4. ASSUME NEW r \in Routers, r < turn + 1
        PROVE  next'[r] = [d \in Routers \ {r} |-> Back(prev[r], d)]
    <3>1. CASE r = turn
      BY <1>1, <2>2, <2>3, <3>1
    <3>2. CASE r # turn
      <4>1. r < turn
        BY <1>1, <2>4, <3>2, Numbers DEF Routers
      <4>2. QED
        BY <1>1, <2>1, <2>2, <3>2, <4>1 DEF NextInv
    <3>3. QED
      BY <3>1, <3>2
  <2>5. QED
    BY <2>1, <2>4 DEF NextInv
<1>5. CASE UNCHANGED <<turn, prev, next>> /\ (pc' = pc \/ pc \in {"ready", "forward", "arrived"})
  BY <1>5 DEF NextInv
<1>6. QED
  BY <1>2, <1>3, <1>4, <1>5 DEF RoutingNext, routingVars, SendPacket, ForwardHop, ForwardLast, PacketDone

-----------------------------------------------------------------------------
(* The way of a packet *)

(* The interfaces, other than those to an AS, at which a packet came in.   *)
Ins(offered) == {o[2] : o \in {q \in offered : q[1] = "in" /\ q[2][2] # EdgeAs}}

Adapters == Nat \X Nat
PacketType == [src : Nat, dst : Nat, cur : Nat, in : Adapters,
               offered : SUBSET ({"in", "out"} \X Adapters), hops : SUBSET Nat]

(* The packet went from w[0] to w[k] by the tables, past other routers     *)
(* than its destination.                                                   *)
Along(w, k) ==
    /\ k \in Nat /\ w \in [0..k -> Routers]
    /\ w[0] = pkt.src
    /\ \A i \in 1..k : w[i - 1] # pkt.dst /\ w[i] = next[w[i - 1]][pkt.dst]

(* The monitored interfaces among the first k of the way.                  *)
Seen(w, k) == {<<w[i], w[i - 1]>> : i \in {j \in 1..k : Watched(<<w[j], w[j - 1]>>)}}

(* The packet is at w[k], for the first time.                              *)
OnTheWay(w, k) ==
    /\ Along(w, k) /\ w[k] = pkt.cur
    /\ pkt.hops = {w[i] : i \in 0..k - 1}
    /\ Cardinality(pkt.hops) = k /\ pkt.cur \notin pkt.hops
    /\ pkt.in = IF k = 0 THEN <<pkt.src, EdgeAs>> ELSE <<w[k], w[k - 1]>>
    /\ Ins(pkt.offered) = Seen(w, k - 1)

(* The packet has come back to a router, so that it never gets out.        *)
Circling ==
    /\ pkt.cur \in pkt.hops /\ pkt.dst \notin pkt.hops
    /\ \A x \in pkt.hops : next[x][pkt.dst] \in pkt.hops

WayInv ==
    /\ pc \in {"forward", "arrived"} => pkt \in PacketType
    /\ pc = "forward" =>
          /\ {pkt.src, pkt.dst, pkt.cur} \subseteq Routers /\ pkt.hops \subseteq Routers
          /\ NoDearLink => Circling \/ \E k \in Nat : \E w \in [0..k -> Routers] : OnTheWay(w, k)
    /\ (pc = "arrived" /\ NoDearLink /\ pkt.src # pkt.dst) =>
          /\ {pkt.src, pkt.dst} \subseteq Routers
          /\ \E k \in 1..N : \E w \in [0..k -> Routers] :
                /\ Along(w, k) /\ w[k] = pkt.dst
                /\ Ins(pkt.offered) = Seen(w, k)

(* What a router adds to the interfaces.                                   *)
LEMMA InsAdd ==
    ASSUME NEW o, NEW r, NEW in \in Adapters, NEW out
    PROVE  Ins(o \cup Offered(r, in, out)) =
               Ins(o) \cup (IF in[1] = r /\ Watched(in) /\ in[2] # EdgeAs THEN {in} ELSE {})
<1> DEFINE new == Offered(r, in, out)
<1>1. Ins(o \cup new) = Ins(o) \cup Ins(new)
  BY DEF Ins
<1>2. Ins(new) = IF in[1] = r /\ Watched(in) /\ in[2] # EdgeAs THEN {in} ELSE {}
  <2> DEFINE came == {q \in new : q[1] = "in" /\ q[2][2] # EdgeAs}
  <2>1. \A q \in came : q = <<"in", in>> /\ in[1] = r /\ Watched(in) /\ in[2] # EdgeAs
    BY DEF Offered, Watched, GetInterfaceMonitoringStatus
  <2>2. in[1] = r /\ Watched(in) /\ in[2] # EdgeAs => <<"in", in>> \in came
    BY DEF Offered, Watched, GetInterfaceMonitoringStatus
  <2>3. Ins(new) = {o2[2] : o2 \in came}
    BY DEF Ins
  <2> HIDE DEF came
  <2>4. CASE in[1] = r /\ Watched(in) /\ in[2] # EdgeAs
    <3>1. came = {<<"in", in>>}
      BY <2>1, <2>2, <2>4
    <3>2. QED
      BY <2>3, <2>4, <3>1
  <2>5. CASE ~(in[1] = r /\ Watched(in) /\ in[2] # EdgeAs)
    <3>1. came = {}
      BY <2>1, <2>5
    <3>2. QED
      BY <2>3, <2>5, <3>1
  <2>6. QED
    BY <2>4, <2>5
<1>3. QED
  BY <1>1, <1>2

(* The last interface of a way.                                            *)
LEMMA SeenLast ==
    ASSUME NEW k \in Nat \ {0}, NEW w \in [0..k -> Routers]
    PROVE  Seen(w, k) = Seen(w, k - 1) \cup (IF Watched(<<w[k], w[k - 1]>>) THEN {<<w[k], w[k - 1]>>} ELSE {})
<1>1. 1..k = (1..k - 1) \cup {k}
  OBVIOUS
<1>2. QED
  BY <1>1 DEF Seen

(* Where the packet goes: in a network without a dear link, by the         *)
(* interface of the router that the tables name.                           *)
LEMMA Towards ==
    ASSUME DijkstraInv, PrevInv, NextInv, NoDearLink, pc = "forward",
           NEW r \in Routers, NEW d \in Routers \ {r}
    PROVE  /\ next[r][d] \in Routers
           /\ GetLinkTowards(r, d) = <<next[r][d], r>>
<1>1. turn = N + 1 /\ r < turn
  BY Numbers DEF NextInv, Routers
<1>2. next[r][d] = Back(prev[r], d)
  BY <1>1 DEF NextInv
<1>3. IsPrev(prev[r])
  BY DEF PrevInv
<1>4. Back(prev[r], d) \in Routers /\ (d \notin DOMAIN prev[r] => Back(prev[r], d) = d)
  BY <1>3, BackEnds
<1>5. d \in Direct(r) => Back(prev[r], d) = d
  BY <1>4 DEF PrevInv
<1>6. QED
  BY <1>2, <1>4, <1>5 DEF GetLinkTowards, GetNextRouterToward

(* The tables always name a router.                                        *)
LEMMA NextRouter ==
    ASSUME DijkstraInv, PrevInv, NextInv, pc = "forward",
           NEW r \in Routers, NEW d \in Routers \ {r}
    PROVE  next[r][d] \in Routers
<1>1. turn = N + 1 /\ r < turn
  BY Numbers DEF NextInv, Routers
<1>2. next[r][d] = Back(prev[r], d) /\ IsPrev(prev[r])
  BY <1>1 DEF NextInv, PrevInv
<1>3. QED
  BY <1>2, BackEnds

(* A hop extends the way, or closes a circle.                              *)
LEMMA HopKeeps ==
    ASSUME DijkstraInv, PrevInv, NextInv, WayInv, ForwardHop PROVE WayInv'
<1> DEFINE r == pkt.cur
           d == pkt.dst
           n == next[r][d]
           to == GetLinkTowards(r, d)
<1>1. /\ pc = "forward" /\ pc' = "forward" /\ r # d
      /\ UNCHANGED <<link, next>>
      /\ pkt' = Router_ForwardPacketE(to, n, GetTheOppositeAdapter(to))
  BY DEF ForwardHop
<1>2. pkt \in PacketType /\ {pkt.src, d, r} \subseteq Routers /\ pkt.hops \subseteq Routers
  BY <1>1 DEF WayInv
<1>3. n \in Routers
  BY <1>1, <1>2, NextRouter
<1>4. to \in Adapters /\ GetTheOppositeAdapter(to) \in Adapters
  <2>1. GetNextRouterToward(r, d) \in Routers
    <3>1. IsPrev(prev[r])
      BY <1>2 DEF PrevInv
    <3>2. QED
      BY <1>1, <1>2, <3>1, BackEnds DEF GetNextRouterToward
  <2>2. Routers \subseteq Nat
    BY Numbers DEF Routers
  <2>3. to \in Adapters
    BY <1>2, <2>1, <2>2 DEF GetLinkTowards, Adapters
  <2>4. QED
    BY <2>3 DEF GetTheOppositeAdapter, Adapters
<1>5. /\ pkt'.src = pkt.src /\ pkt'.dst = d /\ pkt'.cur = n /\ pkt'.in = to
      /\ pkt'.hops = pkt.hops \cup {r}
      /\ pkt'.offered = pkt.offered \cup Offered(r, pkt.in, GetTheOppositeAdapter(to))
  BY <1>1, <1>2 DEF Router_ForwardPacketE, PacketType
<1>6. pkt' \in PacketType
  <2>1. Offered(r, pkt.in, GetTheOppositeAdapter(to)) \subseteq {"in", "out"} \X Adapters
    BY <1>2, <1>4 DEF Offered, PacketType
  <2>2. Routers \subseteq Nat
    BY Numbers DEF Routers
  <2>3. QED
    BY <1>1, <1>2, <1>3, <1>4, <2>1, <2>2 DEF Router_ForwardPacketE, PacketType
<1>7. NoDearLink' = NoDearLink
  BY <1>1 DEF NoDearLink, Direct, Distances
<1>8. ASSUME NoDearLink
      PROVE  (Circling \/ \E k \in Nat : \E w \in [0..k -> Routers] : OnTheWay(w, k))'
  <2>1. to = <<n, r>>
    BY <1>1, <1>2, <1>8, Towards
  <2>2. CASE Circling
    <3>1. n \in pkt.hops /\ pkt'.hops = pkt.hops
      BY <1>5, <2>2 DEF Circling
    <3>2. Circling'
      BY <1>1, <1>5, <2>2, <3>1 DEF Circling
    <3>3. QED
      BY <3>2
  <2>3. ASSUME NEW k \in Nat, NEW w \in [0..k -> Routers], OnTheWay(w, k)
        PROVE  (Circling \/ \E j \in Nat : \E v \in [0..j -> Routers] : OnTheWay(v, j))'
    <3>1. /\ w[0] = pkt.src /\ w[k] = r
          /\ \A i \in 1..k : w[i - 1] # d /\ w[i] = next[w[i - 1]][d]
          /\ pkt.hops = {w[i] : i \in 0..k - 1}
          /\ Cardinality(pkt.hops) = k /\ r \notin pkt.hops
          /\ pkt.in = IF k = 0 THEN <<pkt.src, EdgeAs>> ELSE <<w[k], w[k - 1]>>
          /\ Ins(pkt.offered) = Seen(w, k - 1)
      BY <2>3 DEF OnTheWay, Along
    <3>2. pkt'.hops = {w[i] : i \in 0..k}
      <4>1. 0..k = (0..k - 1) \cup {k}
        OBVIOUS
      <4>2. QED
        BY <1>5, <3>1, <4>1
    <3>3. CASE n \in pkt'.hops
      <4>1. ASSUME NEW i \in 0..k PROVE w[i] # d /\ next[w[i]][d] \in pkt'.hops
        <5>1. CASE i = k
          BY <1>1, <3>1, <3>3, <5>1
        <5>2. CASE i # k
          <6>1. i + 1 \in 1..k /\ (i + 1) - 1 = i /\ i + 1 \in 0..k
            BY <5>2
          <6>2. w[i] # d /\ w[i + 1] = next[w[i]][d]
            BY <3>1, <6>1
          <6>3. QED
            BY <3>2, <6>1, <6>2
        <5>3. QED
          BY <5>1, <5>2
      <4>2. Circling'
        BY <1>1, <1>5, <3>2, <3>3, <4>1 DEF Circling
      <4>3. QED
        BY <4>2
    <3>4. CASE n \notin pkt'.hops
      <4>1. PICK v \in [0..k + 1 -> Routers] : v[k + 1] = n /\ \A i \in 0..k : v[i] = w[i]
        <5> DEFINE u == [i \in 0..k + 1 |-> IF i = k + 1 THEN n ELSE w[i]]
        <5>1. u \in [0..k + 1 -> Routers] /\ u[k + 1] = n /\ \A i \in 0..k : u[i] = w[i]
          BY <1>3
        <5>2. QED
          BY <5>1
      <4>2. \A i \in 1..k + 1 : v[i - 1] # d /\ v[i] = next[v[i - 1]][d]
        <5>1. ASSUME NEW i \in 1..k + 1 PROVE v[i - 1] # d /\ v[i] = next[v[i - 1]][d]
          <6>1. i - 1 \in 0..k /\ v[i - 1] = w[i - 1]
            BY <4>1
          <6>2. CASE i = k + 1
            BY <1>1, <3>1, <4>1, <6>1, <6>2
          <6>3. CASE i # k + 1
            <7>1. i \in 1..k /\ i \in 0..k
              BY <6>3
            <7>2. QED
              BY <3>1, <4>1, <6>1, <7>1
          <6>4. QED
            BY <6>2, <6>3
        <5>2. QED
          BY <5>1
      <4>3. Along(v, k + 1)'
        <5>1. 0 \in 0..k /\ k + 1 \in Nat
          OBVIOUS
        <5>2. v[0] = pkt.src
          BY <3>1, <4>1, <5>1
        <5>3. QED
          BY <1>1, <1>5, <4>1, <4>2, <5>1, <5>2 DEF Along
      <4>4. pkt'.hops = {v[i] : i \in 0..(k + 1) - 1}
        BY <3>2, <4>1
      <4>5. Cardinality(pkt'.hops) = k + 1
        <5>1. IsFiniteSet(pkt.hops)
          BY <1>2, Numbers, FS_Subset
        <5>2. QED
          <6>1. pkt'.hops = pkt.hops \cup {r} /\ r \notin pkt.hops /\ Cardinality(pkt.hops) = k
            BY <1>5, <3>1
          <6>2. QED
            BY <5>1, <6>1, FS_AddElement
      <4>6. pkt'.in = <<v[k + 1], v[(k + 1) - 1]>> /\ k + 1 # 0
        BY <1>5, <2>1, <3>1, <4>1
      <4>7. Ins(pkt'.offered) = Seen(v, k)
        <5>1. Ins(pkt'.offered) = Ins(pkt.offered) \cup
                 (IF pkt.in[1] = r /\ Watched(pkt.in) /\ pkt.in[2] # EdgeAs THEN {pkt.in} ELSE {})
          <6>1. pkt.in \in Adapters
            BY <1>2 DEF PacketType
          <6>2. \A o, out : Ins(o \cup Offered(r, pkt.in, out)) =
                   Ins(o) \cup (IF pkt.in[1] = r /\ Watched(pkt.in) /\ pkt.in[2] # EdgeAs THEN {pkt.in} ELSE {})
            BY <6>1, InsAdd
          <6>3. pkt'.offered = pkt.offered \cup Offered(r, pkt.in, GetTheOppositeAdapter(to))
            BY <1>5
          <6>4. QED
            BY <6>2, <6>3, Zenon
        <5>2. Seen(v, k) = Seen(w, k)
          <6>1. \A i \in 1..k : v[i] = w[i] /\ v[i - 1] = w[i - 1]
            BY <4>1
          <6>2. QED
            BY <6>1 DEF Seen
        <5>3. CASE k = 0
          <6>1. Seen(w, k) = {} /\ Seen(w, k - 1) = {}
            BY <5>3 DEF Seen
          <6>2. pkt.in[2] = EdgeAs
            BY <3>1, <5>3
          <6>3. QED
            BY <3>1, <5>1, <5>2, <6>1, <6>2
        <5>4. CASE k # 0
          <6>1. Seen(w, k) = Seen(w, k - 1) \cup (IF Watched(<<w[k], w[k - 1]>>) THEN {<<w[k], w[k - 1]>>} ELSE {})
            BY <5>4, SeenLast
          <6>2. pkt.in = <<r, w[k - 1]>> /\ w[k - 1] # EdgeAs
            BY <3>1, <5>4, Numbers DEF Routers, EdgeAs
          <6>3. QED
            BY <3>1, <5>1, <5>2, <6>1, <6>2
        <5>5. QED
          BY <5>3, <5>4
      <4>8. OnTheWay(v, k + 1)'
        <5>1. (k + 1) - 1 = k
          OBVIOUS
        <5>2. QED
          BY <1>5, <3>4, <4>1, <4>3, <4>4, <4>5, <4>6, <4>7, <5>1 DEF OnTheWay
      <4>9. k + 1 \in Nat
        OBVIOUS
      <4>10. QED
        BY <4>1, <4>8, <4>9
    <3>5. QED
      BY <3>3, <3>4
  <2>4. QED
    BY <1>1, <1>8, <2>2, <2>3 DEF WayInv
<1>9. {pkt'.src, pkt'.dst, pkt'.cur} \subseteq Routers /\ pkt'.hops \subseteq Routers
  BY <1>2, <1>3, <1>5
<1>10. QED
  BY <1>1, <1>6, <1>7, <1>8, <1>9 DEF WayInv

(* A packet starts on its way.                                             *)
LEMMA SendKeeps ==
    ASSUME WayInv, NEW s \in Routers, NEW d \in Routers, SendPacket(s, d)
    PROVE  WayInv'
<1>1. /\ pc' = "forward" /\ pkt'.src = s /\ pkt'.dst = d /\ pkt'.cur = s
      /\ pkt'.in = <<s, EdgeAs>> /\ pkt'.offered = {} /\ pkt'.hops = {}
  BY DEF SendPacket
<1>2. pkt' \in PacketType
  <2>1. s \in Nat /\ d \in Nat /\ EdgeAs \in Nat
    BY Numbers DEF Routers, EdgeAs
  <2>2. <<s, EdgeAs>> \in Adapters
    BY <2>1 DEF Adapters
  <2>3. QED
    BY <2>1, <2>2 DEF SendPacket, PacketType
<1>3. PICK w \in [0..0 -> Routers] : w[0] = s
  <2>1. [i \in 0..0 |-> s] \in [0..0 -> Routers] /\ [i \in 0..0 |-> s][0] = s
    OBVIOUS
  <2>2. QED
    BY <2>1
<1>4. Along(w, 0)'
  BY <1>1, <1>3 DEF Along
<1>5. pkt'.hops = {w[i] : i \in 0..0 - 1} /\ Cardinality(pkt'.hops) = 0
  <2>1. 0..0 - 1 = {}
    OBVIOUS
  <2>2. QED
    BY <1>1, <2>1, FS_EmptySet
<1>6. Ins(pkt'.offered) = Seen(w, 0 - 1)
  <2>1. Ins({}) = {}
    BY DEF Ins
  <2>2. Seen(w, 0 - 1) = {}
    BY DEF Seen
  <2>3. QED
    BY <1>1, <2>1, <2>2
<1>7. OnTheWay(w, 0)'
  BY <1>1, <1>3, <1>4, <1>5, <1>6 DEF OnTheWay
<1>8. (\E k \in Nat : \E v \in [0..k -> Routers] : OnTheWay(v, k))'
  BY <1>3, <1>7
<1>9. QED
  BY <1>1, <1>2, <1>8 DEF WayInv

(* A packet that arrives was on its way, and for no more hops than there   *)
(* are routers.                                                            *)
LEMMA LastKeeps ==
    ASSUME WayInv, ForwardLast PROVE WayInv'
<1> DEFINE d == pkt.dst
<1>1. /\ pc = "forward" /\ pc' = "arrived" /\ pkt.cur = d /\ UNCHANGED <<link, next>>
      /\ pkt' = Router_ForwardPacketE(<<EdgeAs, d>>, d, <<d, EdgeAs>>)
  BY DEF ForwardLast
<1>2. pkt \in PacketType /\ {pkt.src, d} \subseteq Routers /\ pkt.hops \subseteq Routers
  BY <1>1 DEF WayInv
<1>3. /\ pkt'.src = pkt.src /\ pkt'.dst = d
      /\ pkt'.offered = pkt.offered \cup Offered(d, pkt.in, <<d, EdgeAs>>)
  BY <1>1, <1>2 DEF Router_ForwardPacketE, PacketType
<1>4. pkt.in \in Adapters
  BY <1>2 DEF PacketType
<1>5. pkt' \in PacketType
  <2>1. Routers \subseteq Nat /\ EdgeAs \in Nat
    BY Numbers DEF Routers, EdgeAs
  <2>2. d \in Nat /\ <<EdgeAs, d>> \in Adapters /\ <<d, EdgeAs>> \in Adapters
    BY <1>2, <2>1 DEF Adapters
  <2>3. Offered(d, pkt.in, <<d, EdgeAs>>) \subseteq {"in", "out"} \X Adapters
    BY <1>4, <2>2 DEF Offered
  <2>4. QED
    BY <1>1, <1>2, <2>2, <2>3 DEF Router_ForwardPacketE, PacketType
<1>6. NoDearLink' = NoDearLink
  BY <1>1 DEF NoDearLink, Direct, Distances
<1>7. ASSUME NoDearLink, pkt.src # d
      PROVE  (\E k \in 1..N : \E w \in [0..k -> Routers] :
                 /\ Along(w, k) /\ w[k] = pkt.dst
                 /\ Ins(pkt.offered) = Seen(w, k))'
  <2>1. ~Circling
    BY <1>1 DEF Circling
  <2>2. PICK k \in Nat : \E w \in [0..k -> Routers] : OnTheWay(w, k)
    BY <1>1, <1>7, <2>1 DEF WayInv
  <2>3. PICK w \in [0..k -> Routers] : OnTheWay(w, k)
    BY <2>2
  <2>4. /\ Along(w, k) /\ w[k] = d /\ w[0] = pkt.src /\ Cardinality(pkt.hops) = k
        /\ pkt.in = IF k = 0 THEN <<pkt.src, EdgeAs>> ELSE <<w[k], w[k - 1]>>
        /\ Ins(pkt.offered) = Seen(w, k - 1)
    BY <1>1, <2>3 DEF OnTheWay, Along
  <2>5. k \in 1..N
    <3>1. k # 0
      BY <1>7, <2>4
    <3>2. k <= N
      BY <1>2, <2>4, Numbers, FS_Subset
    <3>3. QED
      BY <3>1, <3>2, Numbers
  <2>6. Along(w, k)'
    BY <1>1, <1>3, <2>4 DEF Along
  <2>7. Ins(pkt'.offered) = Seen(w, k)
    <3>1. \A o, out : Ins(o \cup Offered(d, pkt.in, out)) =
             Ins(o) \cup (IF pkt.in[1] = d /\ Watched(pkt.in) /\ pkt.in[2] # EdgeAs THEN {pkt.in} ELSE {})
      BY <1>4, InsAdd
    <3>2. Ins(pkt'.offered) =
             Ins(pkt.offered) \cup (IF pkt.in[1] = d /\ Watched(pkt.in) /\ pkt.in[2] # EdgeAs THEN {pkt.in} ELSE {})
      BY <1>3, <3>1, Zenon
    <3>3. Seen(w, k) = Seen(w, k - 1) \cup (IF Watched(<<w[k], w[k - 1]>>) THEN {<<w[k], w[k - 1]>>} ELSE {})
      BY <2>5, SeenLast
    <3>4. pkt.in = <<d, w[k - 1]>> /\ w[k - 1] # EdgeAs
      BY <2>4, <2>5, Numbers DEF Routers, EdgeAs
    <3>5. QED
      BY <2>4, <3>2, <3>3, <3>4
  <2>8. QED
    BY <1>3, <2>3, <2>4, <2>5, <2>6, <2>7
<1>8. QED
  BY <1>1, <1>2, <1>3, <1>5, <1>6, <1>7 DEF WayInv

(* The tables of a router, the way of its packets: all steps.              *)
LEMMA WayStep == DijkstraInv /\ PrevInv /\ NextInv /\ WayInv /\ [RoutingNext]_routingVars => WayInv'
<1> SUFFICES ASSUME DijkstraInv, PrevInv, NextInv, WayInv, [RoutingNext]_routingVars PROVE WayInv'
  OBVIOUS
<1>1. CASE ExploreNodeGraph \/ Dijkstra \/ DrawDifferentPaths \/ PacketDone
  <2>1. pc' \in {"dijkstra", "ready"}
    BY <1>1 DEF ExploreNodeGraph, Dijkstra, DrawDifferentPaths, PacketDone
  <2>2. QED
    BY <2>1 DEF WayInv
<1>2. CASE \E s, d \in Routers : SendPacket(s, d)
  BY <1>2, SendKeeps
<1>3. CASE ForwardHop
  BY <1>3, HopKeeps
<1>4. CASE ForwardLast
  BY <1>4, LastKeeps
<1>5. CASE UNCHANGED routingVars
  <2>1. UNCHANGED <<link, pc, next, pkt>>
    BY <1>5 DEF routingVars
  <2>2. NoDearLink' = NoDearLink /\ Circling' = Circling
    BY <2>1 DEF NoDearLink, Direct, Distances, Circling
  <2>3. \A k : \A w : Along(w, k)' = Along(w, k) /\ OnTheWay(w, k)' = OnTheWay(w, k)
    BY <2>1 DEF Along, OnTheWay
  <2>4. QED
    BY <2>1, <2>2, <2>3 DEF WayInv
<1>6. QED
  BY <1>1, <1>2, <1>3, <1>4, <1>5 DEF RoutingNext

(* The path that flowd is answered, step by step.                          *)
LEMMA PathDefined ==
    ASSUME \A r \in Routers : IsPrev(prev[r]), NEW a \in Routers, NEW b \in Routers
    PROVE  \E at \in [0..N -> Routers] :
              /\ at[0] = a
              /\ \A i \in 1..N : at[i] = IF at[i - 1] = b THEN b
                                          ELSE GetNextRouterToward(at[i - 1], b)
              /\ InterfacePath(a, b) = {<<at[i], at[i - 1]>> : i \in {j \in 1..N : at[j - 1] # b}}
<1> DEFINE Onto(x) == IF x = b THEN b ELSE GetNextRouterToward(x, b)
           Step(f) == [k \in 0..N |-> IF k = 0 THEN a ELSE Onto(f[k - 1])]
           g == [q \in Nat \X Routers |-> Onto(q[2])]
           w == CHOOSE h : h = Step(h)
<1>1. InterfacePath(a, b) = {<<w[i], w[i - 1]>> : i \in {j \in 1..N : w[j - 1] # b}}
  BY DEF InterfacePath
<1>2. \A x \in Routers : Onto(x) \in Routers
  BY BackEnds DEF GetNextRouterToward
<1>3. g \in [Nat \X Routers -> Routers]
  BY <1>2
<1>4. \A k \in Nat, x \in Routers : g[<<k, x>>] = Onto(x)
  OBVIOUS
<1>5. N \in Nat
  BY Numbers
<1> HIDE DEF g, Onto
<1>6. PICK f : Recursive(f, N, Routers, a, g)
  BY <1>3, <1>5, RecursionExists
<1>7. f = Step(f)
  <2>1. ASSUME NEW k \in 0..N PROVE f[k] = Step(f)[k]
    <3>1. CASE k = 0
      BY <1>6, <3>1 DEF Recursive
    <3>2. CASE k # 0
      <4>1. k \in 1..N /\ k - 1 \in 0..N /\ k \in Nat
        BY <1>5, <3>2
      <4>2. f[k - 1] \in Routers /\ f[k] = g[<<k, f[k - 1]>>]
        BY <1>6, <4>1 DEF Recursive
      <4>3. QED
        BY <1>4, <3>2, <4>1, <4>2
    <3>3. QED
      BY <3>1, <3>2
  <2>2. QED
    BY <1>6, <2>1 DEF Recursive
<1>8. w = Step(w)
  BY <1>7
<1> HIDE DEF w
<1>9. w = [k \in 0..N |-> w[k]] /\ w[0] = a
  BY <1>5, <1>8
<1>10. ASSUME NEW k \in 1..N PROVE w[k] = Onto(w[k - 1])
  <2>1. k \in 0..N /\ k # 0
    BY <1>5
  <2>2. QED
    BY <1>8, <2>1
<1>11. Recursive(w, N, Routers, a, g)
  <2>1. \A k \in 1..N : w[k - 1] \in Routers => w[k] = g[<<k, w[k - 1]>>]
    BY <1>4, <1>5, <1>10
  <2>2. QED
    BY <1>3, <1>5, <1>9, <2>1, RecursionTyped
<1>12. w \in [0..N -> Routers]
  BY <1>11 DEF Recursive
<1>13. QED
  BY <1>1, <1>9, <1>10, <1>12 DEF Onto

(* A way that ends at its destination is that path.                        *)
LEMMA WayIsPath ==
    ASSUME PrevInv, NextInv, pc = "arrived", pkt.src \in Routers, pkt.dst \in Routers,
           NEW k \in 1..N, NEW w \in [0..k -> Routers], Along(w, k), w[k] = pkt.dst
    PROVE  {ad \in InterfacePath(pkt.src, pkt.dst) : Watched(ad)} = Seen(w, k)
<1> DEFINE a == pkt.src
           b == pkt.dst
<1>1. PICK at \in [0..N -> Routers] :
              /\ at[0] = a
              /\ \A i \in 1..N : at[i] = IF at[i - 1] = b THEN b
                                          ELSE GetNextRouterToward(at[i - 1], b)
              /\ InterfacePath(a, b) = {<<at[i], at[i - 1]>> : i \in {j \in 1..N : at[j - 1] # b}}
  BY PathDefined DEF PrevInv
<1>2. N \in Nat /\ k \in Nat /\ k <= N /\ k # 0
  BY Numbers
<1>3. ASSUME NEW r \in Routers, r # b PROVE next[r][b] = GetNextRouterToward(r, b)
  <2>1. turn = N + 1 /\ r < turn
    BY Numbers DEF NextInv, Routers
  <2>2. b \in Routers \ {r} /\ pc # "explore"
    BY <1>3
  <2>3. next[r] = [d \in Routers \ {r} |-> Back(prev[r], d)]
    BY <2>1, <2>2 DEF NextInv
  <2>4. next[r][b] = Back(prev[r], b)
    BY <2>2, <2>3
  <2>5. QED
    BY <1>3, <2>4 DEF GetNextRouterToward
<1>4. w[0] = a /\ \A i \in 1..k : w[i - 1] # b /\ w[i] = next[w[i - 1]][b]
  BY DEF Along
<1> DEFINE Here(i) == IF i <= k THEN at[i] = w[i] ELSE at[i] = b
           P == {i \in Nat : i \in 0..N => Here(i)}
<1> HIDE DEF a, b
<1>5. 0 \in P
  BY <1>1, <1>2, <1>4
<1>6. ASSUME NEW i \in P PROVE i + 1 \in P
  <2>1. SUFFICES ASSUME i + 1 \in 0..N PROVE Here(i + 1)
    OBVIOUS
  <2>2. i \in 0..N /\ i + 1 \in 1..N /\ (i + 1) - 1 = i /\ Here(i)
    BY <1>2, <2>1
  <2>3. at[i + 1] = IF at[i] = b THEN b ELSE GetNextRouterToward(at[i], b)
    BY <1>1, <2>2
  <2>4. CASE i < k
    <3>1. i + 1 \in 1..k /\ i \in 0..k
      BY <1>2, <2>2, <2>4
    <3>2. w[i] # b /\ w[i + 1] = next[w[i]][b] /\ w[i] \in Routers
      BY <1>4, <2>2, <3>1
    <3>3. at[i] = w[i]
      BY <1>2, <2>2, <2>4
    <3>4. QED
      BY <1>2, <1>3, <2>2, <2>3, <2>4, <3>2, <3>3
  <2>5. CASE ~(i < k)
    <3>1. at[i] = b
      BY <1>2, <2>2, <2>5 DEF b
    <3>2. QED
      BY <1>2, <2>2, <2>3, <2>5, <3>1
  <2>6. QED
    BY <2>4, <2>5
<1>7. P = Nat
  <2>1. P \subseteq Nat
    OBVIOUS
  <2> HIDE DEF P
  <2>2. QED
    BY <1>5, <1>6, <2>1, NatInduct
<1>8. \A i \in 0..N : Here(i)
  BY <1>7
<1>9. ASSUME NEW j \in 1..N
      PROVE  /\ at[j - 1] # b <=> j <= k
             /\ j <= k => at[j] = w[j] /\ at[j - 1] = w[j - 1]
  <2>1. j \in 0..N /\ j - 1 \in 0..N
    BY <1>2
  <2>2. Here(j) /\ Here(j - 1)
    BY <1>8, <2>1
  <2>3. CASE j <= k
    <3>1. j \in 1..k
      BY <2>3
    <3>2. QED
      BY <1>2, <1>4, <2>2, <2>3, <3>1
  <2>4. CASE ~(j <= k)
    BY <1>2, <2>2, <2>4 DEF b
  <2>5. QED
    BY <2>3, <2>4
<1>10. {j \in 1..N : at[j - 1] # b} = 1..k
  BY <1>2, <1>9
<1>11. InterfacePath(a, b) = {<<w[i], w[i - 1]>> : i \in 1..k}
  <2>1. InterfacePath(a, b) = {<<at[i], at[i - 1]>> : i \in 1..k}
    BY <1>1, <1>10
  <2>2. \A i \in 1..k : at[i] = w[i] /\ at[i - 1] = w[i - 1]
    BY <1>2, <1>9
  <2>3. QED
    BY <2>1, <2>2
<1>12. {ad \in {<<w[i], w[i - 1]>> : i \in 1..k} : Watched(ad)} = Seen(w, k)
  BY DEF Seen
<1>13. QED
  BY <1>11, <1>12 DEF a, b

(* In a network without a dear link, the interfaces at which a packet was  *)
(* offered as it came in are those, of the path NSP answers to flowd, that *)
(* are monitored, for any number of routers, any costs and any status of   *)
(* the interfaces.                                                         *)
THEOREM ReportsCorrect == RoutingSpec => []ReportsFollowPath
<1> DEFINE Inv == PrevInv /\ NextInv /\ WayInv
<1>1. RoutingInit => Inv
  <2> SUFFICES ASSUME RoutingInit PROVE Inv
    OBVIOUS
  <2>1. \A r \in Routers : prev[r] = <<>> /\ DOMAIN prev[r] = {}
    BY DEF RoutingInit
  <2>2. PrevInv
    BY <2>1 DEF PrevInv, IsPrev
  <2>3. pc = "explore"
    BY DEF RoutingInit
  <2>4. QED
    BY <2>2, <2>3 DEF NextInv, WayInv
<1>2. DijkstraInv /\ Inv /\ [RoutingNext]_routingVars => Inv'
  BY PrevStep, NextStep, WayStep
<1>3. Inv => ReportsFollowPath
  <2> SUFFICES ASSUME Inv, pc = "arrived", NoDearLink, pkt.src # pkt.dst
               PROVE  Ins(pkt.offered) = {ad \in InterfacePath(pkt.src, pkt.dst) : Watched(ad)}
    BY DEF ReportsFollowPath, Ins
  <2>1. /\ {pkt.src, pkt.dst} \subseteq Routers
        /\ \E k \in 1..N : \E w \in [0..k -> Routers] :
              /\ Along(w, k) /\ w[k] = pkt.dst
              /\ Ins(pkt.offered) = Seen(w, k)
    BY DEF WayInv
  <2>2. PICK k \in 1..N : \E w \in [0..k -> Routers] :
              /\ Along(w, k) /\ w[k] = pkt.dst
              /\ Ins(pkt.offered) = Seen(w, k)
    BY <2>1
  <2>3. PICK w \in [0..k -> Routers] :
              /\ Along(w, k) /\ w[k] = pkt.dst
              /\ Ins(pkt.offered) = Seen(w, k)
    BY <2>2
  <2>4. QED
    BY <2>1, <2>3, WayIsPath
<1>4. QED
  BY <1>1, <1>2, <1>3, DijkstraInvariance, PTL DEF RoutingSpec

=============================================================================
