-------------------------- MODULE SoftflowdProofs --------------------------
(***************************************************************************)
(* Proofs about softflowd and what becomes of its exports.                 *)
(*                                                                         *)
(* Module Softflowd: flow_expiry_sem stays binary, and the emulator thread *)
(* and main are never in the flow table together before the signal handler *)
(* has set the flag, for every max_flows and every number of flows.        *)
(*                                                                         *)
(* Module Export: the senders put every record into one datagram, flowd    *)
(* stores what its rules mean, and flowd-reader gets from the log nothing  *)
(* but what was written, for every batch of flows, list of rules, width of *)
(* an address and size of a datagram.                                      *)
(***************************************************************************)
EXTENDS Softflowd, Export, Induction, SequenceTheorems, TLAPS

-----------------------------------------------------------------------------
(* The threads of softflowd *)

(* The start of main establishes the inductive invariant.                  *)
LEMMA InitInd == Init => IndInv
<1> SUFFICES ASSUME Init PROVE IndInv
  OBVIOUS
<1>1. TypeOK
  BY DEF Init, TypeOK, MainPc, EmuPc
<1>2. SemaphoreOwned
  BY Zenon DEF Init, SemaphoreOwned, EmuHasTable, MainHasTable
<1>3. FlagSetBy
  BY Zenon DEF Init, FlagSetBy
<1>4. ListFreedBy
  BY Zenon DEF Init, ListFreedBy
<1>5. QED
  BY <1>1, <1>2, <1>3, <1>4 DEF IndInv

(* Each step of main keeps the invariant.                                  *)
LEMMA MainInd == IndInv /\ Main => IndInv'
<1> SUFFICES ASSUME IndInv, Main PROVE IndInv'
  OBVIOUS
<1> USE SoftflowdAssumption
    DEF IndInv, TypeOK, SemaphoreOwned, FlagSetBy, ListFreedBy, MainPc, EmuPc,
        EmuHasTable, MainHasTable,
        MainUnchanged, mainVars, ctlVars, sigVars, lockVars, tableVars, Runs
<1>1. CASE MainTake
  BY <1>1 DEF MainTake, TakeEndMsg
<1>2. CASE MainPolled
  BY <1>2 DEF MainPolled, MainGive, GiveEndMsg
<1>3. CASE MainDue
  BY <1>3 DEF MainDue
<1>4. CASE MainNotDue
  BY <1>4 DEF MainNotDue, MainGive, GiveEndMsg
<1>5. CASE MainEnter
  BY <1>5 DEF MainEnter, MainGive, GiveEndMsg
<1>6. CASE MainLocked
  BY <1>6 DEF MainLocked, MainWait
<1>7. CASE MainChecked
  BY <1>7 DEF MainChecked, MainExpire
<1>8. CASE MainOverFull
  BY <1>8 DEF MainOverFull
<1>9. CASE MainOver
  BY <1>9 DEF MainOver, MainGive, GiveEndMsg
<1>10. CASE MainLeave
  BY <1>10 DEF MainLeave, MainGive, GiveEndMsg
<1>11. CASE MainAbrupt
  BY <1>11 DEF MainAbrupt
<1>12. CASE MainGraceful
  BY <1>12 DEF MainGraceful, MainGive, GiveEndMsg
<1>13. CASE MainLastLock
  BY <1>13 DEF MainLastLock, MainWait
<1>14. CASE MainFlushed
  BY <1>14 DEF MainFlushed, MainExpire
<1>15. CASE MainLastPost
  BY <1>15 DEF MainLastPost, MainGive, GiveEndMsg
<1>16. CASE MainCleanup
  BY <1>16 DEF MainCleanup
<1>17. QED
  BY <1>1, <1>2, <1>3, <1>4, <1>5, <1>6, <1>7, <1>8, <1>9, <1>10, <1>11, <1>12, <1>13, <1>14, <1>15, <1>16 DEF Main

(* Each step of the emulator thread keeps the invariant.                   *)
LEMMA EmuInd == IndInv /\ (Emu \/ EmuReceive) => IndInv'
<1> SUFFICES ASSUME IndInv, Emu \/ EmuReceive PROVE IndInv'
  OBVIOUS
<1> USE SoftflowdAssumption
    DEF IndInv, TypeOK, SemaphoreOwned, FlagSetBy, ListFreedBy, MainPc, EmuPc,
        EmuHasTable, MainHasTable,
        EmuUnchanged, mainVars, ctlVars, sigVars, lockVars, tableVars, Runs
<1>1. CASE EmuTake
  BY <1>1 DEF EmuTake, TakeEndMsg
<1>2. CASE EmuChecked
  BY <1>2 DEF EmuChecked, GiveEndMsg
<1>3. CASE EmuLocked
  BY <1>3 DEF EmuLocked
<1>4. CASE EmuWork
  BY <1>4 DEF EmuWork
<1>5. CASE EmuPost
  BY <1>5 DEF EmuPost
<1>6. CASE EmuStop
  BY <1>6 DEF EmuStop, GiveEndMsg
<1>7. CASE EmuSend
  BY <1>7 DEF EmuSend
<1>8. CASE EmuReceive
  BY <1>8 DEF EmuReceive
<1>9. QED
  BY <1>1, <1>2, <1>3, <1>4, <1>5, <1>6, <1>7, <1>8 DEF Emu

(* The control server, the handler and stuttering keep it.                 *)
LEMMA OthersInd ==
    ASSUME IndInv,
           \/ CtlEnd
           \/ \E t \in {"main", "emu"} : Deliver(t)
           \/ Handler
           \/ UNCHANGED vars
    PROVE  IndInv'
<1> USE SoftflowdAssumption
    DEF IndInv, TypeOK, SemaphoreOwned, FlagSetBy, ListFreedBy, MainPc, EmuPc,
        EmuHasTable, MainHasTable,
        HandlerUnchanged, mainVars, ctlVars, sigVars, lockVars, tableVars
<1>1. CASE CtlEnd
  BY <1>1 DEF CtlEnd
<1>2. CASE \E t \in {"main", "emu"} : Deliver(t)
  BY <1>2 DEF Deliver
<1>3. CASE HandlerStop
  BY <1>3 DEF HandlerStop
<1>4. CASE HandlerFree
  BY <1>4 DEF HandlerFree
<1>5. CASE UNCHANGED vars
  BY <1>5 DEF vars
<1>6. QED
  BY <1>1, <1>2, <1>3, <1>4, <1>5 DEF Handler

(* Hence it holds in every state.                                          *)
LEMMA Inductive == Spec => []IndInv
<1>1. IndInv /\ [Next]_vars => IndInv'
  BY MainInd, EmuInd, OthersInd DEF Next
<1>2. QED
  BY InitInd, <1>1, PTL DEF Spec

(* The variables keep their types; above all flow_expiry_sem never exceeds *)
(* 1 although main decides anew, each time, whether to wait and to post.   *)
THEOREM TypeCorrect == Spec => []TypeOK
<1>1. IndInv => TypeOK
  BY DEF IndInv
<1>2. QED
  BY Inductive, <1>1, PTL

(* The emulator thread and main are never in the flow table together, and  *)
(* the list of sampling nodes is not freed under the emulator thread,      *)
(* until the signal handler has set the flag.                              *)
THEOREM TableSafe == Spec => []TableExclusive
<1>1. IndInv => TableExclusive
  BY DEF IndInv, TypeOK, SemaphoreOwned, FlagSetBy, ListFreedBy, TableExclusive,
         EmuHasTable, MainHasTable, MainInTable
<1>2. QED
  BY Inductive, <1>1, PTL

-----------------------------------------------------------------------------
(* Sequences of sequences *)

(* The partial results of FlattenSeq.                                      *)
LEMMA FlattenIs ==
    ASSUME NEW X, NEW ss \in Seq(Seq(X))
    PROVE  \E h \in [0..Len(ss) -> Seq(X)] :
              /\ h[0] = <<>> /\ \A i \in 1..Len(ss) : h[i] = h[i - 1] \o ss[i]
              /\ FlattenSeq(ss) = h[Len(ss)]
<1> DEFINE n == Len(ss)
           V == Seq(X)
           g == [q \in Nat \X V |-> q[2] \o (IF q[1] \in 1..n THEN ss[q[1]] ELSE <<>>)]
           Step(f) == [i \in 1..n |-> IF i = 1 THEN ss[i] ELSE f[i - 1] \o ss[i]]
           w == CHOOSE f : f = Step(f)
<1>1. n \in Nat /\ <<>> \in V /\ \A i \in 1..n : ss[i] \in V
  OBVIOUS
<1> HIDE DEF n
<1>2. g \in [Nat \X V -> V]
  BY <1>1
<1>3. ASSUME NEW i \in 1..n, NEW v \in V PROVE g[<<i, v>>] = v \o ss[i]
  <2>1. <<i, v>> \in Nat \X V
    BY <1>1
  <2>2. QED
    BY <2>1
<1> HIDE DEF g, V
<1>4. PICK h : Recursive(h, n, V, <<>>, g)
  BY <1>1, <1>2, RecursionExists
<1>5. /\ h \in [0..n -> V] /\ h[0] = <<>>
      /\ \A i \in 1..n : h[i] = h[i - 1] \o ss[i]
  <2>1. h \in [0..n -> V] /\ h[0] = <<>> /\ \A i \in 1..n : h[i] = g[<<i, h[i - 1]>>]
    BY <1>4 DEF Recursive
  <2>2. \A i \in 1..n : h[i - 1] \in V
    BY <1>1, <2>1
  <2>3. QED
    BY <1>3, <2>1, <2>2
<1>6. ASSUME n = 0 PROVE FlattenSeq(ss) = h[n]
  <2>1. ss = <<>> /\ FlattenSeq(ss) = ss
    BY <1>6 DEF FlattenSeq, n
  <2>2. h[n] = <<>>
    BY <1>5, <1>6
  <2>3. QED
    BY <2>1, <2>2
<1>7. ASSUME n # 0 PROVE FlattenSeq(ss) = h[n]
  <2>1. FlattenSeq(ss) = w[n]
    BY <1>7 DEF FlattenSeq, n
  <2> DEFINE f == [i \in 1..n |-> h[i]]
  <2>2. f = Step(f)
    <3>1. ASSUME NEW i \in 1..n PROVE h[i] = IF i = 1 THEN ss[i] ELSE f[i - 1] \o ss[i]
      <4>1. CASE i = 1
        <5>1. h[i] = h[i - 1] \o ss[i] /\ ss[i] \in V
          BY <1>1, <1>5
        <5>2. h[i - 1] = <<>>
          BY <1>5, <4>1
        <5>3. h[i - 1] \o ss[i] = ss[i]
          BY <5>1, <5>2, ConcatEmptySeq DEF V
        <5>4. QED
          BY <4>1, <5>1, <5>3
      <4>2. CASE i # 1
        <5>1. i - 1 \in 1..n
          BY <1>1, <4>2
        <5>2. f[i - 1] = h[i - 1]
          BY <5>1
        <5>3. h[i] = h[i - 1] \o ss[i]
          BY <1>5
        <5>4. QED
          BY <4>2, <5>2, <5>3
      <4>3. QED
        BY <4>1, <4>2
    <3>2. QED
      BY <3>1
  <2> HIDE DEF f
  <2>3. w = Step(w)
    BY <2>2
  <2> HIDE DEF w
  <2> DEFINE P == {i \in Nat : i \in 1..n => w[i] = h[i]}
  <2>4. 0 \in P
    OBVIOUS
  <2>5. ASSUME NEW i \in P PROVE i + 1 \in P
    <3>1. SUFFICES ASSUME i + 1 \in 1..n PROVE w[i + 1] = h[i + 1]
      OBVIOUS
    <3>2. w[i + 1] = IF i + 1 = 1 THEN ss[i + 1] ELSE w[i] \o ss[i + 1]
      <4>1. (i + 1) - 1 = i
        OBVIOUS
      <4>2. QED
        BY <2>3, <3>1, <4>1
    <3>3. h[i + 1] = h[i] \o ss[i + 1]
      <4>1. (i + 1) - 1 = i
        OBVIOUS
      <4>2. QED
        BY <1>5, <3>1, <4>1
    <3>4. CASE i = 0
      <4>1. ss[i + 1] \in V /\ w[i + 1] = ss[i + 1] /\ h[i] = <<>>
        BY <1>1, <1>5, <3>1, <3>2, <3>4
      <4>2. h[i] \o ss[i + 1] = ss[i + 1]
        BY <4>1, ConcatEmptySeq DEF V
      <4>3. QED
        BY <3>3, <4>1, <4>2
    <3>5. CASE i # 0
      <4>1. i \in 1..n /\ i + 1 # 1
        BY <1>1, <3>1, <3>5
      <4>2. w[i] = h[i]
        BY <4>1
      <4>3. QED
        BY <3>2, <3>3, <4>1, <4>2
    <3>6. QED
      BY <3>4, <3>5
  <2>6. P = Nat
    <3>1. P \subseteq Nat
      OBVIOUS
    <3> HIDE DEF P
    <3>2. QED
      BY <2>4, <2>5, <3>1, NatInduct
  <2>7. w[n] = h[n]
    BY <1>1, <1>7, <2>6
  <2>8. QED
    BY <2>1, <2>7
<1>8. FlattenSeq(ss) = h[n]
  BY <1>6, <1>7
<1>9. \E k \in [0..n -> V] :
              /\ k[0] = <<>> /\ \A i \in 1..n : k[i] = k[i - 1] \o ss[i]
              /\ FlattenSeq(ss) = k[n]
  BY <1>5, <1>8, Zenon
<1>10. QED
  BY <1>9, Zenon DEF n, V

(* Flattening two sequences of sequences, one after the other.             *)
LEMMA FlattenConcat ==
    ASSUME NEW X, NEW ss \in Seq(Seq(X)), NEW tt \in Seq(Seq(X))
    PROVE  FlattenSeq(ss \o tt) = FlattenSeq(ss) \o FlattenSeq(tt)
<1> DEFINE n == Len(ss)
           m == Len(tt)
           cc == ss \o tt
<1>1. PICK h \in [0..n -> Seq(X)] :
              /\ h[0] = <<>> /\ \A i \in 1..n : h[i] = h[i - 1] \o ss[i]
              /\ FlattenSeq(ss) = h[n]
  BY FlattenIs
<1>2. PICK g \in [0..m -> Seq(X)] :
              /\ g[0] = <<>> /\ \A i \in 1..m : g[i] = g[i - 1] \o tt[i]
              /\ FlattenSeq(tt) = g[m]
  BY FlattenIs
<1>3. cc \in Seq(Seq(X)) /\ Len(cc) = n + m
  OBVIOUS
<1> HIDE DEF n, m, cc
<1>4. PICK k \in [0..n + m -> Seq(X)] :
              /\ k[0] = <<>> /\ \A i \in 1..n + m : k[i] = k[i - 1] \o cc[i]
              /\ FlattenSeq(cc) = k[n + m]
  <2>1. \E k \in [0..Len(cc) -> Seq(X)] :
              /\ k[0] = <<>> /\ \A i \in 1..Len(cc) : k[i] = k[i - 1] \o cc[i]
              /\ FlattenSeq(cc) = k[Len(cc)]
    BY <1>3, FlattenIs
  <2>2. QED
    BY <1>3, <2>1, Zenon
<1>5. n \in Nat /\ m \in Nat
  BY DEF n, m
<1>6. \A i \in 1..n : cc[i] = ss[i]
  BY DEF n, cc
<1>7. \A i \in 1..m : cc[n + i] = tt[i] /\ tt[i] \in Seq(X)
  BY DEF n, m, cc
<1> DEFINE P == {i \in Nat : i \in 0..n => k[i] = h[i]}
           Further(i) == k[n + i] = h[n] \o g[i]
           Q == {i \in Nat : i \in 0..m => Further(i)}
<1> HIDE DEF Further
<1>8. 0 \in P
  BY <1>1, <1>4
<1>9. ASSUME NEW i \in P PROVE i + 1 \in P
  <2>1. SUFFICES ASSUME i + 1 \in 0..n PROVE k[i + 1] = h[i + 1]
    OBVIOUS
  <2>2. i + 1 \in 1..n /\ i + 1 \in 1..n + m /\ i \in 0..n /\ (i + 1) - 1 = i
    BY <1>5, <2>1
  <2>3. k[i + 1] = k[i] \o cc[i + 1] /\ h[i + 1] = h[i] \o ss[i + 1]
    BY <1>1, <1>4, <2>2
  <2>4. QED
    BY <1>6, <2>2, <2>3
<1>10. P = Nat
  <2>1. P \subseteq Nat
    OBVIOUS
  <2> HIDE DEF P
  <2>2. QED
    BY <1>8, <1>9, <2>1, NatInduct
<1>11. k[n] = h[n] /\ h[n] \in Seq(X)
  <2>1. n \in P /\ n \in 0..n
    <3> HIDE DEF P
    <3>1. QED
      BY <1>5, <1>10
  <2>2. k[n] = h[n]
    BY <2>1
  <2>3. QED
    BY <1>1, <2>1, <2>2
<1>12. 0 \in Q
  <2>1. h[n] \o <<>> = h[n] /\ n + 0 = n /\ 0 \in Nat
    BY <1>5, <1>11, ConcatEmptySeq
  <2>2. k[n + 0] = h[n] \o g[0]
    BY <1>2, <1>11, <2>1
  <2>3. QED
    BY <2>1, <2>2 DEF Further
<1>13. ASSUME NEW i \in Q PROVE i + 1 \in Q
  <2>1. SUFFICES ASSUME i + 1 \in 0..m PROVE Further(i + 1)
    OBVIOUS
  <2>2. /\ i + 1 \in 1..m /\ n + (i + 1) \in 1..n + m /\ i \in 0..m
        /\ (i + 1) - 1 = i /\ (n + (i + 1)) - 1 = n + i
    BY <1>5, <2>1
  <2>3. /\ k[n + (i + 1)] = k[n + i] \o cc[n + (i + 1)]
        /\ g[i + 1] = g[i] \o tt[i + 1] /\ g[i] \in Seq(X)
    BY <1>2, <1>4, <2>2
  <2>4. k[n + (i + 1)] = (h[n] \o g[i]) \o tt[i + 1]
    <3>1. k[n + i] = h[n] \o g[i]
      BY <2>2 DEF Further
    <3>2. cc[n + (i + 1)] = tt[i + 1]
      BY <1>7, <2>2
    <3>3. QED
      BY <2>3, <3>1, <3>2
  <2>5. (h[n] \o g[i]) \o tt[i + 1] = h[n] \o (g[i] \o tt[i + 1])
    <3>1. h[n] \in Seq(X) /\ g[i] \in Seq(X) /\ tt[i + 1] \in Seq(X)
      BY <1>7, <1>11, <2>2, <2>3
    <3>2. \A u, v, x \in Seq(X) : (u \o v) \o x = u \o (v \o x)
      BY ConcatAssociative, SMTT(30)
    <3>3. QED
      BY <3>1, <3>2, Zenon
  <2>6. QED
    BY <2>3, <2>4, <2>5 DEF Further
<1>14. Q = Nat
  <2>1. Q \subseteq Nat
    OBVIOUS
  <2>2. \A i \in Q : i + 1 \in Q
    BY <1>13
  <2> HIDE DEF Q
  <2>3. QED
    BY <1>12, <2>1, <2>2, NatInduct
<1>15. k[n + m] = h[n] \o g[m]
  <2>1. m \in Q /\ m \in 0..m
    <3> HIDE DEF Q
    <3>1. QED
      BY <1>5, <1>14
  <2>2. QED
    BY <2>1 DEF Further
<1>16. QED
  BY <1>1, <1>2, <1>4, <1>15 DEF cc

(* Flattening nothing, one sequence, and what comes out.                   *)
LEMMA FlattenFew ==
    ASSUME NEW X
    PROVE  /\ FlattenSeq(<<>>) = <<>>
           /\ \A s \in Seq(X) : FlattenSeq(<<s>>) = s
           /\ \A ss \in Seq(Seq(X)) : FlattenSeq(ss) \in Seq(X)
<1>1. FlattenSeq(<<>>) = <<>>
  BY DEF FlattenSeq
<1>2. ASSUME NEW s \in Seq(X) PROVE FlattenSeq(<<s>>) = s
  <2>1. <<s>> \in Seq(Seq(X)) /\ Len(<<s>>) = 1 /\ <<s>>[1] = s
    OBVIOUS
  <2>2. PICK h \in [0..1 -> Seq(X)] :
              /\ h[0] = <<>> /\ \A i \in 1..1 : h[i] = h[i - 1] \o <<s>>[i]
              /\ FlattenSeq(<<s>>) = h[1]
    BY <2>1, FlattenIs
  <2>3. h[1] = <<>> \o s
    BY <2>1, <2>2
  <2>4. QED
    BY <2>2, <2>3
<1>3. ASSUME NEW ss \in Seq(Seq(X)) PROVE FlattenSeq(ss) \in Seq(X)
  <2>1. PICK h \in [0..Len(ss) -> Seq(X)] : FlattenSeq(ss) = h[Len(ss)]
    BY FlattenIs
  <2>2. Len(ss) \in 0..Len(ss)
    OBVIOUS
  <2>3. QED
    BY <2>1, <2>2
<1>4. QED
  BY <1>1, <1>2, <1>3

-----------------------------------------------------------------------------
(* The store *)

(* The flows that flowd stores, as the filter found them or with a tag.    *)
PlainFlow == [agent : Nat, src : Nat, dst : Nat]
TaggedFlow == [tag : Nat, agent : Nat, src : Nat, dst : Nat]
StoredFlow == PlainFlow \cup TaggedFlow

(* The words of the log.  A checksum is over a header and values.          *)
RecordHeader == [len : Nat, fields : Seq({"tag", "agent", "src", "dst"})]
HeaderWord == [hdr : RecordHeader]
ValueWord == [value : Nat]
Body == {b \in Seq(HeaderWord \cup ValueWord) : \A j \in 2..Len(b) : b[j] \in ValueWord}
Checksum == [crc32 : Body]
Word == HeaderWord \cup ValueWord \cup Checksum

HeaderOf(flow) == [len |-> Len(Fields(flow)) + IF crc THEN 1 ELSE 0, fields |-> Fields(flow)]
BodyOf(flow) ==
    <<[hdr |-> HeaderOf(flow)]>> \o
        [i \in 1 .. Len(Fields(flow)) |-> [value |-> flow[Fields(flow)[i]]]]

(* Which fields a flow has.                                                *)
LEMMA FieldsOf ==
    ASSUME NEW flow \in StoredFlow
    PROVE  LET fs == Fields(flow) IN
           /\ fs \in Seq({"tag", "agent", "src", "dst"})
           /\ flow \in PlainFlow =>
                 Len(fs) = 3 /\ fs[1] = "agent" /\ fs[2] = "src" /\ fs[3] = "dst"
           /\ flow \in TaggedFlow =>
                 Len(fs) = 4 /\ fs[1] = "tag" /\ fs[2] = "agent" /\ fs[3] = "src" /\ fs[4] = "dst"
<1> DEFINE S == {"tag", "agent", "src", "dst"}
           a == <<"agent">>
           s == <<"src">>
           d == <<"dst">>
           All(t) == ((t \o a) \o s) \o d
<1>1. a \in Seq(S) /\ s \in Seq(S) /\ d \in Seq(S)
  OBVIOUS
<1>2. /\ Has(flow, "agent") = a /\ Has(flow, "src") = s /\ Has(flow, "dst") = d
      /\ flow \in PlainFlow => Has(flow, "tag") = <<>>
      /\ flow \in TaggedFlow => Has(flow, "tag") = <<"tag">>
  BY DEF Has, StoredFlow, PlainFlow, TaggedFlow
<1>3. ASSUME NEW t \in Seq(S), NEW n \in {0, 1}, Len(t) = n
      PROVE  /\ All(t) \in Seq(S) /\ Len(All(t)) = n + 3 /\ (n = 1 => All(t)[1] = t[1])
             /\ All(t)[n + 1] = "agent" /\ All(t)[n + 2] = "src" /\ All(t)[n + 3] = "dst"
  <2> DEFINE ta == t \o a
             tas == ta \o s
             fs == tas \o d
  <2>1. /\ ta \in Seq(S) /\ Len(ta) = n + 1 /\ ta[n + 1] = "agent" /\ (n = 1 => ta[1] = t[1])
    BY <1>3
  <2> HIDE DEF ta
  <2>2. /\ tas \in Seq(S) /\ Len(tas) = n + 2 /\ tas[n + 1] = "agent" /\ (n = 1 => tas[1] = t[1])
        /\ tas[n + 2] = "src"
    BY <2>1
  <2> HIDE DEF tas
  <2>3. /\ fs \in Seq(S) /\ Len(fs) = n + 3 /\ fs[n + 1] = "agent" /\ (n = 1 => fs[1] = t[1])
        /\ fs[n + 2] = "src" /\ fs[n + 3] = "dst"
    BY <2>2
  <2>4. QED
    BY <2>3 DEF ta, tas
<1>4. Fields(flow) = All(Has(flow, "tag"))
  BY <1>2, Zenon DEF Fields
<1> HIDE DEF a, s, d, All, S
<1>5. CASE flow \in PlainFlow
  <2>1. Has(flow, "tag") \in Seq(S) /\ Len(Has(flow, "tag")) = 0
    <3>1. Has(flow, "tag") = <<>>
      BY <1>2, <1>5, Zenon
    <3>2. <<>> \in Seq(S) /\ Len(<<>>) = 0
      OBVIOUS
    <3>3. QED
      BY <3>1, <3>2, Zenon
  <2>2. flow \notin TaggedFlow
    <3>1. DOMAIN flow = {"agent", "src", "dst"}
      BY <1>5 DEF PlainFlow
    <3>2. flow \in TaggedFlow => DOMAIN flow = {"tag", "agent", "src", "dst"}
      BY DEF TaggedFlow
    <3>3. "tag" \notin {"agent", "src", "dst"}
      OBVIOUS
    <3>4. QED
      BY <3>1, <3>2, <3>3, Zenon
  <2>3. /\ Fields(flow) \in Seq(S) /\ Len(Fields(flow)) = 0 + 3
        /\ Fields(flow)[0 + 1] = "agent" /\ Fields(flow)[0 + 2] = "src" /\ Fields(flow)[0 + 3] = "dst"
    BY <1>3, <1>4, <2>1
  <2>4. QED
    BY <2>2, <2>3 DEF S
<1>6. CASE flow \in TaggedFlow
  <2>1. Has(flow, "tag") \in Seq(S) /\ Len(Has(flow, "tag")) = 1 /\ Has(flow, "tag")[1] = "tag"
    <3>1. Has(flow, "tag") = <<"tag">>
      BY <1>2, <1>6, Zenon
    <3>2. <<"tag">> \in Seq(S) /\ Len(<<"tag">>) = 1 /\ <<"tag">>[1] = "tag"
      BY DEF S
    <3>3. QED
      BY <3>1, <3>2, Zenon
  <2>2. flow \notin PlainFlow
    <3>1. DOMAIN flow = {"tag", "agent", "src", "dst"}
      BY <1>6 DEF TaggedFlow
    <3>2. flow \in PlainFlow => DOMAIN flow = {"agent", "src", "dst"}
      BY DEF PlainFlow
    <3>3. "tag" \notin {"agent", "src", "dst"}
      OBVIOUS
    <3>4. QED
      BY <3>1, <3>2, <3>3, Zenon
  <2>3. /\ Fields(flow) \in Seq(S) /\ Len(Fields(flow)) = 1 + 3
        /\ (1 = 1 => Fields(flow)[1] = Has(flow, "tag")[1])
        /\ Fields(flow)[1 + 1] = "agent" /\ Fields(flow)[1 + 2] = "src" /\ Fields(flow)[1 + 3] = "dst"
    BY <1>3, <1>4, <2>1
  <2>4. QED
    BY <2>1, <2>2, <2>3 DEF S
<1>7. QED
  BY <1>5, <1>6 DEF StoredFlow

(* What the fields of a flow are good for.                                 *)
LEMMA FieldsGood ==
    ASSUME NEW flow \in StoredFlow
    PROVE  /\ Fields(flow) \in Seq({"tag", "agent", "src", "dst"})
           /\ Len(Fields(flow)) \in {3, 4}
           /\ ToSet(Fields(flow)) = DOMAIN flow
           /\ \A i, j \in 1..Len(Fields(flow)) : Fields(flow)[i] = Fields(flow)[j] => i = j
           /\ \A i \in 1..Len(Fields(flow)) : flow[Fields(flow)[i]] \in Nat
<1>1. CASE flow \in PlainFlow
  <2>1. /\ Fields(flow) \in Seq({"tag", "agent", "src", "dst"})
        /\ Len(Fields(flow)) = 3 /\ Fields(flow)[1] = "agent" /\ Fields(flow)[2] = "src"
        /\ Fields(flow)[3] = "dst"
    BY <1>1, FieldsOf
  <2>2. flow.agent \in Nat /\ flow.src \in Nat /\ flow.dst \in Nat
    BY <1>1 DEF PlainFlow
  <2>3. DOMAIN Fields(flow) = 1..3 /\ DOMAIN flow = {"agent", "src", "dst"}
    BY <1>1, <2>1 DEF PlainFlow
  <2>4. ToSet(Fields(flow)) = DOMAIN flow
    BY <2>1, <2>3 DEF ToSet
  <2>5. QED
    BY <2>1, <2>2, <2>3, <2>4
<1>2. CASE flow \in TaggedFlow
  <2>1. /\ Fields(flow) \in Seq({"tag", "agent", "src", "dst"})
        /\ Len(Fields(flow)) = 4 /\ Fields(flow)[1] = "tag" /\ Fields(flow)[2] = "agent"
        /\ Fields(flow)[3] = "src" /\ Fields(flow)[4] = "dst"
    BY <1>2, FieldsOf
  <2>2. flow.tag \in Nat /\ flow.agent \in Nat /\ flow.src \in Nat /\ flow.dst \in Nat
    BY <1>2 DEF TaggedFlow
  <2>3. DOMAIN Fields(flow) = 1..4 /\ DOMAIN flow = {"tag", "agent", "src", "dst"}
    BY <1>2, <2>1 DEF TaggedFlow
  <2>4. ToSet(Fields(flow)) = DOMAIN flow
    BY <2>1, <2>3 DEF ToSet
  <2>5. QED
    BY <2>1, <2>2, <2>3, <2>4
<1>3. QED
  BY <1>1, <1>2 DEF StoredFlow

(* The words of a record.                                                  *)
LEMMA RecordWords ==
    ASSUME NEW flow \in StoredFlow, crc \in BOOLEAN
    PROVE  LET s == store_flow_serialise(flow)
               n == Len(Fields(flow))
           IN  /\ n \in Nat /\ n >= 3
               /\ s \in Seq(Word) /\ Len(s) = HeaderOf(flow).len + 1
               /\ HeaderOf(flow) \in RecordHeader /\ HeaderOf(flow).fields = Fields(flow)
               /\ HeaderOf(flow).len = n + IF crc THEN 1 ELSE 0
               /\ s[1] = [hdr |-> HeaderOf(flow)]
               /\ \A i \in 1..n : s[i + 1] = [value |-> flow[Fields(flow)[i]]]
               /\ crc => s[n + 2] = [crc32 |-> BodyOf(flow)]
               /\ BodyOf(flow) = SubSeq(s, 1, n + 1)
<1> DEFINE fs == Fields(flow)
           n == Len(fs)
           H == HeaderOf(flow)
           data == [i \in 1 .. n |-> [value |-> flow[fs[i]]]]
           b == BodyOf(flow)
           s == store_flow_serialise(flow)
<1>1. /\ fs \in Seq({"tag", "agent", "src", "dst"}) /\ n \in Nat /\ n >= 3
      /\ \A i \in 1..n : flow[fs[i]] \in Nat
  <2>1. /\ fs \in Seq({"tag", "agent", "src", "dst"}) /\ n \in {3, 4}
        /\ \A i \in 1..n : flow[fs[i]] \in Nat
    BY FieldsGood, Zenon
  <2>2. QED
    BY <2>1
<1>2. H \in RecordHeader /\ H.fields = fs /\ H.len = n + IF crc THEN 1 ELSE 0
  BY <1>1 DEF HeaderOf, RecordHeader
<1>3. s = IF crc THEN Append(b, [crc32 |-> b]) ELSE b
  BY DEF store_flow_serialise, BodyOf, HeaderOf
<1>4. b = <<[hdr |-> H]>> \o data
  BY DEF BodyOf
<1> HIDE DEF fs, n, H, b, s
<1>5. [hdr |-> H] \in HeaderWord
  BY <1>2 DEF HeaderWord
<1>6. data \in Seq(ValueWord) /\ Len(data) = n /\ \A i \in 1..n : data[i] = [value |-> flow[fs[i]]]
  <2>1. \A i \in 1..n : [value |-> flow[fs[i]]] \in ValueWord
    BY <1>1 DEF ValueWord
  <2>2. data \in [1..n -> ValueWord] /\ \A i \in 1..n : data[i] = [value |-> flow[fs[i]]]
    BY <2>1
  <2> HIDE DEF data
  <2>3. data \in Seq(ValueWord) /\ Len(data) = n
    BY <1>1, <2>2
  <2>4. QED
    BY <2>2, <2>3
<1> HIDE DEF data
<1>7. /\ b \in Seq(HeaderWord \cup ValueWord) /\ Len(b) = n + 1 /\ b[1] = [hdr |-> H]
      /\ \A i \in 1..n : b[i + 1] = data[i]
  <2>1. <<[hdr |-> H]>> \in Seq(HeaderWord \cup ValueWord) /\ data \in Seq(HeaderWord \cup ValueWord)
    BY <1>5, <1>6
  <2>2. QED
    BY <1>1, <1>4, <1>6, <2>1
<1>8. b \in Body
  <2>1. ASSUME NEW j \in 2..Len(b) PROVE b[j] \in ValueWord
    <3>1. j - 1 \in 1..n /\ (j - 1) + 1 = j
      BY <1>1, <1>7
    <3>2. b[j] = data[j - 1]
      BY <1>7, <3>1
    <3>3. QED
      BY <1>6, <3>1, <3>2
  <2>2. QED
    BY <1>7, <2>1 DEF Body
<1>9. [crc32 |-> b] \in Checksum
  BY <1>8 DEF Checksum
<1>10. b \in Seq(Word)
  BY <1>7 DEF Word
<1>11. /\ s \in Seq(Word) /\ Len(s) = H.len + 1
       /\ \A i \in 1..n + 1 : s[i] = b[i]
       /\ crc => s[n + 2] = [crc32 |-> b]
  <2>1. CASE crc
    <3>1. s = Append(b, [crc32 |-> b]) /\ H.len = n + 1
      BY <1>2, <1>3, <2>1
    <3>2. [crc32 |-> b] \in Word
      BY <1>9 DEF Word
    <3>3. /\ s \in Seq(Word) /\ Len(s) = Len(b) + 1
          /\ \A i \in 1..Len(b) : s[i] = b[i]
          /\ s[Len(b) + 1] = [crc32 |-> b]
      BY <1>10, <3>1, <3>2, AppendProperties
    <3>4. QED
      BY <1>1, <1>7, <3>1, <3>3
  <2>2. CASE ~crc
    BY <1>1, <1>2, <1>3, <1>7, <1>10, <2>2
  <2>3. QED
    BY <2>1, <2>2
<1>12. b = SubSeq(s, 1, n + 1)
  <2>1. \A i \in 1..n + 1 : s[i] \in Word
    BY <1>1, <1>2, <1>11
  <2>2. /\ SubSeq(s, 1, n + 1) \in Seq(Word) /\ Len(SubSeq(s, 1, n + 1)) = n + 1
        /\ \A i \in 1..n + 1 : SubSeq(s, 1, n + 1)[i] = s[i]
    BY <1>1, <2>1
  <2>3. QED
    BY <1>7, <1>10, <1>11, <2>2, SeqEqual
<1>13. /\ s[1] = [hdr |-> H]
       /\ \A i \in 1..n : s[i + 1] = [value |-> flow[fs[i]]]
  <2>1. 1 \in 1..n + 1 /\ \A i \in 1..n : i + 1 \in 1..n + 1
    BY <1>1
  <2>2. s[1] = b[1] /\ \A i \in 1..n : s[i + 1] = b[i + 1]
    BY <1>11, <2>1
  <2>3. QED
    BY <1>1, <1>6, <1>7, <2>1, <2>2
<1>14. QED
  BY <1>1, <1>2, <1>11, <1>12, <1>13 DEF fs, n, H, b, s

-----------------------------------------------------------------------------
(* The reader *)

(* A state of flowd-reader, and the one at the end of the words.           *)
ReaderState(o, h, w, b) == [out |-> o, hdr |-> h, words |-> w, stop |-> b]
ReaderStart == ReaderState(<<>>, <<>>, <<>>, FALSE)
ReadEnd(words) == Reading(words)[Len(words)]

(* The states of the reader exist, one per word.                           *)
LEMMA ReadingIs ==
    ASSUME NEW W, NEW words \in Seq(W)
    PROVE  /\ Reading(words)[0] = ReaderStart
           /\ \A i \in 1..Len(words) : Reading(words)[i] = Take(Reading(words)[i - 1], words[i])
<1> DEFINE n == Len(words)
           Step(f) == [i \in 0..n |-> IF i = 0 THEN ReaderStart ELSE Take(f[i - 1], words[i])]
           w == CHOOSE f : f = Step(f)
           Fits(f, k) == f[0] = ReaderStart /\ \A i \in 1..k : f[i] = Take(f[i - 1], words[i])
           P == {k \in Nat : \E f : Fits(f, k)}
<1>1. Reading(words) = w
  BY DEF Reading, ReaderStart, ReaderState
<1>2. n \in Nat
  OBVIOUS
<1> HIDE DEF n
<1>3. 0 \in P
  <2>1. Fits([i \in {0} |-> ReaderStart], 0)
    OBVIOUS
  <2>2. QED
    BY <2>1
<1>4. ASSUME NEW k \in P PROVE k + 1 \in P
  <2>1. k \in Nat /\ \E f : Fits(f, k)
    OBVIOUS
  <2>2. PICK f : Fits(f, k)
    BY <2>1
  <2> DEFINE g == [i \in 0..k + 1 |-> IF i = k + 1 THEN Take(f[k], words[k + 1]) ELSE f[i]]
  <2>3. g[0] = ReaderStart
    BY <2>1, <2>2
  <2>4. ASSUME NEW i \in 1..k + 1 PROVE g[i] = Take(g[i - 1], words[i])
    <3>1. i - 1 \in 0..k /\ i - 1 # k + 1
      BY <2>1
    <3>2. g[i - 1] = f[i - 1]
      BY <2>1, <3>1
    <3>3. CASE i = k + 1
      <4>1. g[i] = Take(f[k], words[k + 1]) /\ i - 1 = k
        BY <2>1, <3>3
      <4>2. QED
        BY <3>2, <3>3, <4>1
    <3>4. CASE i # k + 1
      <4>1. i \in 1..k
        BY <2>1, <3>4
      <4>2. g[i] = f[i] /\ f[i] = Take(f[i - 1], words[i])
        BY <2>1, <2>2, <3>4, <4>1
      <4>3. QED
        BY <3>2, <4>2
    <3>5. QED
      BY <3>3, <3>4
  <2>5. Fits(g, k + 1)
    BY <2>3, <2>4
  <2>6. \E e : Fits(e, k + 1)
    <3> HIDE DEF g, Fits
    <3>1. QED
      BY <2>5
  <2>7. QED
    <3>1. k + 1 \in Nat
      BY <2>1
    <3> HIDE DEF Fits
    <3>2. QED
      BY <2>6, <3>1
<1>5. P = Nat
  <2>1. P \subseteq Nat /\ \A k \in P : k + 1 \in P
    BY <1>4
  <2> HIDE DEF P
  <2>2. QED
    BY <1>3, <2>1, NatInduct
<1>6. PICK f : Fits(f, n)
  <2>1. n \in P
    <3> HIDE DEF P
    <3>1. QED
      BY <1>2, <1>5
  <2>2. QED
    BY <2>1
<1>7. \E g : g = Step(g)
  <2> DEFINE g == [i \in 0..n |-> f[i]]
  <2>1. ASSUME NEW i \in 0..n PROVE f[i] = IF i = 0 THEN ReaderStart ELSE Take(g[i - 1], words[i])
    <3>1. CASE i = 0
      BY <1>6, <3>1
    <3>2. CASE i # 0
      <4>1. i \in 1..n /\ i - 1 \in 0..n
        BY <1>2, <3>2
      <4>2. g[i - 1] = f[i - 1] /\ f[i] = Take(f[i - 1], words[i])
        BY <1>6, <4>1
      <4>3. QED
        BY <3>2, <4>2
    <3>3. QED
      BY <3>1, <3>2
  <2>2. \A i \in 0..n : g[i] = f[i]
    OBVIOUS
  <2>3. g = [i \in 0..n |-> g[i]]
    OBVIOUS
  <2> HIDE DEF g
  <2>4. \A i \in 0..n : g[i] = IF i = 0 THEN ReaderStart ELSE Take(g[i - 1], words[i])
    BY <2>1, <2>2, Zenon
  <2> DEFINE e(i) == IF i = 0 THEN ReaderStart ELSE Take(g[i - 1], words[i])
  <2>5. \A i \in 0..n : g[i] = e(i)
    BY <2>4
  <2>6. Step(g) = [i \in 0..n |-> e(i)]
    OBVIOUS
  <2> HIDE DEF e, Step
  <2>7. [i \in 0..n |-> g[i]] = [i \in 0..n |-> e(i)]
    BY <2>5
  <2>8. g = Step(g)
    BY <2>3, <2>6, <2>7, Zenon
  <2>9. QED
    BY <2>8
<1>8. w = Step(w)
  BY <1>7
<1> HIDE DEF w
<1>9. w[0] = ReaderStart
  BY <1>2, <1>8
<1>10. ASSUME NEW i \in 1..n PROVE w[i] = Take(w[i - 1], words[i])
  <2>1. i \in 0..n /\ i # 0
    BY <1>2
  <2>2. QED
    BY <1>8, <2>1
<1>11. QED
  BY <1>1, <1>9, <1>10 DEF n

(* One more word.                                                          *)
LEMMA ReadAppend ==
    ASSUME NEW W, NEW words \in Seq(W), NEW x \in W
    PROVE  ReadEnd(Append(words, x)) = Take(ReadEnd(words), x)
<1> DEFINE n == Len(words)
           more == Append(words, x)
           r == Reading(words)
           t == Reading(more)
<1>1. n \in Nat
  OBVIOUS
<1>2. /\ more \in Seq(W) /\ Len(more) = n + 1
      /\ \A i \in 1..n : more[i] = words[i]
      /\ more[n + 1] = x
  BY AppendProperties
<1> HIDE DEF more
<1>3. r[0] = ReaderStart /\ \A i \in 1..n : r[i] = Take(r[i - 1], words[i])
  BY ReadingIs
<1>4. t[0] = ReaderStart /\ \A i \in 1..Len(more) : t[i] = Take(t[i - 1], more[i])
  BY <1>2, ReadingIs
<1> HIDE DEF n, r, t
<1> DEFINE P == {i \in Nat : i \in 0..n => t[i] = r[i]}
<1>5. 0 \in P
  BY <1>3, <1>4
<1>6. ASSUME NEW i \in P PROVE i + 1 \in P
  <2>1. SUFFICES ASSUME i + 1 \in 0..n PROVE t[i + 1] = r[i + 1]
    OBVIOUS
  <2>2. i + 1 \in 1..n /\ i + 1 \in 1..n + 1 /\ i \in 0..n /\ (i + 1) - 1 = i
    BY <1>1, <2>1
  <2>3. t[i + 1] = Take(t[i], more[i + 1]) /\ r[i + 1] = Take(r[i], words[i + 1])
    BY <1>2, <1>3, <1>4, <2>2
  <2>4. QED
    BY <1>2, <2>2, <2>3
<1>7. P = Nat
  <2>1. P \subseteq Nat /\ \A i \in P : i + 1 \in P
    BY <1>6
  <2> HIDE DEF P
  <2>2. QED
    BY <1>5, <2>1, NatInduct
<1>8. t[n] = r[n]
  <2>1. n \in P /\ n \in 0..n
    <3> HIDE DEF P
    <3>1. QED
      BY <1>1, <1>7
  <2>2. QED
    BY <2>1
<1>9. t[n + 1] = Take(t[n], x)
  <2>1. n + 1 \in 1..n + 1 /\ (n + 1) - 1 = n
    BY <1>1
  <2>2. QED
    BY <1>2, <1>4, <2>1
<1>10. QED
  BY <1>2, <1>8, <1>9 DEF ReadEnd, more, n, r, t

(* What the reader does with a word.                                       *)
LEMMA Takes ==
    ASSUME NEW o, NEW w, NEW x
    PROVE  /\ \A h : Take(ReaderState(o, h, w, TRUE), x) = ReaderState(o, h, w, TRUE)
           /\ "hdr" \in DOMAIN x =>
                 Take(ReaderState(o, <<>>, w, FALSE), x) = ReaderState(o, <<x.hdr>>, <<>>, FALSE)
           /\ "hdr" \notin DOMAIN x =>
                 Take(ReaderState(o, <<>>, w, FALSE), x) = ReaderState(o, <<>>, w, TRUE)
<1>1. ASSUME NEW h PROVE Take(ReaderState(o, h, w, TRUE), x) = ReaderState(o, h, w, TRUE)
  BY DEF Take, ReaderState
<1>2. ASSUME "hdr" \in DOMAIN x
      PROVE Take(ReaderState(o, <<>>, w, FALSE), x) = ReaderState(o, <<x.hdr>>, <<>>, FALSE)
  BY <1>2 DEF Take, ReaderState
<1>3. ASSUME "hdr" \notin DOMAIN x
      PROVE Take(ReaderState(o, <<>>, w, FALSE), x) = ReaderState(o, <<>>, w, TRUE)
  BY <1>3 DEF Take, ReaderState
<1>4. QED
  BY <1>1, <1>2, <1>3

(* What it does with a word of a record: keep it, deliver the flow, or     *)
(* stop.                                                                   *)
LEMMA TakesWord ==
    ASSUME NEW o, NEW H \in RecordHeader, NEW w \in Seq(Word), NEW x \in Word, Len(Append(w, x)) < H.len
    PROVE  Take(ReaderState(o, <<H>>, w, FALSE), x) = ReaderState(o, <<H>>, Append(w, x), FALSE)
<1>1. <<H>> # <<>> /\ <<H>>[1] = H
  OBVIOUS
<1> DEFINE words == Append(w, x)
<1>2. Take(ReaderState(o, <<H>>, w, FALSE), x) =
        IF Len(words) < H.len THEN [ReaderState(o, <<H>>, w, FALSE) EXCEPT !.words = words]
        ELSE [ReaderState(o, <<H>>, w, FALSE) EXCEPT !.out = @ \o store_flow_deserialise(H, words),
                                                     !.hdr = <<>>,
                                                     !.stop = store_flow_deserialise(H, words) = <<>>]
  BY <1>1 DEF Take, ReaderState
<1> HIDE DEF words
<1>3. QED
  BY <1>2 DEF ReaderState, words

(* The last word of a record that is as it should be: the record is out.   *)
LEMMA TakesFlow ==
    ASSUME NEW o, NEW H \in RecordHeader, NEW w \in Seq(Word), NEW x \in Word, ~(Len(Append(w, x)) < H.len), NEW flow,
           store_flow_deserialise(H, Append(w, x)) = flow, flow # <<>>
    PROVE  Take(ReaderState(o, <<H>>, w, FALSE), x) = ReaderState(o \o flow, <<>>, w, FALSE)
<1>1. <<H>> # <<>> /\ <<H>>[1] = H
  OBVIOUS
<1> DEFINE words == Append(w, x)
<1>2. Take(ReaderState(o, <<H>>, w, FALSE), x) =
        IF Len(words) < H.len THEN [ReaderState(o, <<H>>, w, FALSE) EXCEPT !.words = words]
        ELSE [ReaderState(o, <<H>>, w, FALSE) EXCEPT !.out = @ \o store_flow_deserialise(H, words),
                                                     !.hdr = <<>>,
                                                     !.stop = store_flow_deserialise(H, words) = <<>>]
  BY <1>1 DEF Take, ReaderState
<1> HIDE DEF words
<1>3. QED
  BY <1>2 DEF ReaderState, words

(* The last word of a record that is not: the reader stops.                *)
LEMMA TakesNothing ==
    ASSUME NEW o, NEW H \in RecordHeader, NEW w \in Seq(Word), NEW x \in Word, ~(Len(Append(w, x)) < H.len),
           store_flow_deserialise(H, Append(w, x)) = <<>>
    PROVE  Take(ReaderState(o, <<H>>, w, FALSE), x) = ReaderState(o \o <<>>, <<>>, w, TRUE)
<1>1. <<H>> # <<>> /\ <<H>>[1] = H
  OBVIOUS
<1> DEFINE words == Append(w, x)
<1>2. Take(ReaderState(o, <<H>>, w, FALSE), x) =
        IF Len(words) < H.len THEN [ReaderState(o, <<H>>, w, FALSE) EXCEPT !.words = words]
        ELSE [ReaderState(o, <<H>>, w, FALSE) EXCEPT !.out = @ \o store_flow_deserialise(H, words),
                                                     !.hdr = <<>>,
                                                     !.stop = store_flow_deserialise(H, words) = <<>>]
  BY <1>1 DEF Take, ReaderState
<1> HIDE DEF words
<1>3. QED
  BY <1>2 DEF ReaderState, words

-----------------------------------------------------------------------------
(* Sequences, a word at a time *)

(* Appending one more element of s.                                        *)
Grows(X, a, s) ==
    /\ a \o SubSeq(s, 1, 0) = a
    /\ a \o SubSeq(s, 1, Len(s)) = a \o s
    /\ \A j \in 0..Len(s) : SubSeq(s, 1, j) \in Seq(X) /\ a \o SubSeq(s, 1, j) \in Seq(X)
    /\ \A j \in 0..Len(s) - 1 :
          a \o SubSeq(s, 1, j + 1) = Append(a \o SubSeq(s, 1, j), s[j + 1])

(* Every beginning of a concatenation is the one before and a word.        *)
LEMMA ConcatGrow ==
    ASSUME NEW X, NEW a \in Seq(X), NEW s \in Seq(X)
    PROVE  Grows(X, a, s)
<1>1. a \o SubSeq(s, 1, 0) = a
  <2>1. SubSeq(s, 1, 0) = <<>>
    BY SubSeqEmpty
  <2>2. QED
    BY <2>1, ConcatEmptySeq
<1>2. a \o SubSeq(s, 1, Len(s)) = a \o s
  BY SubSeqFull
<1>3. ASSUME NEW j \in 0..Len(s)
      PROVE  /\ SubSeq(s, 1, j) \in Seq(X) /\ Len(SubSeq(s, 1, j)) = j
             /\ \A i \in 1..j : SubSeq(s, 1, j)[i] = s[i]
             /\ a \o SubSeq(s, 1, j) \in Seq(X)
  <2>1. \A i \in 1..j : s[i] \in X
    OBVIOUS
  <2>2. /\ SubSeq(s, 1, j) \in Seq(X) /\ Len(SubSeq(s, 1, j)) = j
        /\ \A i \in 1..j : SubSeq(s, 1, j)[i] = s[i]
    BY <2>1
  <2>3. QED
    BY <2>2, ConcatProperties
<1>4. ASSUME NEW j \in 0..Len(s) - 1
      PROVE  a \o SubSeq(s, 1, j + 1) = Append(a \o SubSeq(s, 1, j), s[j + 1])
  <2>1. j + 1 \in 1..Len(s) /\ j + 1 \in 0..Len(s) /\ j \in 0..Len(s) /\ Len(s) \in Nat /\ (j + 1) - 1 = j
    OBVIOUS
  <2>2. s[j + 1] \in X
    BY <2>1
  <2> DEFINE u == SubSeq(s, 1, j)
             v == SubSeq(s, 1, j + 1)
             x == s[j + 1]
  <2>3. u \in Seq(X) /\ v \in Seq(X) /\ a \o u \in Seq(X)
    BY <1>3, <2>1
  <2>4. v = u \o <<x>>
    BY <2>1, SubSeqRecursiveSecond
  <2>5. <<x>> \in Seq(X)
    BY <2>2
  <2> HIDE DEF u, v, x
  <2>6. (a \o u) \o <<x>> = a \o (u \o <<x>>)
    BY <2>3, <2>5, ConcatAssociative, SMTT(30)
  <2>7. Append(a \o u, x) = (a \o u) \o <<x>>
    BY <2>2, <2>3, AppendIsConcat DEF x
  <2>8. a \o v = Append(a \o u, x)
    BY <2>4, <2>6, <2>7, Zenon
  <2>9. QED
    BY <2>8 DEF u, v, x
<1>5. QED
  BY <1>1, <1>2, <1>3, <1>4 DEF Grows

(* The same for the elements from the second on.                           *)
LEMMA SecondGrow ==
    ASSUME NEW X, NEW s \in Seq(X)
    PROVE  /\ SubSeq(s, 2, 1) = <<>>
           /\ \A j \in 1..Len(s) : /\ SubSeq(s, 2, j) \in Seq(X) /\ Len(SubSeq(s, 2, j)) = j - 1
                                   /\ \A i \in 1..j - 1 : SubSeq(s, 2, j)[i] = s[i + 1]
           /\ \A j \in 1..Len(s) - 1 : SubSeq(s, 2, j + 1) = Append(SubSeq(s, 2, j), s[j + 1])
<1>1. SubSeq(s, 2, 1) = <<>>
  BY SubSeqEmpty
<1>2. ASSUME NEW j \in 1..Len(s)
      PROVE  /\ SubSeq(s, 2, j) \in Seq(X) /\ Len(SubSeq(s, 2, j)) = j - 1
             /\ \A i \in 1..j - 1 : SubSeq(s, 2, j)[i] = s[i + 1]
  <2>1. \A i \in 2..j : s[i] \in X
    OBVIOUS
  <2>2. QED
    BY <2>1
<1>3. ASSUME NEW j \in 1..Len(s) - 1
      PROVE  SubSeq(s, 2, j + 1) = Append(SubSeq(s, 2, j), s[j + 1])
  <2>1. 2 \in 1..Len(s) /\ j + 1 \in 2..Len(s) /\ (j + 1) - 1 = j /\ j \in 1..Len(s) /\ s[j + 1] \in X
    OBVIOUS
  <2>2. SubSeq(s, 2, j + 1) = SubSeq(s, 2, j) \o <<s[j + 1]>>
    BY <2>1, SubSeqRecursiveSecond
  <2>3. SubSeq(s, 2, j) \in Seq(X)
    BY <1>2, <2>1
  <2>4. QED
    BY <2>1, <2>2, <2>3, AppendIsConcat
<1>4. QED
  BY <1>1, <1>2, <1>3

-----------------------------------------------------------------------------
(* Reading whole records *)

(* A record that was read back is the record that was stored.              *)
LEMMA DeserialisedIs ==
    ASSUME NEW flow \in StoredFlow, crc \in BOOLEAN
    PROVE  LET s == store_flow_serialise(flow)
           IN  store_flow_deserialise(HeaderOf(flow), SubSeq(s, 2, Len(s))) = <<flow>>
<1> DEFINE s == store_flow_serialise(flow)
           H == HeaderOf(flow)
           fs == Fields(flow)
           n == Len(fs)
           w == SubSeq(s, 2, Len(s))
<1>1. /\ n \in Nat /\ n >= 3 /\ s \in Seq(Word) /\ Len(s) = H.len + 1
      /\ H.fields = fs /\ H.len = n + IF crc THEN 1 ELSE 0
      /\ s[1] = [hdr |-> H] /\ \A i \in 1..n : s[i + 1] = [value |-> flow[fs[i]]]
      /\ crc => s[n + 2] = [crc32 |-> BodyOf(flow)]
      /\ BodyOf(flow) = SubSeq(s, 1, n + 1)
  BY RecordWords
<1>2. /\ ToSet(fs) = DOMAIN flow /\ fs \in Seq({"tag", "agent", "src", "dst"})
      /\ \A i, j \in 1..n : fs[i] = fs[j] => i = j
  BY FieldsGood
<1> HIDE DEF s, H, fs, n
<1>3. /\ w \in Seq(Word) /\ Len(w) = H.len /\ \A i \in 1..H.len : w[i] = s[i + 1]
  <2>1. Len(s) \in 1..Len(s) /\ Len(s) - 1 = H.len
    BY <1>1
  <2>2. QED
    BY <1>1, <2>1, SecondGrow
<1> HIDE DEF w
<1>4. \A i \in 1..n : w[i] = [value |-> flow[fs[i]]]
  <2>1. \A i \in 1..n : i \in 1..H.len
    BY <1>1
  <2>2. QED
    BY <1>1, <1>3, <2>1
<1>5. ASSUME crc PROVE w[n + 1] = [crc32 |-> <<[hdr |-> H]>> \o SubSeq(w, 1, n)]
  <2>1. H.len = n + 1 /\ n + 1 \in 1..H.len /\ (n + 1) + 1 = n + 2
    BY <1>1, <1>5
  <2>2. w[n + 1] = [crc32 |-> BodyOf(flow)]
    BY <1>1, <1>3, <1>5, <2>1
  <2> DEFINE x == SubSeq(w, 1, n)
             y == SubSeq(s, 1, n + 1)
             h == <<[hdr |-> H]>>
  <2>3. \A i \in 1..n : w[i] \in Word
    BY <1>1, <1>3, <2>1
  <2>4. x \in Seq(Word) /\ Len(x) = n /\ \A i \in 1..n : x[i] = w[i]
    BY <1>1, <2>3
  <2>5. \A i \in 1..n + 1 : s[i] \in Word
    BY <1>1, <2>1
  <2>6. y \in Seq(Word) /\ Len(y) = n + 1 /\ \A i \in 1..n + 1 : y[i] = s[i]
    BY <1>1, <2>5
  <2>7. h \in Seq(Word) /\ Len(h) = 1 /\ h[1] = s[1]
    BY <1>1, <2>5
  <2> HIDE DEF x, y, h
  <2>8. /\ h \o x \in Seq(Word) /\ Len(h \o x) = 1 + n
        /\ \A i \in 1..1 + n : (h \o x)[i] = IF i <= 1 THEN h[i] ELSE x[i - 1]
    <3>1. /\ h \o x \in Seq(Word) /\ Len(h \o x) = Len(h) + Len(x)
          /\ \A i \in 1..Len(h) + Len(x) : (h \o x)[i] = IF i <= Len(h) THEN h[i] ELSE x[i - Len(h)]
      BY <2>4, <2>7, ConcatProperties
    <3>2. QED
      BY <2>4, <2>7, <3>1, Zenon
  <2>9. ASSUME NEW i \in 1..n + 1 PROVE (h \o x)[i] = y[i]
    <3>1. (h \o x)[i] = IF i <= 1 THEN h[i] ELSE x[i - 1]
      <4>1. i \in 1..1 + n
        BY <1>1
      <4>2. QED
        BY <2>8, <4>1, Zenon
    <3>2. CASE i = 1
      BY <2>6, <2>7, <3>1, <3>2
    <3>3. CASE i # 1
      <4>1. i - 1 \in 1..n /\ i - 1 \in 1..H.len /\ (i - 1) + 1 = i /\ ~(i <= 1)
        BY <1>1, <2>1, <3>3
      <4>2. QED
        BY <1>3, <2>4, <2>6, <3>1, <4>1
    <3>4. QED
      BY <3>2, <3>3
  <2>10. h \o x = y
    <3>1. Len(h \o x) = Len(y) /\ \A i \in 1..Len(h \o x) : (h \o x)[i] = y[i]
      <4>1. 1 + n = n + 1
        BY <1>1
      <4>2. QED
        BY <2>6, <2>8, <2>9, <4>1, Zenon
    <3>2. QED
      BY <2>6, <2>8, <3>1, SeqEqual
  <2>11. QED
    BY <1>1, <2>2, <2>10 DEF x, y, h
<1> DEFINE v == [f \in ToSet(fs) |-> ValueOf(w[CHOOSE i \in 1 .. n : fs[i] = f])]
<1>6. store_flow_deserialise(H, w) = <<v>>
  <2> DEFINE sum(fields) == <<[hdr |-> H]>> \o SubSeq(w, 1, Len(fields))
             back(fields) == [f \in ToSet(fields) |->
                                 ValueOf(w[CHOOSE i \in 1 .. Len(fields) : fields[i] = f])]
  <2>1. store_flow_deserialise(H, w) =
          IF crc /\ w[Len(H.fields) + 1] # [crc32 |-> sum(H.fields)] THEN <<>>
          ELSE <<back(H.fields)>>
    BY DEF store_flow_deserialise
  <2>2. back(fs) = v /\ sum(fs) = <<[hdr |-> H]>> \o SubSeq(w, 1, n)
    BY DEF n
  <2> HIDE DEF sum, back, v
  <2>3. store_flow_deserialise(H, w) =
          IF crc /\ w[n + 1] # [crc32 |-> sum(fs)] THEN <<>> ELSE <<back(fs)>>
    BY <1>1, <2>1, Zenon DEF n
  <2>4. QED
    BY <1>5, <2>2, <2>3
<1>7. v = flow
  <2>1. flow = [f \in DOMAIN flow |-> flow[f]]
    BY DEF StoredFlow, PlainFlow, TaggedFlow
  <2>2. ASSUME NEW f \in DOMAIN flow PROVE ValueOf(w[CHOOSE i \in 1 .. n : fs[i] = f]) = flow[f]
    <3>1. \E i \in 1..n : fs[i] = f
      <4>1. DOMAIN fs = 1..n
        BY <1>2 DEF n
      <4>2. QED
        BY <1>2, <4>1 DEF ToSet
    <3>2. PICK i \in 1..n : i = (CHOOSE k \in 1 .. n : fs[k] = f) /\ fs[i] = f
      BY <3>1
    <3>3. w[i] = [value |-> flow[f]]
      BY <1>4, <3>2
    <3>4. ValueOf(w[i]) = flow[f]
      BY <3>3 DEF ValueOf
    <3>5. QED
      BY <3>2, <3>4
  <2>3. QED
    BY <1>2, <2>1, <2>2
<1>8. QED
  BY <1>6, <1>7 DEF s, H, w

(* The reader in the middle of a record.                                   *)
LEMMA PartRead ==
    ASSUME NEW flow \in StoredFlow, crc \in BOOLEAN, NEW a \in Seq(Word), NEW o, NEW w,
           ReadEnd(a) = ReaderState(o, <<>>, w, FALSE)
    PROVE  LET s == store_flow_serialise(flow)
               H == HeaderOf(flow)
           IN  \A j \in 1..H.len :
                  ReadEnd(a \o SubSeq(s, 1, j)) = ReaderState(o, <<H>>, SubSeq(s, 2, j), FALSE)
<1> DEFINE s == store_flow_serialise(flow)
           H == HeaderOf(flow)
           At(j) == ReadEnd(a \o SubSeq(s, 1, j)) = ReaderState(o, <<H>>, SubSeq(s, 2, j), FALSE)
           P == {j \in Nat : j + 1 \in 1..H.len => At(j + 1)}
<1>1. /\ s \in Seq(Word) /\ Len(s) = H.len + 1 /\ H.len \in Nat /\ H.len > 0 /\ H \in RecordHeader
      /\ s[1] = [hdr |-> H]
  <2>1. /\ Len(Fields(flow)) \in Nat /\ Len(Fields(flow)) >= 3
        /\ s \in Seq(Word) /\ Len(s) = H.len + 1 /\ H \in RecordHeader
        /\ H.len = Len(Fields(flow)) + IF crc THEN 1 ELSE 0
        /\ s[1] = [hdr |-> H]
    BY RecordWords
  <2>2. QED
    BY <2>1
<1> HIDE DEF s, H
<1>2. /\ a \o SubSeq(s, 1, 0) = a
      /\ a \o SubSeq(s, 1, Len(s)) = a \o s
      /\ \A j \in 0..Len(s) : SubSeq(s, 1, j) \in Seq(Word) /\ a \o SubSeq(s, 1, j) \in Seq(Word)
      /\ \A j \in 0..Len(s) - 1 : a \o SubSeq(s, 1, j + 1) = Append(a \o SubSeq(s, 1, j), s[j + 1])
  <2>1. s \in Seq(Word)
    BY <1>1
  <2>2. Grows(Word, a, s)
    BY <2>1, ConcatGrow
  <2>3. QED
    BY <2>2, Zenon DEF Grows
<1>3. At(1)
  <2>1. a \o SubSeq(s, 1, 1) = Append(a, s[1])
    <3>1. 0 \in 0..Len(s) - 1 /\ 0 + 1 = 1
      BY <1>1
    <3>2. a \o SubSeq(s, 1, 0 + 1) = Append(a \o SubSeq(s, 1, 0), s[0 + 1])
      BY <1>2, <3>1, Zenon
    <3>3. QED
      BY <1>2, <3>1, <3>2
  <2>2. ReadEnd(Append(a, s[1])) = Take(ReaderState(o, <<>>, w, FALSE), s[1])
    <3>1. s[1] \in Word
      BY <1>1
    <3>2. ReadEnd(Append(a, s[1])) = Take(ReadEnd(a), s[1])
      BY <3>1, ReadAppend
    <3>3. QED
      BY <3>2
  <2>3. "hdr" \in DOMAIN s[1] /\ s[1].hdr = H
    BY <1>1
  <2>4. Take(ReaderState(o, <<>>, w, FALSE), s[1]) = ReaderState(o, <<H>>, <<>>, FALSE)
    BY <2>3, Takes
  <2>5. SubSeq(s, 2, 1) = <<>>
    BY <1>1, SecondGrow
  <2>6. QED
    BY <2>1, <2>2, <2>4, <2>5
<1> HIDE DEF At
<1>4. 0 \in P
  BY <1>3
<1>5. ASSUME NEW j \in P PROVE j + 1 \in P
  <2>1. SUFFICES ASSUME (j + 1) + 1 \in 1..H.len PROVE At((j + 1) + 1)
    OBVIOUS
  <2> DEFINE k == j + 1
  <2>2. /\ k \in 1..H.len /\ k \in 0..Len(s) /\ k \in 0..Len(s) - 1 /\ k \in 1..Len(s) - 1
        /\ k + 1 \in 1..Len(s) /\ k \in Nat /\ j \in Nat /\ k < H.len
    <3>1. H.len \in Nat /\ Len(s) = H.len + 1 /\ j \in Nat
      BY <1>1
    <3>2. QED
      BY <2>1, <3>1
  <2>3. At(k)
    BY <2>2
  <2> HIDE DEF k
  <2> DEFINE x == s[k + 1]
             u == SubSeq(s, 2, k)
  <2>4. x \in Word
    BY <1>1, <2>2
  <2>5. ReadEnd(a \o SubSeq(s, 1, k + 1)) = Take(ReadEnd(a \o SubSeq(s, 1, k)), x)
    <3>1. a \o SubSeq(s, 1, k) \in Seq(Word)
      BY <1>2, <2>2
    <3>2. a \o SubSeq(s, 1, k + 1) = Append(a \o SubSeq(s, 1, k), x)
      BY <1>2, <2>2
    <3>3. QED
      BY <2>4, <3>1, <3>2, ReadAppend
  <2>6. SubSeq(s, 2, k + 1) = Append(u, x) /\ u \in Seq(Word) /\ Len(u) = k - 1
    <3>1. k \in 1..Len(s)
      BY <2>2
    <3>2. QED
      BY <1>1, <2>2, <3>1, SecondGrow
  <2> HIDE DEF x, u
  <2>7. Len(Append(u, x)) < H.len
    BY <1>1, <2>2, <2>4, <2>6, AppendProperties
  <2>8. Take(ReaderState(o, <<H>>, u, FALSE), x) = ReaderState(o, <<H>>, Append(u, x), FALSE)
    <3>1. H \in RecordHeader
      BY <1>1
    <3>2. QED
      BY <2>4, <2>6, <2>7, <3>1, TakesWord
  <2>9. At(k + 1)
    <3>1. ReadEnd(a \o SubSeq(s, 1, k)) = ReaderState(o, <<H>>, u, FALSE)
      BY <2>3 DEF At, u
    <3>2. QED
      BY <2>5, <2>6, <2>8, <3>1 DEF At
  <2>10. QED
    BY <2>9 DEF k
<1>6. P = Nat
  <2>1. P \subseteq Nat /\ \A j \in P : j + 1 \in P
    BY <1>5
  <2> HIDE DEF P
  <2>2. QED
    BY <1>4, <2>1, NatInduct
<1>7. ASSUME NEW j \in 1..H.len PROVE At(j)
  <2>1. j - 1 \in Nat /\ (j - 1) + 1 = j
    OBVIOUS
  <2>2. j - 1 \in P
    BY <1>6, <2>1
  <2>3. QED
    BY <2>1, <2>2
<1>8. QED
  BY <1>7 DEF At, s, H

(* The reader after a record.                                              *)
LEMMA RecordRead ==
    ASSUME NEW flow \in StoredFlow, crc \in BOOLEAN, NEW a \in Seq(Word), NEW o, NEW w,
           ReadEnd(a) = ReaderState(o, <<>>, w, FALSE)
    PROVE  \E v : ReadEnd(a \o store_flow_serialise(flow)) = ReaderState(o \o <<flow>>, <<>>, v, FALSE)
<1> DEFINE s == store_flow_serialise(flow)
           H == HeaderOf(flow)
           k == H.len
           x == s[k + 1]
           u == SubSeq(s, 2, k)
<1>1. /\ s \in Seq(Word) /\ Len(s) = k + 1 /\ k \in Nat /\ k > 0 /\ H \in RecordHeader
  <2>1. /\ Len(Fields(flow)) \in Nat /\ Len(Fields(flow)) >= 3
        /\ s \in Seq(Word) /\ Len(s) = H.len + 1 /\ H \in RecordHeader
        /\ H.len = Len(Fields(flow)) + IF crc THEN 1 ELSE 0
    BY RecordWords
  <2>2. QED
    BY <2>1
<1>2. store_flow_deserialise(H, SubSeq(s, 2, Len(s))) = <<flow>>
  BY DeserialisedIs
<1>3. \A j \in 1..k : ReadEnd(a \o SubSeq(s, 1, j)) = ReaderState(o, <<H>>, SubSeq(s, 2, j), FALSE)
  BY PartRead
<1> HIDE DEF s, H, k
<1>4. /\ a \o SubSeq(s, 1, k + 1) = a \o s /\ a \o SubSeq(s, 1, k) \in Seq(Word)
      /\ a \o SubSeq(s, 1, k + 1) = Append(a \o SubSeq(s, 1, k), x)
  <2>1. k \in 0..Len(s) - 1 /\ k \in 0..Len(s)
    BY <1>1
  <2>2. /\ a \o SubSeq(s, 1, 0) = a
        /\ a \o SubSeq(s, 1, Len(s)) = a \o s
        /\ \A j \in 0..Len(s) : SubSeq(s, 1, j) \in Seq(Word) /\ a \o SubSeq(s, 1, j) \in Seq(Word)
        /\ \A j \in 0..Len(s) - 1 : a \o SubSeq(s, 1, j + 1) = Append(a \o SubSeq(s, 1, j), s[j + 1])
    <3>1. s \in Seq(Word)
      BY <1>1
    <3>2. Grows(Word, a, s)
      BY <3>1, ConcatGrow
    <3>3. QED
      BY <3>2, Zenon DEF Grows
  <2>3. QED
    BY <1>1, <2>1, <2>2
<1>5. x \in Word
  BY <1>1
<1>6. SubSeq(s, 2, k + 1) = Append(u, x) /\ u \in Seq(Word) /\ Len(u) = k - 1
  <2>1. k \in 1..Len(s) /\ k \in 1..Len(s) - 1
    BY <1>1
  <2>2. QED
    BY <1>1, <2>1, SecondGrow
<1>7. ReadEnd(a \o SubSeq(s, 1, k)) = ReaderState(o, <<H>>, u, FALSE)
  <2>1. k \in 1..k
    BY <1>1
  <2>2. QED
    BY <1>3, <2>1
<1> HIDE DEF x, u
<1>8. ReadEnd(a \o s) = Take(ReaderState(o, <<H>>, u, FALSE), x)
  <2>1. ReadEnd(Append(a \o SubSeq(s, 1, k), x)) = Take(ReadEnd(a \o SubSeq(s, 1, k)), x)
    BY <1>4, <1>5, ReadAppend
  <2>2. QED
    BY <1>4, <1>7, <2>1
<1>9. ~(Len(Append(u, x)) < H.len)
  <2>1. Len(Append(u, x)) = k
    BY <1>1, <1>5, <1>6, AppendProperties
  <2>2. QED
    BY <1>1, <2>1 DEF k
<1>10. store_flow_deserialise(H, Append(u, x)) = <<flow>>
  BY <1>1, <1>2, <1>6
<1>11. Take(ReaderState(o, <<H>>, u, FALSE), x) = ReaderState(o \o <<flow>>, <<>>, u, FALSE)
  <2>1. <<flow>> # <<>>
    OBVIOUS
  <2>2. QED
    BY <1>1, <1>5, <1>6, <1>9, <1>10, <2>1, TakesFlow, ZenonT(60)
<1>12. QED
  BY <1>8, <1>11 DEF s

-----------------------------------------------------------------------------
(* Records one after the other *)

(* The words of a sequence of records.                                     *)
LEMMA SerialisedOf ==
    ASSUME crc \in BOOLEAN
    PROVE  /\ Serialised(<<>>) = <<>>
           /\ \A f \in StoredFlow : Serialised(<<f>>) = store_flow_serialise(f)
           /\ \A a \in Seq(StoredFlow) : Serialised(a) \in Seq(Word)
           /\ \A a, b \in Seq(StoredFlow) : Serialised(a \o b) = Serialised(a) \o Serialised(b)
<1> DEFINE M(a) == [i \in 1 .. Len(a) |-> store_flow_serialise(a[i])]
<1>1. \A f \in StoredFlow : store_flow_serialise(f) \in Seq(Word)
  BY RecordWords
<1>2. ASSUME NEW a \in Seq(StoredFlow)
      PROVE  /\ M(a) \in Seq(Seq(Word)) /\ Len(M(a)) = Len(a)
             /\ \A i \in 1..Len(a) : M(a)[i] = store_flow_serialise(a[i])
  <2>1. \A i \in 1..Len(a) : store_flow_serialise(a[i]) \in Seq(Word)
    BY <1>1
  <2>2. M(a) \in [1..Len(a) -> Seq(Word)] /\ \A i \in 1..Len(a) : M(a)[i] = store_flow_serialise(a[i])
    BY <2>1
  <2>3. Len(a) \in Nat
    OBVIOUS
  <2> HIDE DEF M
  <2>4. QED
    BY <2>2, <2>3
<1>3. \A a : Serialised(a) = FlattenSeq(M(a))
  BY DEF Serialised
<1>4. Serialised(<<>>) = <<>>
  <2>1. M(<<>>) = <<>>
    <3>1. <<>> \in Seq(StoredFlow) /\ Len(<<>>) = 0
      OBVIOUS
    <3>2. M(<<>>) \in Seq(Seq(Word)) /\ Len(M(<<>>)) = 0
      BY <1>2, <3>1, Zenon
    <3> HIDE DEF M
    <3>3. QED
      BY <3>2
  <2>2. FlattenSeq(<<>>) = <<>>
    BY FlattenFew
  <2> HIDE DEF M
  <2>3. QED
    BY <1>3, <2>1, <2>2, Zenon
<1>5. ASSUME NEW f \in StoredFlow PROVE Serialised(<<f>>) = store_flow_serialise(f)
  <2> DEFINE s == store_flow_serialise(f)
  <2>1. <<f>> \in Seq(StoredFlow) /\ Len(<<f>>) = 1 /\ <<f>>[1] = f
    OBVIOUS
  <2>2. M(<<f>>) \in Seq(Seq(Word)) /\ Len(M(<<f>>)) = 1 /\ M(<<f>>)[1] = s
    <3> DEFINE o == <<f>>
    <3>1. M(o) \in Seq(Seq(Word)) /\ Len(M(o)) = Len(o) /\ \A i \in 1..Len(o) : M(o)[i] = store_flow_serialise(o[i])
      BY <1>2, <2>1, Zenon
    <3> HIDE DEF M, o
    <3>2. Len(o) = 1 /\ o[1] = f
      BY <2>1 DEF o
    <3>3. QED
      BY <3>1, <3>2 DEF o
  <2>3. s \in Seq(Word)
    BY <1>1
  <2> HIDE DEF M, s
  <2>4. M(<<f>>) = <<s>>
    <3>1. <<s>> \in Seq(Seq(Word)) /\ Len(<<s>>) = 1 /\ <<s>>[1] = s
      BY <2>3
    <3>2. Len(M(<<f>>)) = Len(<<s>>) /\ \A i \in 1..Len(M(<<f>>)) : M(<<f>>)[i] = <<s>>[i]
      BY <2>2, <3>1
    <3>3. QED
      BY <2>2, <3>1, <3>2, SeqEqual
  <2>5. FlattenSeq(<<s>>) = s
    BY <2>3, FlattenFew
  <2>6. QED
    BY <1>3, <2>4, <2>5, Zenon DEF s
<1>6. ASSUME NEW a \in Seq(StoredFlow) PROVE Serialised(a) \in Seq(Word)
  <2>1. M(a) \in Seq(Seq(Word))
    BY <1>2
  <2> HIDE DEF M
  <2>2. QED
    BY <1>3, <2>1, FlattenFew
<1>7. ASSUME NEW a \in Seq(StoredFlow), NEW b \in Seq(StoredFlow)
      PROVE  Serialised(a \o b) = Serialised(a) \o Serialised(b)
  <2> DEFINE c == a \o b
  <2>1. /\ c \in Seq(StoredFlow) /\ Len(c) = Len(a) + Len(b)
        /\ \A i \in 1..Len(a) + Len(b) : c[i] = IF i <= Len(a) THEN a[i] ELSE b[i - Len(a)]
    BY ConcatProperties
  <2> HIDE DEF c
  <2>2. /\ M(a) \in Seq(Seq(Word)) /\ Len(M(a)) = Len(a)
        /\ \A i \in 1..Len(a) : M(a)[i] = store_flow_serialise(a[i])
    BY <1>2
  <2>3. /\ M(b) \in Seq(Seq(Word)) /\ Len(M(b)) = Len(b)
        /\ \A i \in 1..Len(b) : M(b)[i] = store_flow_serialise(b[i])
    BY <1>2
  <2>4. /\ M(c) \in Seq(Seq(Word)) /\ Len(M(c)) = Len(c)
        /\ \A i \in 1..Len(c) : M(c)[i] = store_flow_serialise(c[i])
    BY <1>2, <2>1
  <2> HIDE DEF M
  <2> DEFINE ma == M(a)
             mb == M(b)
             mc == M(c)
  <2>5. Len(a) \in Nat /\ Len(b) \in Nat
    OBVIOUS
  <2> HIDE DEF ma, mb, mc
  <2>6. /\ ma \o mb \in Seq(Seq(Word)) /\ Len(ma \o mb) = Len(a) + Len(b)
        /\ \A i \in 1..Len(a) + Len(b) : (ma \o mb)[i] = IF i <= Len(a) THEN ma[i] ELSE mb[i - Len(a)]
    <3>1. ma \in Seq(Seq(Word)) /\ mb \in Seq(Seq(Word)) /\ Len(ma) = Len(a) /\ Len(mb) = Len(b)
      BY <2>2, <2>3 DEF ma, mb
    <3>2. /\ ma \o mb \in Seq(Seq(Word)) /\ Len(ma \o mb) = Len(ma) + Len(mb)
          /\ \A i \in 1..Len(ma) + Len(mb) : (ma \o mb)[i] = IF i <= Len(ma) THEN ma[i] ELSE mb[i - Len(ma)]
      BY <3>1, ConcatProperties
    <3>3. QED
      BY <3>1, <3>2, Zenon
  <2>7. ASSUME NEW i \in 1..Len(a) + Len(b) PROVE mc[i] = (ma \o mb)[i]
    <3>1. mc[i] = store_flow_serialise(c[i])
      BY <2>1, <2>4 DEF mc
    <3>2. CASE i <= Len(a)
      <4>1. i \in 1..Len(a)
        BY <2>5, <3>2
      <4>2. QED
        BY <2>1, <2>2, <2>6, <3>1, <3>2, <4>1 DEF ma
    <3>3. CASE ~(i <= Len(a))
      <4>1. i - Len(a) \in 1..Len(b)
        BY <2>5, <3>3
      <4>2. QED
        BY <2>1, <2>3, <2>6, <3>1, <3>3, <4>1 DEF mb
    <3>4. QED
      BY <3>2, <3>3
  <2>8. mc = ma \o mb
    <3>1. mc \in Seq(Seq(Word)) /\ Len(mc) = Len(a) + Len(b)
      BY <2>1, <2>4 DEF mc
    <3>2. QED
      BY <2>6, <2>7, <3>1, SeqEqual
  <2>9. FlattenSeq(ma \o mb) = FlattenSeq(ma) \o FlattenSeq(mb)
    BY <2>2, <2>3, FlattenConcat DEF ma, mb
  <2>10. QED
    BY <1>3, <2>8, <2>9, Zenon DEF ma, mb, mc, c
<1>8. QED
  BY <1>4, <1>5, <1>6, <1>7

(* The first of them begins with a header.                                 *)
LEMMA SerialisedFirst ==
    ASSUME crc \in BOOLEAN, NEW a \in Seq(StoredFlow), a # <<>>
    PROVE  Serialised(a) # <<>> /\ Serialised(a)[1] \in HeaderWord
<1> DEFINE f == a[1]
           b == SubSeq(a, 2, Len(a))
           s == store_flow_serialise(f)
           t == Serialised(b)
<1>1. Len(a) \in Nat /\ Len(a) >= 1 /\ f \in StoredFlow /\ b \in Seq(StoredFlow)
  <2>1. Len(a) \in Nat \ {0}
    BY EmptySeq
  <2>2. \A i \in 2..Len(a) : a[i] \in StoredFlow
    OBVIOUS
  <2>3. b \in Seq(StoredFlow)
    BY <2>1, <2>2
  <2>4. QED
    BY <2>1, <2>3
<1>2. a = <<f>> \o b
  <2>1. 1 \in 1..Len(a) /\ Len(a) \in 1..Len(a)
    BY <1>1
  <2>2. SubSeq(a, 1, Len(a)) = <<a[1]>> \o SubSeq(a, 1 + 1, Len(a))
    BY <2>1, SubSeqRecursiveFirst
  <2>3. SubSeq(a, 1, Len(a)) = a /\ 1 + 1 = 2
    BY SubSeqFull
  <2>4. QED
    BY <2>2, <2>3
<1> HIDE DEF f, b
<1>3. Serialised(a) = s \o t /\ t \in Seq(Word)
  <2>1. <<f>> \in Seq(StoredFlow)
    BY <1>1
  <2>2. Serialised(<<f>> \o b) = Serialised(<<f>>) \o Serialised(b)
    BY <1>1, <2>1, SerialisedOf, Zenon
  <2>3. Serialised(<<f>>) = store_flow_serialise(f) /\ t \in Seq(Word)
    BY <1>1, SerialisedOf
  <2>4. QED
    BY <1>2, <2>2, <2>3, Zenon
<1>4. s \in Seq(Word) /\ Len(s) \in Nat /\ Len(s) > 0 /\ s[1] \in HeaderWord
  <2>1. /\ Len(Fields(f)) \in Nat /\ Len(Fields(f)) >= 3
        /\ s \in Seq(Word) /\ Len(s) = HeaderOf(f).len + 1 /\ HeaderOf(f) \in RecordHeader
        /\ HeaderOf(f).len = Len(Fields(f)) + IF crc THEN 1 ELSE 0
        /\ s[1] = [hdr |-> HeaderOf(f)]
    BY <1>1, RecordWords
  <2>2. s[1] \in HeaderWord
    BY <2>1 DEF HeaderWord
  <2>3. QED
    BY <2>1, <2>2
<1> HIDE DEF s, t
<1>5. s \o t # <<>> /\ (s \o t)[1] = s[1]
  BY <1>3, <1>4
<1>6. QED
  BY <1>3, <1>4, <1>5

(* What the reader makes of them.                                          *)
LEMMA SerialisedRead ==
    ASSUME crc \in BOOLEAN, NEW a \in Seq(StoredFlow)
    PROVE  \E w : ReadEnd(Serialised(a)) = ReaderState(a, <<>>, w, FALSE)
<1> DEFINE At(b) == \E w : ReadEnd(Serialised(b)) = ReaderState(b, <<>>, w, FALSE)
           P == {k \in Nat : k <= Len(a) => At(SubSeq(a, 1, k))}
<1>1. 0 \in P
  <2>1. SubSeq(a, 1, 0) = <<>>
    BY SubSeqEmpty
  <2>2. ReadEnd(<<>>) = ReaderState(<<>>, <<>>, <<>>, FALSE)
    <3>1. <<>> \in Seq(Word) /\ Len(<<>>) = 0
      OBVIOUS
    <3>2. Reading(<<>>)[0] = ReaderStart
      BY <3>1, ReadingIs
    <3>3. QED
      BY <3>1, <3>2 DEF ReadEnd, ReaderStart
  <2>3. Serialised(<<>>) = <<>>
    BY SerialisedOf
  <2>4. At(<<>>)
    BY <2>2, <2>3
  <2>5. QED
    BY <2>1, <2>4
<1>2. ASSUME NEW k \in P PROVE k + 1 \in P
  <2>1. SUFFICES ASSUME k + 1 <= Len(a) PROVE At(SubSeq(a, 1, k + 1))
    <3> HIDE DEF At
    <3>1. QED
      OBVIOUS
  <2> DEFINE b == SubSeq(a, 1, k)
             f == a[k + 1]
  <2>2. /\ Len(a) \in Nat /\ k \in Nat /\ k <= Len(a) /\ k + 1 \in 1..Len(a)
        /\ (k + 1) - 1 = k /\ 1 \in 1..Len(a)
    BY <2>1
  <2>3. f \in StoredFlow /\ \A i \in 1..k : a[i] \in StoredFlow
    BY <2>2
  <2>4. b \in Seq(StoredFlow)
    BY <2>2, <2>3
  <2>5. SubSeq(a, 1, k + 1) = b \o <<f>>
    BY <2>2, SubSeqRecursiveSecond
  <2>6. At(b)
    BY <2>2
  <2> HIDE DEF b, f
  <2>7. <<f>> \in Seq(StoredFlow)
    BY <2>3
  <2>8. PICK w : ReadEnd(Serialised(b)) = ReaderState(b, <<>>, w, FALSE)
    BY <2>6
  <2>9. Serialised(b \o <<f>>) = Serialised(b) \o store_flow_serialise(f)
    <3>1. Serialised(b \o <<f>>) = Serialised(b) \o Serialised(<<f>>)
      BY <2>4, <2>7, SerialisedOf, Zenon
    <3>2. Serialised(<<f>>) = store_flow_serialise(f)
      BY <2>3, SerialisedOf
    <3>3. QED
      BY <3>1, <3>2
  <2>10. \E v : ReadEnd(Serialised(b) \o store_flow_serialise(f)) = ReaderState(b \o <<f>>, <<>>, v, FALSE)
    <3>1. Serialised(b) \in Seq(Word)
      BY <2>4, SerialisedOf
    <3>2. QED
      BY <2>3, <2>8, <3>1, RecordRead
  <2>11. QED
    BY <2>5, <2>9, <2>10
<1>3. P = Nat
  <2>1. P \subseteq Nat /\ \A k \in P : k + 1 \in P
    BY <1>2
  <2> HIDE DEF P
  <2>2. QED
    BY <1>1, <2>1, NatInduct
<1>4. At(SubSeq(a, 1, Len(a)))
  <2>1. Len(a) \in P /\ Len(a) <= Len(a)
    <3> HIDE DEF P
    <3>1. QED
      BY <1>3
  <2> HIDE DEF At
  <2>2. QED
    BY <2>1
<1>5. QED
  BY <1>4, SubSeqFull

-----------------------------------------------------------------------------
(* A write that is cut short *)

(* The greatest number of a bounded set.                                   *)
LEMMA MaxIs ==
    ASSUME NEW n \in Nat, NEW T, T \subseteq 0..n, T # {}
    PROVE  Max(T) \in T /\ \A y \in T : y <= Max(T)
<1> DEFINE U == {n - t : t \in T}
<1>1. U \subseteq Nat /\ U # {}
  <2>1. \A t \in T : n - t \in Nat
    OBVIOUS
  <2>2. PICK t : t \in T
    OBVIOUS
  <2>3. n - t \in U
    BY <2>2
  <2>4. QED
    BY <2>1, <2>3
<1>2. PICK u \in U : \A v \in U : u <= v
  <2> HIDE DEF U
  <2>1. QED
    BY <1>1, NatLeast
<1>3. PICK x \in T : u = n - x
  BY <1>2
<1>4. \A y \in T : x >= y
  <2>1. SUFFICES ASSUME NEW y \in T PROVE x >= y
    OBVIOUS
  <2>2. n - y \in U
    OBVIOUS
  <2>3. n - x <= n - y
    BY <1>2, <1>3, <2>2
  <2>4. x \in Int /\ y \in Int
    OBVIOUS
  <2>5. QED
    BY <2>3, <2>4
<1>5. Max(T) \in T /\ \A y \in T : Max(T) >= y
  <2>1. \E z \in T : \A y \in T : z >= y
    BY <1>4
  <2>2. QED
    BY <2>1, Zenon DEF Max
<1>6. QED
  BY <1>5

(* A part of the queue is some whole records, or these and a part of the   *)
(* next one that is neither empty nor whole.                               *)
LEMMA QueueCut ==
    ASSUME crc \in BOOLEAN, queued \in Seq(StoredFlow), NEW n \in 0..Len(Serialised(queued))
    PROVE  LET k == Whole(n)
               part == SubSeq(queued, 1, k)
               words == SubSeq(Serialised(queued), 1, n)
           IN  /\ k \in 0..Len(queued) /\ part \in Seq(StoredFlow) /\ words \in Seq(Word)
               /\ n = Extent(k) => words = Serialised(part)
               /\ n # Extent(k) => \E f \in StoredFlow : \E j \in 1..HeaderOf(f).len :
                     words = Serialised(part) \o SubSeq(store_flow_serialise(f), 1, j)
<1> DEFINE k == Whole(n)
           T == {i \in 0..Len(queued) : Extent(i) <= n}
           q == Serialised(queued)
           Part(i) == SubSeq(queued, 1, i)
           Rest(i) == SubSeq(queued, i + 1, Len(queued))
<1>1. Len(queued) \in Nat /\ q \in Seq(Word) /\ Len(q) \in Nat /\ n \in Nat
  <2>1. q \in Seq(Word)
    BY SerialisedOf
  <2> HIDE DEF q
  <2>2. QED
    BY <2>1 DEF q
<1>2. ASSUME NEW i \in 0..Len(queued)
      PROVE  /\ Part(i) \in Seq(StoredFlow) /\ Rest(i) \in Seq(StoredFlow)
             /\ q = Serialised(Part(i)) \o Serialised(Rest(i))
             /\ Serialised(Part(i)) \in Seq(Word) /\ Serialised(Rest(i)) \in Seq(Word)
             /\ Extent(i) = Len(Serialised(Part(i)))
             /\ Extent(i) \in Nat
  <2>1. (\A m \in 1..i : queued[m] \in StoredFlow) /\ (\A m \in i + 1..Len(queued) : queued[m] \in StoredFlow)
    BY <1>1
  <2>2. Part(i) \in Seq(StoredFlow) /\ Rest(i) \in Seq(StoredFlow)
    BY <1>1, <2>1
  <2>3. Part(i) \o Rest(i) = queued
    <3>1. 1 \in 1..Len(queued) + 1 /\ i \in 1 - 1..Len(queued) /\ Len(queued) \in i..Len(queued)
      BY <1>1
    <3>2. Part(i) \o Rest(i) = SubSeq(queued, 1, Len(queued))
      BY <3>1, ConcatAdjacentSubSeq
    <3>3. QED
      BY <3>2, SubSeqFull
  <2>4. Extent(i) = Len(Serialised(Part(i)))
    BY DEF Extent
  <2> HIDE DEF Part, Rest
  <2>5. Serialised(Part(i)) \in Seq(Word) /\ Serialised(Rest(i)) \in Seq(Word)
    BY <2>2, SerialisedOf
  <2>6. Serialised(Part(i) \o Rest(i)) = Serialised(Part(i)) \o Serialised(Rest(i))
    BY <2>2, SerialisedOf, Zenon
  <2>7. QED
    BY <2>2, <2>3, <2>4, <2>5, <2>6
<1>3. k \in T /\ \A i \in T : i <= k
  <2>1. 0 \in T
    <3>1. Part(0) = <<>>
      BY SubSeqEmpty
    <3>2. Serialised(<<>>) = <<>> /\ Len(<<>>) = 0
      BY SerialisedOf
    <3>3. Extent(0) = 0
      BY <3>1, <3>2 DEF Extent
    <3>4. QED
      BY <1>1, <3>3
  <2>2. T \subseteq 0..Len(queued) /\ T # {}
    BY <2>1
  <2>3. k = Max(T)
    BY DEF Whole
  <2> HIDE DEF T, k
  <2>4. QED
    BY <1>1, <2>2, <2>3, MaxIs
<1>4. k \in 0..Len(queued) /\ Extent(k) <= n
  BY <1>3
<1> HIDE DEF k, q
<1> DEFINE sp == Serialised(Part(k))
           sr == Serialised(Rest(k))
           e == Extent(k)
<1>5. /\ Part(k) \in Seq(StoredFlow) /\ Rest(k) \in Seq(StoredFlow) /\ q = sp \o sr
      /\ sp \in Seq(Word) /\ sr \in Seq(Word) /\ e = Len(sp) /\ e \in Nat /\ e <= n
  BY <1>2, <1>4
<1> HIDE DEF sp, sr, e
<1>6. SubSeq(q, 1, n) \in Seq(Word) /\ Len(SubSeq(q, 1, n)) = n /\ \A i \in 1..n : SubSeq(q, 1, n)[i] = q[i]
  <2>1. \A i \in 1..n : q[i] \in Word
    BY <1>1 DEF q
  <2>2. QED
    BY <1>1, <2>1
<1>7. Len(q) = e + Len(sr) /\ Len(sr) \in Nat
      /\ \A i \in 1..e + Len(sr) : q[i] = IF i <= e THEN sp[i] ELSE sr[i - e]
  BY <1>5, ConcatProperties
<1>8. ASSUME n = e PROVE SubSeq(q, 1, n) = sp
  <2>1. \A i \in 1..n : q[i] = sp[i]
    BY <1>5, <1>7, <1>8
  <2>2. QED
    BY <1>5, <1>6, <1>8, <2>1, SeqEqual
<1>9. ASSUME n # e
      PROVE  \E f \in StoredFlow : \E j \in 1..HeaderOf(f).len :
                SubSeq(q, 1, n) = sp \o SubSeq(store_flow_serialise(f), 1, j)
  <2>1. k < Len(queued)
    <3>1. SUFFICES ASSUME k = Len(queued) PROVE FALSE
      BY <1>1, <1>4
    <3>2. Part(k) = queued
      BY <3>1, SubSeqFull
    <3>3. sp = q
      BY <3>2 DEF sp, q
    <3>4. n \in 0..Len(q)
      BY DEF q
    <3>5. QED
      BY <1>1, <1>5, <1>9, <3>3, <3>4
  <2> DEFINE f == queued[k + 1]
             s == store_flow_serialise(f)
             m == Len(s)
             j == n - e
  <2>2. k \in Nat /\ k + 1 \in 1..Len(queued) /\ k + 1 \in 0..Len(queued) /\ (k + 1) - 1 = k /\ 1 \in 1..Len(queued)
    BY <1>1, <1>4, <2>1
  <2>3. f \in StoredFlow
    BY <2>2
  <2>4. /\ s \in Seq(Word) /\ m = HeaderOf(f).len + 1 /\ HeaderOf(f).len \in Nat
    <3>1. /\ s \in Seq(Word) /\ Len(s) = HeaderOf(f).len + 1 /\ HeaderOf(f) \in RecordHeader
      BY <2>3, RecordWords
    <3>2. QED
      BY <3>1 DEF RecordHeader
  <2>5. Part(k + 1) = Part(k) \o <<f>>
    BY <2>2, SubSeqRecursiveSecond
  <2> HIDE DEF f
  <2>6. Serialised(Part(k + 1)) = sp \o s
    <3>1. <<f>> \in Seq(StoredFlow)
      BY <2>3
    <3>2. Part(k) \in Seq(StoredFlow)
      BY <1>5
    <3> HIDE DEF Part
    <3>3. Serialised(Part(k) \o <<f>>) = Serialised(Part(k)) \o Serialised(<<f>>)
      BY <3>1, <3>2, SerialisedOf, Zenon
    <3>4. Serialised(<<f>>) = s
      BY <2>3, SerialisedOf
    <3>5. QED
      BY <2>5, <3>3, <3>4, Zenon DEF sp
  <2> HIDE DEF s, m
  <2>7. Extent(k + 1) = e + m
    <3>1. Extent(k + 1) = Len(Serialised(Part(k + 1)))
      BY <1>2, <2>2
    <3>2. Len(sp \o s) = Len(sp) + Len(s)
      BY <1>5, <2>4, ConcatProperties
    <3>3. QED
      BY <1>5, <2>6, <3>1, <3>2 DEF m
  <2>8. n < e + m
    <3>1. k + 1 \notin T
      <4>1. ~(k + 1 <= k)
        BY <2>2
      <4> HIDE DEF T
      <4>2. QED
        BY <1>3, <4>1
    <3>2. ~(Extent(k + 1) <= n)
      BY <2>2, <3>1
    <3>3. e + m \in Nat
      BY <1>5, <2>4
    <3>4. QED
      BY <1>1, <2>7, <3>2, <3>3
  <2>9. j \in 1..HeaderOf(f).len /\ j \in 0..m /\ n = e + j
    <3>1. n \in Nat /\ e \in Nat /\ e <= n /\ m \in Nat
      BY <1>1, <1>5, <2>4
    <3>2. n - e \in 1..HeaderOf(f).len /\ n - e \in 0..m /\ n = e + (n - e)
      BY <1>9, <2>4, <2>8, <3>1
    <3>3. QED
      BY <3>2
  <2> DEFINE t == SubSeq(s, 1, j)
  <2>10. t \in Seq(Word) /\ Len(t) = j /\ \A i \in 1..j : t[i] = s[i]
    <3>1. \A i \in 1..j : s[i] \in Word
      BY <2>4, <2>9 DEF m
    <3>2. QED
      BY <2>9, <3>1
  <2> HIDE DEF t, j
  <2>11. /\ sp \o t \in Seq(Word) /\ Len(sp \o t) = n
         /\ \A i \in 1..n : (sp \o t)[i] = IF i <= e THEN sp[i] ELSE t[i - e]
    <3>1. /\ sp \o t \in Seq(Word) /\ Len(sp \o t) = Len(sp) + Len(t)
          /\ \A i \in 1..Len(sp) + Len(t) : (sp \o t)[i] = IF i <= Len(sp) THEN sp[i] ELSE t[i - Len(sp)]
      BY <1>5, <2>10, ConcatProperties
    <3>2. QED
      BY <1>5, <2>9, <2>10, <3>1, Zenon
  <2>12. ASSUME NEW i \in 1..n PROVE q[i] = (sp \o t)[i]
    <3> DEFINE l == Serialised(Rest(k + 1))
    <3>1. q = (sp \o s) \o l /\ l \in Seq(Word)
      BY <1>2, <2>2, <2>6
    <3> HIDE DEF l
    <3>2. sp \o s \in Seq(Word) /\ Len(sp \o s) = e + m
      BY <1>5, <2>4, ConcatProperties DEF m
    <3>3. q[i] = (sp \o s)[i]
      <4>1. i \in 1..e + m /\ Len(l) \in Nat
        <5>1. n \in Nat /\ e \in Nat /\ m \in Nat
          BY <1>1, <1>5, <2>4
        <5>2. Len(l) \in Nat
          BY <3>1
        <5>3. QED
          BY <2>8, <5>1, <5>2
      <4>2. \A x \in 1..Len(sp \o s) + Len(l) :
              ((sp \o s) \o l)[x] = IF x <= Len(sp \o s) THEN (sp \o s)[x] ELSE l[x - Len(sp \o s)]
        BY <3>1, <3>2, ConcatProperties
      <4>3. i \in 1..Len(sp \o s) + Len(l) /\ i <= Len(sp \o s)
        <5>1. e + m \in Nat
          BY <1>5, <2>4
        <5> DEFINE y == Len(sp \o s)
        <5>2. y = e + m
          BY <3>2
        <5> HIDE DEF y
        <5>3. i \in 1..y + Len(l) /\ i <= y
          BY <4>1, <5>1, <5>2
        <5>4. QED
          BY <5>3 DEF y
      <4>4. QED
        BY <3>1, <4>2, <4>3, Zenon
    <3>4. (sp \o s)[i] = IF i <= e THEN sp[i] ELSE s[i - e]
      <4>1. i \in 1..Len(sp) + Len(s)
        BY <1>1, <1>5, <2>4, <2>8, SMTT(20) DEF m
      <4>2. (sp \o s)[i] = IF i <= Len(sp) THEN sp[i] ELSE s[i - Len(sp)]
        BY <1>5, <2>4, <4>1, ConcatProperties
      <4>3. QED
        BY <1>5, <4>2, Zenon
    <3>5. CASE i <= e
      BY <2>11, <3>3, <3>4, <3>5
    <3>6. CASE ~(i <= e)
      <4>1. i - e \in 1..j
        BY <1>1, <1>5, <2>9, <3>6 DEF j
      <4>2. QED
        BY <2>10, <2>11, <3>3, <3>4, <3>6, <4>1
    <3>7. QED
      BY <3>5, <3>6
  <2>13. SubSeq(q, 1, n) = sp \o t
    <3>1. \A i \in 1..n : SubSeq(q, 1, n)[i] = (sp \o t)[i]
      BY <1>6, <2>12
    <3>2. QED
      BY <1>6, <2>11, <3>1, SeqEqual
  <2>14. QED
    BY <2>3, <2>9, <2>13 DEF t, s, j
<1>10. QED
  <2>1. SubSeq(q, 1, n) \in Seq(Word)
    BY <1>6
  <2>2. QED
    BY <1>4, <1>5, <1>8, <1>9, <2>1 DEF sp, q, k, e

-----------------------------------------------------------------------------
(* Reading after a torn write *)

(* The reader waits for the rest of a record: it has the words w, and in   *)
(* the second case a header is among them.                                 *)
Waiting(H, w) ==
    H \in RecordHeader /\ H.len = Len(H.fields) + 1 /\ w \in Seq(Word) /\ Len(w) < H.len
Mixed(H, w) == Waiting(H, w) /\ \E i \in 1..Len(w) : w[i] \in HeaderWord

(* It will deliver nothing more, or does already not.                      *)
Lost(r, o) ==
    \/ \E h, w : r = ReaderState(o, h, w, TRUE)
    \/ \E H, w : Mixed(H, w) /\ r = ReaderState(o, <<H>>, w, FALSE)

Stuck(r, o) ==
    \/ Lost(r, o)
    \/ \E H, w : Waiting(H, w) /\ r = ReaderState(o, <<H>>, w, FALSE)

(* The three kinds of words differ.                                        *)
LEMMA WordKinds ==
    ASSUME NEW x \in Word
    PROVE  /\ x \in HeaderWord => DOMAIN x = {"hdr"}
           /\ x \in ValueWord => DOMAIN x = {"value"}
           /\ x \in Checksum => DOMAIN x = {"crc32"} /\ x.crc32 \in Body
           /\ x \in HeaderWord => x \notin ValueWord /\ x \notin Checksum
<1>1. /\ x \in HeaderWord => DOMAIN x = {"hdr"}
      /\ x \in ValueWord => DOMAIN x = {"value"}
      /\ x \in Checksum => DOMAIN x = {"crc32"} /\ x.crc32 \in Body
  BY DEF HeaderWord, ValueWord, Checksum
<1>2. "hdr" \notin {"value"} /\ "hdr" \notin {"crc32"} /\ "hdr" \in {"hdr"}
  OBVIOUS
<1>3. QED
  BY <1>1, <1>2, Zenon

(* A record with a header among its words has the wrong checksum.          *)
LEMMA MixedFails ==
    ASSUME crc, NEW H \in RecordHeader, NEW w \in Seq(Word), Len(w) = H.len, H.len = Len(H.fields) + 1,
           NEW i \in 1..Len(w), w[i] \in HeaderWord
    PROVE  store_flow_deserialise(H, w) = <<>>
<1> DEFINE n == Len(H.fields)
           h == <<[hdr |-> H]>>
           x == SubSeq(w, 1, n)
           b == h \o x
<1>1. n \in Nat /\ H.len = n + 1
  BY DEF RecordHeader
<1>2. w[n + 1] \in Word /\ (\A j \in 1..n : w[j] \in Word) /\ i \in 1..n + 1
  BY <1>1
<1>3. w[n + 1] # [crc32 |-> b]
  <2>1. SUFFICES ASSUME w[n + 1] = [crc32 |-> b] PROVE FALSE
    OBVIOUS
  <2>2. w[n + 1] \in Checksum /\ b \in Body
    <3> HIDE DEF b, n
    <3>1. DOMAIN w[n + 1] = {"crc32"} /\ w[n + 1].crc32 = b
      BY <2>1
    <3>2. "crc32" \notin {"hdr"} /\ "crc32" \notin {"value"} /\ "crc32" \in {"crc32"}
      OBVIOUS
    <3>3. w[n + 1] \in Checksum
      BY <1>2, <3>1, <3>2, WordKinds, Zenon DEF Word
    <3>4. QED
      BY <1>2, <3>1, <3>3, WordKinds
  <2>3. i # n + 1
    BY <1>2, <2>2, WordKinds
  <2>4. i \in 1..n /\ i + 1 \in 2..n + 1
    BY <1>1, <1>2, <2>3
  <2>5. x \in Seq(Word) /\ Len(x) = n /\ \A j \in 1..n : x[j] = w[j]
    BY <1>1, <1>2
  <2>6. h \in Seq(Word) /\ Len(h) = 1
    <3>1. [hdr |-> H] \in Word
      BY DEF Word, HeaderWord
    <3>2. QED
      BY <3>1
  <2> HIDE DEF x, h, n
  <2>7. Len(b) = n + 1 /\ b[i + 1] = w[i]
    <3>1. /\ Len(b) = Len(h) + Len(x)
          /\ \A j \in 1..Len(h) + Len(x) : b[j] = IF j <= Len(h) THEN h[j] ELSE x[j - Len(h)]
      <4>1. \A u, v \in Seq(Word) :
              /\ Len(u \o v) = Len(u) + Len(v)
              /\ \A j \in 1..Len(u) + Len(v) : (u \o v)[j] = IF j <= Len(u) THEN u[j] ELSE v[j - Len(u)]
        BY ConcatProperties
      <4>2. QED
        BY <2>5, <2>6, <4>1, Zenon
    <3> HIDE DEF b
    <3>2. Len(b) = 1 + n /\ \A j \in 1..1 + n : b[j] = IF j <= 1 THEN h[j] ELSE x[j - 1]
      BY <2>5, <2>6, <3>1, Zenon
    <3>3. i + 1 \in 1..1 + n /\ ~(i + 1 <= 1) /\ (i + 1) - 1 = i /\ 1 + n = n + 1
      BY <1>1, <2>4
    <3>4. b[i + 1] = x[i]
      <4>1. b[i + 1] = IF i + 1 <= 1 THEN h[i + 1] ELSE x[(i + 1) - 1]
        BY <3>2, <3>3, Zenon
      <4>2. QED
        BY <3>3, <4>1
    <3>5. QED
      <4>1. Len(b) = n + 1
        BY <3>2, <3>3, Zenon
      <4>2. x[i] = w[i]
        BY <2>4, <2>5, Zenon
      <4>3. QED
        BY <3>4, <4>1, <4>2, Zenon
  <2> HIDE DEF b
  <2>8. w[i] \in ValueWord
    BY <2>2, <2>4, <2>7 DEF Body
  <2>9. w[i] \in Word
    BY <1>2, <2>4
  <2>10. QED
    BY <2>8, <2>9, WordKinds
<1>4. QED
  BY <1>3 DEF store_flow_deserialise

(* One more word leaves a lost reader lost, and a header a waiting one.    *)
LEMMA LostTakes ==
    ASSUME crc, NEW o \in Seq(StoredFlow), NEW r, NEW x \in Word,
           Lost(r, o) \/ (Stuck(r, o) /\ x \in HeaderWord)
    PROVE  Lost(Take(r, x), o)
<1>1. ASSUME NEW h, NEW w, r = ReaderState(o, h, w, TRUE) PROVE Lost(Take(r, x), o)
  <2>1. Take(r, x) = r
    BY <1>1, Takes
  <2>2. QED
    BY <1>1, <2>1 DEF Lost
<1>2. ASSUME NEW H, NEW w, Waiting(H, w), r = ReaderState(o, <<H>>, w, FALSE),
             Mixed(H, w) \/ x \in HeaderWord
      PROVE  Lost(Take(r, x), o)
  <2> DEFINE v == Append(w, x)
  <2>1. /\ H \in RecordHeader /\ H.len = Len(H.fields) + 1 /\ w \in Seq(Word) /\ Len(w) < H.len
        /\ H.len \in Nat /\ Len(w) \in Nat
    BY <1>2 DEF Waiting, RecordHeader
  <2>2. /\ v \in Seq(Word) /\ Len(v) = Len(w) + 1 /\ v[Len(w) + 1] = x
        /\ \A i \in 1..Len(w) : v[i] = w[i]
    BY <2>1, AppendProperties
  <2> HIDE DEF v
  <2>3. PICK i \in 1..Len(v) : v[i] \in HeaderWord
    <3>1. CASE x \in HeaderWord
      <4>1. Len(w) + 1 \in 1..Len(v)
        BY <2>1, <2>2
      <4>2. QED
        BY <2>2, <3>1, <4>1
    <3>2. CASE Mixed(H, w)
      <4>1. PICK i \in 1..Len(w) : w[i] \in HeaderWord
        BY <3>2 DEF Mixed
      <4>2. i \in 1..Len(v)
        BY <2>1, <2>2
      <4>3. QED
        BY <2>2, <4>1, <4>2
    <3>3. QED
      BY <1>2, <3>1, <3>2
  <2>4. CASE Len(v) < H.len
    <3>1. Take(r, x) = ReaderState(o, <<H>>, v, FALSE)
      BY <1>2, <2>1, <2>4, TakesWord DEF v
    <3>2. Mixed(H, v)
      BY <2>1, <2>2, <2>3, <2>4 DEF Mixed, Waiting
    <3>3. QED
      BY <3>1, <3>2 DEF Lost
  <2>5. CASE ~(Len(v) < H.len)
    <3>1. Len(v) = H.len
      BY <2>1, <2>2, <2>5
    <3>2. store_flow_deserialise(H, v) = <<>>
      BY <2>1, <2>2, <2>3, <3>1, MixedFails
    <3>3. Take(r, x) = ReaderState(o \o <<>>, <<>>, w, TRUE)
      BY <1>2, <2>1, <2>5, <3>2, TakesNothing DEF v
    <3>4. o \o <<>> = o
      BY ConcatEmptySeq
    <3>5. Take(r, x) = ReaderState(o, <<>>, w, TRUE)
      BY <3>3, <3>4, Zenon
    <3>6. QED
      BY <3>5 DEF Lost
  <2>6. QED
    BY <2>4, <2>5
<1>3. QED
  <2>1. CASE Lost(r, o)
    BY <1>1, <1>2, <2>1 DEF Lost, Mixed
  <2>2. CASE Stuck(r, o) /\ x \in HeaderWord
    BY <1>1, <1>2, <2>2 DEF Lost, Stuck, Mixed
  <2>3. QED
    BY <2>1, <2>2

(* So a reader that is stuck stays so, whatever records, whole or not, are *)
(* appended to the log.                                                    *)
LEMMA StuckRead ==
    ASSUME crc, NEW o \in Seq(StoredFlow), NEW a \in Seq(Word), NEW x \in Seq(Word),
           Stuck(ReadEnd(a), o), x # <<>> => x[1] \in HeaderWord
    PROVE  Stuck(ReadEnd(a \o x), o)
<1> DEFINE At(j) == a \o SubSeq(x, 1, j)
           P == {j \in Nat : j + 1 \in 1..Len(x) => Lost(ReadEnd(At(j + 1)), o)}
<1>1. Len(x) \in Nat
  OBVIOUS
<1>2. /\ At(0) = a /\ At(Len(x)) = a \o x
      /\ \A j \in 0..Len(x) : At(j) \in Seq(Word)
      /\ \A j \in 0..Len(x) - 1 : At(j + 1) = Append(At(j), x[j + 1])
  <2>1. Grows(Word, a, x)
    BY ConcatGrow
  <2>2. QED
    BY <2>1, Zenon DEF Grows
<1> HIDE DEF At
<1>3. ASSUME NEW j \in 0..Len(x) - 1
      PROVE  x[j + 1] \in Word /\ ReadEnd(At(j + 1)) = Take(ReadEnd(At(j)), x[j + 1])
  <2>1. j \in 0..Len(x) /\ j + 1 \in 1..Len(x)
    BY <1>1
  <2>2. x[j + 1] \in Word /\ At(j) \in Seq(Word) /\ At(j + 1) = Append(At(j), x[j + 1])
    BY <1>2, <2>1
  <2>3. QED
    BY <2>2, ReadAppend
<1>4. 0 \in P
  <2>1. SUFFICES ASSUME 0 + 1 \in 1..Len(x) PROVE Lost(ReadEnd(At(0 + 1)), o)
    OBVIOUS
  <2>2. 0 \in 0..Len(x) - 1 /\ x # <<>> /\ 0 + 1 = 1
    BY <1>1, <2>1
  <2>3. x[0 + 1] \in Word /\ ReadEnd(At(0 + 1)) = Take(ReadEnd(At(0)), x[0 + 1])
    BY <1>3, <2>2, Zenon
  <2>4. x[0 + 1] \in HeaderWord
    BY <2>2
  <2>5. QED
    BY <1>2, <2>3, <2>4, LostTakes, Zenon
<1>5. ASSUME NEW j \in P PROVE j + 1 \in P
  <2>1. SUFFICES ASSUME (j + 1) + 1 \in 1..Len(x) PROVE Lost(ReadEnd(At((j + 1) + 1)), o)
    OBVIOUS
  <2>2. j \in Nat /\ j + 1 \in 0..Len(x) - 1 /\ j + 1 \in 1..Len(x)
    BY <1>1, <2>1
  <2>3. Lost(ReadEnd(At(j + 1)), o)
    BY <2>2
  <2>4. x[(j + 1) + 1] \in Word /\ ReadEnd(At((j + 1) + 1)) = Take(ReadEnd(At(j + 1)), x[(j + 1) + 1])
    BY <1>3, <2>2, Zenon
  <2>5. QED
    BY <2>3, <2>4, LostTakes, Zenon
<1>6. P = Nat
  <2>1. P \subseteq Nat /\ \A j \in P : j + 1 \in P
    BY <1>5
  <2> HIDE DEF P
  <2>2. QED
    BY <1>4, <2>1, NatInduct
<1>7. CASE x = <<>>
  <2>1. a \o x = a
    BY <1>7, ConcatEmptySeq
  <2>2. QED
    BY <2>1
<1>8. CASE x # <<>>
  <2>1. Len(x) - 1 \in Nat /\ (Len(x) - 1) + 1 = Len(x) /\ Len(x) \in 1..Len(x)
    BY <1>1, <1>8
  <2>2. Len(x) - 1 \in P
    BY <1>6, <2>1
  <2>3. Lost(ReadEnd(At(Len(x))), o)
    BY <2>1, <2>2
  <2>4. QED
    BY <1>2, <2>3 DEF Stuck
<1>9. QED
  BY <1>7, <1>8

-----------------------------------------------------------------------------
(* The functions that the datagrams and the search are *)

PackStart == [out |-> <<>>, recs |-> <<>>, hdr |-> <<>>]
SearchStart == [last |-> <<>>, stop |-> FALSE]

(* The states of the packing of versions 1 and 5.                          *)
LEMMA PackingIs ==
    ASSUME NEW X, NEW c, c.flows \in Seq(X)
    PROVE  /\ Packing(c)[0] = PackStart
           /\ \A i \in 1..Len(c.flows) : Packing(c)[i] = PackFlow(Packing(c)[i - 1], c.flows[i], c)
<1> DEFINE n == Len(c.flows)
           next(x, i) == PackFlow(x, c.flows[i], c)
           Step(f) == [i \in 0..n |-> IF i = 0 THEN PackStart ELSE next(f[i - 1], i)]
           w == CHOOSE f : f = Step(f)
           Fits(f, k) == f[0] = PackStart /\ \A i \in 1..k : f[i] = next(f[i - 1], i)
           P == {k \in Nat : \E f : Fits(f, k)}
<1>1. Packing(c) = w
  BY DEF Packing, PackStart
<1>2. n \in Nat
  OBVIOUS
<1> HIDE DEF n, next
<1>3. 0 \in P
  <2>1. Fits([i \in {0} |-> PackStart], 0)
    OBVIOUS
  <2>2. \E f : Fits(f, 0)
    <3> HIDE DEF Fits
    <3>1. QED
      BY <2>1
  <2> HIDE DEF Fits
  <2>3. QED
    BY <2>2
<1>4. ASSUME NEW k \in P PROVE k + 1 \in P
  <2>1. k \in Nat /\ \E f : Fits(f, k)
    OBVIOUS
  <2>2. PICK f : Fits(f, k)
    BY <2>1
  <2> DEFINE g == [i \in 0..k + 1 |-> IF i = k + 1 THEN next(f[k], k + 1) ELSE f[i]]
  <2>3. g[0] = PackStart
    BY <2>1, <2>2
  <2>4. ASSUME NEW i \in 1..k + 1 PROVE g[i] = next(g[i - 1], i)
    <3>1. i - 1 \in 0..k /\ i - 1 # k + 1
      BY <2>1
    <3>2. g[i - 1] = f[i - 1]
      BY <2>1, <3>1
    <3>3. CASE i = k + 1
      <4>1. g[i] = next(f[k], k + 1) /\ i - 1 = k
        BY <2>1, <3>3
      <4>2. QED
        BY <3>2, <3>3, <4>1
    <3>4. CASE i # k + 1
      <4>1. i \in 1..k
        BY <2>1, <3>4
      <4>2. g[i] = f[i] /\ f[i] = next(f[i - 1], i)
        BY <2>1, <2>2, <3>4, <4>1
      <4>3. QED
        BY <3>2, <4>2
    <3>5. QED
      BY <3>3, <3>4
  <2>5. Fits(g, k + 1)
    BY <2>3, <2>4
  <2>6. \E e : Fits(e, k + 1)
    <3> HIDE DEF g, Fits
    <3>1. QED
      BY <2>5
  <2>7. QED
    <3>1. k + 1 \in Nat
      BY <2>1
    <3> HIDE DEF Fits
    <3>2. QED
      BY <2>6, <3>1
<1>5. P = Nat
  <2>1. P \subseteq Nat /\ \A k \in P : k + 1 \in P
    BY <1>4
  <2> HIDE DEF P
  <2>2. QED
    BY <1>3, <2>1, NatInduct
<1>6. PICK f : Fits(f, n)
  <2>1. n \in P
    <3> HIDE DEF P
    <3>1. QED
      BY <1>2, <1>5
  <2>2. QED
    BY <2>1
<1>7. \E g : g = Step(g)
  <2> DEFINE g == [i \in 0..n |-> f[i]]
  <2>1. ASSUME NEW i \in 0..n PROVE g[i] = IF i = 0 THEN PackStart ELSE next(g[i - 1], i)
    <3>1. CASE i = 0
      BY <1>6, <3>1
    <3>2. CASE i # 0
      <4>1. i \in 1..n /\ i - 1 \in 0..n
        BY <1>2, <3>2
      <4>2. g[i - 1] = f[i - 1] /\ g[i] = f[i] /\ f[i] = next(f[i - 1], i)
        BY <1>6, <4>1
      <4>3. QED
        BY <3>2, <4>2
    <3>3. QED
      BY <3>1, <3>2
  <2>2. g = [i \in 0..n |-> g[i]]
    OBVIOUS
  <2> HIDE DEF g
  <2> DEFINE e(i) == IF i = 0 THEN PackStart ELSE next(g[i - 1], i)
  <2>3. \A i \in 0..n : g[i] = e(i)
    BY <2>1
  <2>4. Step(g) = [i \in 0..n |-> e(i)]
    OBVIOUS
  <2> HIDE DEF e, Step
  <2>5. [i \in 0..n |-> g[i]] = [i \in 0..n |-> e(i)]
    BY <2>3
  <2>6. g = Step(g)
    BY <2>2, <2>4, <2>5, Zenon
  <2>7. QED
    BY <2>6
<1>8. w = Step(w)
  BY <1>7
<1> HIDE DEF w
<1>9. w[0] = PackStart
  BY <1>2, <1>8
<1>10. ASSUME NEW i \in 1..n PROVE w[i] = next(w[i - 1], i)
  <2>1. i \in 0..n /\ i # 0
    BY <1>2
  <2>2. QED
    BY <1>8, <2>1
<1>11. QED
  BY <1>1, <1>9, <1>10 DEF n, next

(* The states of the packing of version 9.                                 *)
LEMMA Packing9Is ==
    ASSUME NEW X, NEW c, c.flows \in Seq(X)
    PROVE  /\ Packing9(c)[0] = NF9Start
           /\ \A i \in 1..Len(c.flows) : Packing9(c)[i] = NF9Flow(Packing9(c)[i - 1], c.flows[i])
<1> DEFINE n == Len(c.flows)
           next(x, i) == NF9Flow(x, c.flows[i])
           Step(f) == [i \in 0..n |-> IF i = 0 THEN NF9Start ELSE next(f[i - 1], i)]
           w == CHOOSE f : f = Step(f)
           Fits(f, k) == f[0] = NF9Start /\ \A i \in 1..k : f[i] = next(f[i - 1], i)
           P == {k \in Nat : \E f : Fits(f, k)}
<1>1. Packing9(c) = w
  BY DEF Packing9
<1>2. n \in Nat
  OBVIOUS
<1> HIDE DEF n, next
<1>3. 0 \in P
  <2>1. Fits([i \in {0} |-> NF9Start], 0)
    OBVIOUS
  <2>2. \E f : Fits(f, 0)
    <3> HIDE DEF Fits
    <3>1. QED
      BY <2>1
  <2> HIDE DEF Fits
  <2>3. QED
    BY <2>2
<1>4. ASSUME NEW k \in P PROVE k + 1 \in P
  <2>1. k \in Nat /\ \E f : Fits(f, k)
    OBVIOUS
  <2>2. PICK f : Fits(f, k)
    BY <2>1
  <2> DEFINE g == [i \in 0..k + 1 |-> IF i = k + 1 THEN next(f[k], k + 1) ELSE f[i]]
  <2>3. g[0] = NF9Start
    BY <2>1, <2>2
  <2>4. ASSUME NEW i \in 1..k + 1 PROVE g[i] = next(g[i - 1], i)
    <3>1. i - 1 \in 0..k /\ i - 1 # k + 1
      BY <2>1
    <3>2. g[i - 1] = f[i - 1]
      BY <2>1, <3>1
    <3>3. CASE i = k + 1
      <4>1. g[i] = next(f[k], k + 1) /\ i - 1 = k
        BY <2>1, <3>3
      <4>2. QED
        BY <3>2, <3>3, <4>1
    <3>4. CASE i # k + 1
      <4>1. i \in 1..k
        BY <2>1, <3>4
      <4>2. g[i] = f[i] /\ f[i] = next(f[i - 1], i)
        BY <2>1, <2>2, <3>4, <4>1
      <4>3. QED
        BY <3>2, <4>2
    <3>5. QED
      BY <3>3, <3>4
  <2>5. Fits(g, k + 1)
    BY <2>3, <2>4
  <2>6. \E e : Fits(e, k + 1)
    <3> HIDE DEF g, Fits
    <3>1. QED
      BY <2>5
  <2>7. QED
    <3>1. k + 1 \in Nat
      BY <2>1
    <3> HIDE DEF Fits
    <3>2. QED
      BY <2>6, <3>1
<1>5. P = Nat
  <2>1. P \subseteq Nat /\ \A k \in P : k + 1 \in P
    BY <1>4
  <2> HIDE DEF P
  <2>2. QED
    BY <1>3, <2>1, NatInduct
<1>6. PICK f : Fits(f, n)
  <2>1. n \in P
    <3> HIDE DEF P
    <3>1. QED
      BY <1>2, <1>5
  <2>2. QED
    BY <2>1
<1>7. \E g : g = Step(g)
  <2> DEFINE g == [i \in 0..n |-> f[i]]
  <2>1. ASSUME NEW i \in 0..n PROVE g[i] = IF i = 0 THEN NF9Start ELSE next(g[i - 1], i)
    <3>1. CASE i = 0
      BY <1>6, <3>1
    <3>2. CASE i # 0
      <4>1. i \in 1..n /\ i - 1 \in 0..n
        BY <1>2, <3>2
      <4>2. g[i - 1] = f[i - 1] /\ g[i] = f[i] /\ f[i] = next(f[i - 1], i)
        BY <1>6, <4>1
      <4>3. QED
        BY <3>2, <4>2
    <3>3. QED
      BY <3>1, <3>2
  <2>2. g = [i \in 0..n |-> g[i]]
    OBVIOUS
  <2> HIDE DEF g
  <2> DEFINE e(i) == IF i = 0 THEN NF9Start ELSE next(g[i - 1], i)
  <2>3. \A i \in 0..n : g[i] = e(i)
    BY <2>1
  <2>4. Step(g) = [i \in 0..n |-> e(i)]
    OBVIOUS
  <2> HIDE DEF e, Step
  <2>5. [i \in 0..n |-> g[i]] = [i \in 0..n |-> e(i)]
    BY <2>3
  <2>6. g = Step(g)
    BY <2>2, <2>4, <2>5, Zenon
  <2>7. QED
    BY <2>6
<1>8. w = Step(w)
  BY <1>7
<1> HIDE DEF w
<1>9. w[0] = NF9Start
  BY <1>2, <1>8
<1>10. ASSUME NEW i \in 1..n PROVE w[i] = next(w[i - 1], i)
  <2>1. i \in 0..n /\ i # 0
    BY <1>2
  <2>2. QED
    BY <1>8, <2>1
<1>11. QED
  BY <1>1, <1>9, <1>10 DEF n, next

(* The states of the search of the filter.                                 *)
LEMMA SearchIs ==
    ASSUME NEW X, filter_list \in Seq(X), NEW flow
    PROVE  /\ Search(flow)[0] = SearchStart
           /\ \A i \in 1..Len(filter_list) : Search(flow)[i] = Try(Search(flow)[i - 1], filter_list[i], flow)
<1> DEFINE n == Len(filter_list)
           next(x, i) == Try(x, filter_list[i], flow)
           Step(f) == [i \in 0..n |-> IF i = 0 THEN SearchStart ELSE next(f[i - 1], i)]
           w == CHOOSE f : f = Step(f)
           Fits(f, k) == f[0] = SearchStart /\ \A i \in 1..k : f[i] = next(f[i - 1], i)
           P == {k \in Nat : \E f : Fits(f, k)}
<1>1. Search(flow) = w
  BY DEF Search, SearchStart
<1>2. n \in Nat
  OBVIOUS
<1> HIDE DEF n, next
<1>3. 0 \in P
  <2>1. Fits([i \in {0} |-> SearchStart], 0)
    OBVIOUS
  <2>2. \E f : Fits(f, 0)
    <3> HIDE DEF Fits
    <3>1. QED
      BY <2>1
  <2> HIDE DEF Fits
  <2>3. QED
    BY <2>2
<1>4. ASSUME NEW k \in P PROVE k + 1 \in P
  <2>1. k \in Nat /\ \E f : Fits(f, k)
    OBVIOUS
  <2>2. PICK f : Fits(f, k)
    BY <2>1
  <2> DEFINE g == [i \in 0..k + 1 |-> IF i = k + 1 THEN next(f[k], k + 1) ELSE f[i]]
  <2>3. g[0] = SearchStart
    BY <2>1, <2>2
  <2>4. ASSUME NEW i \in 1..k + 1 PROVE g[i] = next(g[i - 1], i)
    <3>1. i - 1 \in 0..k /\ i - 1 # k + 1
      BY <2>1
    <3>2. g[i - 1] = f[i - 1]
      BY <2>1, <3>1
    <3>3. CASE i = k + 1
      <4>1. g[i] = next(f[k], k + 1) /\ i - 1 = k
        BY <2>1, <3>3
      <4>2. QED
        BY <3>2, <3>3, <4>1
    <3>4. CASE i # k + 1
      <4>1. i \in 1..k
        BY <2>1, <3>4
      <4>2. g[i] = f[i] /\ f[i] = next(f[i - 1], i)
        BY <2>1, <2>2, <3>4, <4>1
      <4>3. QED
        BY <3>2, <4>2
    <3>5. QED
      BY <3>3, <3>4
  <2>5. Fits(g, k + 1)
    BY <2>3, <2>4
  <2>6. \E e : Fits(e, k + 1)
    <3> HIDE DEF g, Fits
    <3>1. QED
      BY <2>5
  <2>7. QED
    <3>1. k + 1 \in Nat
      BY <2>1
    <3> HIDE DEF Fits
    <3>2. QED
      BY <2>6, <3>1
<1>5. P = Nat
  <2>1. P \subseteq Nat /\ \A k \in P : k + 1 \in P
    BY <1>4
  <2> HIDE DEF P
  <2>2. QED
    BY <1>3, <2>1, NatInduct
<1>6. PICK f : Fits(f, n)
  <2>1. n \in P
    <3> HIDE DEF P
    <3>1. QED
      BY <1>2, <1>5
  <2>2. QED
    BY <2>1
<1>7. \E g : g = Step(g)
  <2> DEFINE g == [i \in 0..n |-> f[i]]
  <2>1. ASSUME NEW i \in 0..n PROVE g[i] = IF i = 0 THEN SearchStart ELSE next(g[i - 1], i)
    <3>1. CASE i = 0
      BY <1>6, <3>1
    <3>2. CASE i # 0
      <4>1. i \in 1..n /\ i - 1 \in 0..n
        BY <1>2, <3>2
      <4>2. g[i - 1] = f[i - 1] /\ g[i] = f[i] /\ f[i] = next(f[i - 1], i)
        BY <1>6, <4>1
      <4>3. QED
        BY <3>2, <4>2
    <3>3. QED
      BY <3>1, <3>2
  <2>2. g = [i \in 0..n |-> g[i]]
    OBVIOUS
  <2> HIDE DEF g
  <2> DEFINE e(i) == IF i = 0 THEN SearchStart ELSE next(g[i - 1], i)
  <2>3. \A i \in 0..n : g[i] = e(i)
    BY <2>1
  <2>4. Step(g) = [i \in 0..n |-> e(i)]
    OBVIOUS
  <2> HIDE DEF e, Step
  <2>5. [i \in 0..n |-> g[i]] = [i \in 0..n |-> e(i)]
    BY <2>3
  <2>6. g = Step(g)
    BY <2>2, <2>4, <2>5, Zenon
  <2>7. QED
    BY <2>6
<1>8. w = Step(w)
  BY <1>7
<1> HIDE DEF w
<1>9. w[0] = SearchStart
  BY <1>2, <1>8
<1>10. ASSUME NEW i \in 1..n PROVE w[i] = next(w[i - 1], i)
  <2>1. i \in 0..n /\ i # 0
    BY <1>2
  <2>2. QED
    BY <1>8, <2>1
<1>11. QED
  BY <1>1, <1>9, <1>10 DEF n, next

(* The records of the first datagrams of a sequence.                       *)
LEMMA CountsIs ==
    ASSUME NEW X, NEW ds \in Seq(X)
    PROVE  /\ Counts(ds)[0] = 0
           /\ \A i \in 1..Len(ds) : Counts(ds)[i] = Counts(ds)[i - 1] + Len(ds[i].recs)
<1> DEFINE n == Len(ds)
           next(x, i) == x + Len(ds[i].recs)
           Step(f) == [i \in 0..n |-> IF i = 0 THEN 0 ELSE next(f[i - 1], i)]
           w == CHOOSE f : f = Step(f)
           Fits(f, k) == f[0] = 0 /\ \A i \in 1..k : f[i] = next(f[i - 1], i)
           P == {k \in Nat : \E f : Fits(f, k)}
<1>1. Counts(ds) = w
  BY DEF Counts
<1>2. n \in Nat
  OBVIOUS
<1> HIDE DEF n, next
<1>3. 0 \in P
  <2>1. Fits([i \in {0} |-> 0], 0)
    OBVIOUS
  <2>2. \E f : Fits(f, 0)
    <3> HIDE DEF Fits
    <3>1. QED
      BY <2>1
  <2> HIDE DEF Fits
  <2>3. QED
    BY <2>2
<1>4. ASSUME NEW k \in P PROVE k + 1 \in P
  <2>1. k \in Nat /\ \E f : Fits(f, k)
    OBVIOUS
  <2>2. PICK f : Fits(f, k)
    BY <2>1
  <2> DEFINE g == [i \in 0..k + 1 |-> IF i = k + 1 THEN next(f[k], k + 1) ELSE f[i]]
  <2>3. g[0] = 0
    BY <2>1, <2>2
  <2>4. ASSUME NEW i \in 1..k + 1 PROVE g[i] = next(g[i - 1], i)
    <3>1. i - 1 \in 0..k /\ i - 1 # k + 1
      BY <2>1
    <3>2. g[i - 1] = f[i - 1]
      BY <2>1, <3>1
    <3>3. CASE i = k + 1
      <4>1. g[i] = next(f[k], k + 1) /\ i - 1 = k
        BY <2>1, <3>3
      <4>2. QED
        BY <3>2, <3>3, <4>1
    <3>4. CASE i # k + 1
      <4>1. i \in 1..k
        BY <2>1, <3>4
      <4>2. g[i] = f[i] /\ f[i] = next(f[i - 1], i)
        BY <2>1, <2>2, <3>4, <4>1
      <4>3. QED
        BY <3>2, <4>2
    <3>5. QED
      BY <3>3, <3>4
  <2>5. Fits(g, k + 1)
    BY <2>3, <2>4
  <2>6. \E e : Fits(e, k + 1)
    <3> HIDE DEF g, Fits
    <3>1. QED
      BY <2>5
  <2>7. QED
    <3>1. k + 1 \in Nat
      BY <2>1
    <3> HIDE DEF Fits
    <3>2. QED
      BY <2>6, <3>1
<1>5. P = Nat
  <2>1. P \subseteq Nat /\ \A k \in P : k + 1 \in P
    BY <1>4
  <2> HIDE DEF P
  <2>2. QED
    BY <1>3, <2>1, NatInduct
<1>6. PICK f : Fits(f, n)
  <2>1. n \in P
    <3> HIDE DEF P
    <3>1. QED
      BY <1>2, <1>5
  <2>2. QED
    BY <2>1
<1>7. \E g : g = Step(g)
  <2> DEFINE g == [i \in 0..n |-> f[i]]
  <2>1. ASSUME NEW i \in 0..n PROVE g[i] = IF i = 0 THEN 0 ELSE next(g[i - 1], i)
    <3>1. CASE i = 0
      BY <1>6, <3>1
    <3>2. CASE i # 0
      <4>1. i \in 1..n /\ i - 1 \in 0..n
        BY <1>2, <3>2
      <4>2. g[i - 1] = f[i - 1] /\ g[i] = f[i] /\ f[i] = next(f[i - 1], i)
        BY <1>6, <4>1
      <4>3. QED
        BY <3>2, <4>2
    <3>3. QED
      BY <3>1, <3>2
  <2>2. g = [i \in 0..n |-> g[i]]
    OBVIOUS
  <2> HIDE DEF g
  <2> DEFINE e(i) == IF i = 0 THEN 0 ELSE next(g[i - 1], i)
  <2>3. \A i \in 0..n : g[i] = e(i)
    BY <2>1
  <2>4. Step(g) = [i \in 0..n |-> e(i)]
    OBVIOUS
  <2> HIDE DEF e, Step
  <2>5. [i \in 0..n |-> g[i]] = [i \in 0..n |-> e(i)]
    BY <2>3
  <2>6. g = Step(g)
    BY <2>2, <2>4, <2>5, Zenon
  <2>7. QED
    BY <2>6
<1>8. w = Step(w)
  BY <1>7
<1> HIDE DEF w
<1>9. w[0] = 0
  BY <1>2, <1>8
<1>10. ASSUME NEW i \in 1..n PROVE w[i] = next(w[i - 1], i)
  <2>1. i \in 0..n /\ i # 0
    BY <1>2
  <2>2. QED
    BY <1>8, <2>1
<1>11. QED
  BY <1>1, <1>9, <1>10 DEF n, next

-----------------------------------------------------------------------------
(* What is in datagrams *)

Rec == [src : Nat, dst : Nat]
Datagram5 == [seq : Nat, monitor : Nat, recs : Seq(Rec)]
Datagram9 == [seq : Nat, monitor : Nat, recs : Seq(Rec), bytes : Int, until : Int]
Datagram == Datagram5 \cup Datagram9

(* Counting the records.                                                   *)
LEMMA CountAppend ==
    ASSUME NEW ds \in Seq(Datagram), NEW d \in Datagram
    PROVE  /\ RecordsIn(ds) \in Nat /\ Len(d.recs) \in Nat
           /\ RecordsIn(Append(ds, d)) = RecordsIn(ds) + Len(d.recs)
<1> DEFINE n == Len(ds)
           more == Append(ds, d)
           r == Counts(ds)
           t == Counts(more)
<1>1. n \in Nat
  OBVIOUS
<1>2. \A e \in Datagram : Len(e.recs) \in Nat
  <2>1. \A e \in Datagram : e.recs \in Seq(Rec)
    BY DEF Datagram, Datagram5, Datagram9
  <2>2. QED
    BY <2>1
<1>3. /\ more \in Seq(Datagram) /\ Len(more) = n + 1
      /\ \A i \in 1..n : more[i] = ds[i]
      /\ more[n + 1] = d
  BY AppendProperties
<1> HIDE DEF more
<1>4. r[0] = 0 /\ \A i \in 1..n : r[i] = r[i - 1] + Len(ds[i].recs)
  BY CountsIs
<1>5. t[0] = 0 /\ \A i \in 1..Len(more) : t[i] = t[i - 1] + Len(more[i].recs)
  BY <1>3, CountsIs
<1>6. \A i \in 1..n : ds[i] \in Datagram
  OBVIOUS
<1> HIDE DEF n, r, t
<1> DEFINE P == {i \in Nat : i \in 0..n => t[i] = r[i] /\ r[i] \in Nat}
<1>7. 0 \in P
  BY <1>4, <1>5
<1>8. ASSUME NEW i \in P PROVE i + 1 \in P
  <2>1. SUFFICES ASSUME i + 1 \in 0..n PROVE t[i + 1] = r[i + 1] /\ r[i + 1] \in Nat
    OBVIOUS
  <2>2. i + 1 \in 1..n /\ i + 1 \in 1..n + 1 /\ i \in 0..n /\ (i + 1) - 1 = i
    BY <1>1, <2>1
  <2>3. t[i + 1] = t[i] + Len(more[i + 1].recs) /\ r[i + 1] = r[i] + Len(ds[i + 1].recs)
    BY <1>3, <1>4, <1>5, <2>2
  <2>4. t[i] = r[i] /\ r[i] \in Nat /\ more[i + 1] = ds[i + 1] /\ Len(ds[i + 1].recs) \in Nat
    BY <1>2, <1>3, <1>6, <2>2
  <2>5. QED
    BY <2>3, <2>4
<1>9. P = Nat
  <2>1. P \subseteq Nat /\ \A i \in P : i + 1 \in P
    BY <1>8
  <2> HIDE DEF P
  <2>2. QED
    BY <1>7, <2>1, NatInduct
<1>10. t[n] = r[n] /\ r[n] \in Nat
  <2>1. n \in P /\ n \in 0..n
    <3> HIDE DEF P
    <3>1. QED
      BY <1>1, <1>9
  <2>2. QED
    BY <2>1
<1>11. t[n + 1] = t[n] + Len(d.recs)
  <2>1. n + 1 \in 1..n + 1 /\ (n + 1) - 1 = n
    BY <1>1
  <2>2. QED
    BY <1>3, <1>5, <2>1
<1>12. QED
  BY <1>2, <1>3, <1>10, <1>11 DEF RecordsIn, more, n, r, t

(* No datagrams, no records.                                               *)
LEMMA CountEmpty == RecordsIn(<<>>) = 0
<1>1. <<>> \in Seq(Datagram) /\ Len(<<>>) = 0
  OBVIOUS
<1>2. Counts(<<>>)[0] = 0
  BY <1>1, CountsIs
<1>3. QED
  BY <1>1, <1>2 DEF RecordsIn

(* The records of one sequence after the other.                            *)
LEMMA CountConcat ==
    ASSUME NEW a \in Seq(Datagram), NEW b \in Seq(Datagram)
    PROVE  RecordsIn(a \o b) = RecordsIn(a) + RecordsIn(b)
<1> DEFINE At(j) == a \o SubSeq(b, 1, j)
           To(j) == <<>> \o SubSeq(b, 1, j)
           P == {j \in Nat : j \in 0..Len(b) => RecordsIn(At(j)) = RecordsIn(a) + RecordsIn(To(j))}
<1>1. Len(b) \in Nat /\ <<>> \in Seq(Datagram)
  OBVIOUS
<1>2. RecordsIn(a) \in Nat
  <2>1. PICK d : d \in Datagram
    <3>1. [seq |-> 0, monitor |-> 0, recs |-> <<>>] \in Datagram
      BY DEF Datagram, Datagram5
    <3>2. QED
      BY <3>1
  <2>2. QED
    BY <2>1, CountAppend
<1>3. /\ At(0) = a /\ At(Len(b)) = a \o b
      /\ \A j \in 0..Len(b) : At(j) \in Seq(Datagram)
      /\ \A j \in 0..Len(b) - 1 : At(j + 1) = Append(At(j), b[j + 1])
  <2>1. Grows(Datagram, a, b)
    BY ConcatGrow
  <2>2. QED
    BY <2>1, Zenon DEF Grows
<1>4. /\ To(0) = <<>> /\ To(Len(b)) = <<>> \o b
      /\ \A j \in 0..Len(b) : To(j) \in Seq(Datagram)
      /\ \A j \in 0..Len(b) - 1 : To(j + 1) = Append(To(j), b[j + 1])
  <2>1. Grows(Datagram, <<>>, b)
    BY <1>1, ConcatGrow
  <2>2. QED
    BY <2>1, Zenon DEF Grows
<1> HIDE DEF At, To
<1>5. 0 \in P
  BY <1>2, <1>3, <1>4, CountEmpty
<1>6. ASSUME NEW j \in P PROVE j + 1 \in P
  <2>1. SUFFICES ASSUME j + 1 \in 0..Len(b)
                 PROVE  RecordsIn(At(j + 1)) = RecordsIn(a) + RecordsIn(To(j + 1))
    OBVIOUS
  <2>2. j \in Nat /\ j \in 0..Len(b) /\ j \in 0..Len(b) - 1 /\ j + 1 \in 1..Len(b)
    BY <1>1, <2>1
  <2>3. b[j + 1] \in Datagram
    BY <2>2
  <2>4. /\ RecordsIn(At(j + 1)) = RecordsIn(At(j)) + Len(b[j + 1].recs)
        /\ RecordsIn(At(j)) \in Nat /\ Len(b[j + 1].recs) \in Nat
    <3>1. At(j) \in Seq(Datagram) /\ At(j + 1) = Append(At(j), b[j + 1])
      BY <1>3, <2>2
    <3>2. QED
      BY <2>3, <3>1, CountAppend
  <2>5. RecordsIn(To(j + 1)) = RecordsIn(To(j)) + Len(b[j + 1].recs) /\ RecordsIn(To(j)) \in Nat
    <3>1. To(j) \in Seq(Datagram) /\ To(j + 1) = Append(To(j), b[j + 1])
      BY <1>4, <2>2
    <3>2. QED
      BY <2>3, <3>1, CountAppend
  <2>6. RecordsIn(At(j)) = RecordsIn(a) + RecordsIn(To(j))
    BY <2>2
  <2>7. QED
    BY <1>2, <2>4, <2>5, <2>6
<1>7. P = Nat
  <2>1. P \subseteq Nat /\ \A j \in P : j + 1 \in P
    BY <1>6
  <2> HIDE DEF P
  <2>2. QED
    BY <1>5, <2>1, NatInduct
<1>8. RecordsIn(At(Len(b))) = RecordsIn(a) + RecordsIn(To(Len(b)))
  <2>1. Len(b) \in P /\ Len(b) \in 0..Len(b)
    <3> HIDE DEF P
    <3>1. QED
      BY <1>1, <1>7
  <2>2. QED
    BY <2>1
<1>9. <<>> \o b = b
  BY ConcatEmptySeq
<1>10. QED
  BY <1>3, <1>4, <1>8, <1>9, Zenon

(* The records themselves, and those that are due for the first flows.     *)
RecsOf(g) == FlattenSeq([k \in 1 .. Len(g) |-> g[k].recs])
DueTo(c, i) == FlattenSeq([k \in 1 .. i |-> Records(c.flows[k], c)])

(* Flattening one more sequence.                                           *)
LEMMA FlattenAppend ==
    ASSUME NEW X, NEW ss \in Seq(Seq(X)), NEW x \in Seq(X)
    PROVE  FlattenSeq(Append(ss, x)) = FlattenSeq(ss) \o x
<1>1. <<x>> \in Seq(Seq(X)) /\ Append(ss, x) = ss \o <<x>>
  BY AppendIsConcat
<1>2. FlattenSeq(ss \o <<x>>) = FlattenSeq(ss) \o FlattenSeq(<<x>>)
  BY <1>1, FlattenConcat
<1>3. FlattenSeq(<<x>>) = x
  BY FlattenFew
<1>4. QED
  BY <1>1, <1>2, <1>3, Zenon

(* The records of one more datagram.                                       *)
LEMMA RecsOfAppend ==
    ASSUME NEW g \in Seq(Datagram), NEW d \in Datagram
    PROVE  /\ RecsOf(g) \in Seq(Rec) /\ d.recs \in Seq(Rec)
           /\ RecsOf(Append(g, d)) = RecsOf(g) \o d.recs
<1> DEFINE M(a) == [k \in 1 .. Len(a) |-> a[k].recs]
           h == Append(g, d)
<1>1. \A e \in Datagram : e.recs \in Seq(Rec)
  BY DEF Datagram, Datagram5, Datagram9
<1>2. ASSUME NEW a \in Seq(Datagram)
      PROVE  M(a) \in Seq(Seq(Rec)) /\ Len(M(a)) = Len(a) /\ \A k \in 1..Len(a) : M(a)[k] = a[k].recs
  <2>1. \A k \in 1..Len(a) : a[k].recs \in Seq(Rec)
    BY <1>1
  <2>2. M(a) \in [1..Len(a) -> Seq(Rec)] /\ \A k \in 1..Len(a) : M(a)[k] = a[k].recs
    BY <2>1
  <2>3. Len(a) \in Nat
    OBVIOUS
  <2> HIDE DEF M
  <2>4. QED
    BY <2>2, <2>3
<1>3. /\ h \in Seq(Datagram) /\ Len(h) = Len(g) + 1
      /\ \A i \in 1..Len(g) : h[i] = g[i]
      /\ h[Len(g) + 1] = d
  BY AppendProperties
<1> HIDE DEF h
<1> DEFINE mg == M(g)
           mh == M(h)
<1>4. mg \in Seq(Seq(Rec)) /\ Len(mg) = Len(g) /\ \A k \in 1..Len(g) : mg[k] = g[k].recs
  BY <1>2
<1>5. mh \in Seq(Seq(Rec)) /\ Len(mh) = Len(h) /\ \A k \in 1..Len(h) : mh[k] = h[k].recs
  BY <1>2, <1>3
<1>6. RecsOf(g) = FlattenSeq(mg) /\ RecsOf(h) = FlattenSeq(mh) /\ Len(g) \in Nat
  BY DEF RecsOf
<1> HIDE DEF mg, mh, M
<1>7. mh = Append(mg, d.recs)
  <2>1. d.recs \in Seq(Rec)
    BY <1>1
  <2> DEFINE ma == Append(mg, d.recs)
  <2>2. /\ ma \in Seq(Seq(Rec)) /\ Len(ma) = Len(mg) + 1
        /\ \A i \in 1..Len(mg) : ma[i] = mg[i]
        /\ ma[Len(mg) + 1] = d.recs
    BY <1>4, <2>1, AppendProperties
  <2> HIDE DEF ma
  <2>3. ASSUME NEW i \in 1..Len(g) + 1 PROVE mh[i] = ma[i]
    <3>1. CASE i = Len(g) + 1
      BY <1>3, <1>4, <1>5, <2>2, <3>1
    <3>2. CASE i # Len(g) + 1
      <4>1. i \in 1..Len(g)
        BY <1>6, <3>2
      <4>2. QED
        BY <1>3, <1>4, <1>5, <2>2, <4>1
    <3>3. QED
      BY <3>1, <3>2
  <2>4. Len(mh) = Len(ma) /\ \A i \in 1..Len(mh) : mh[i] = ma[i]
    BY <1>3, <1>4, <1>5, <2>2, <2>3
  <2>5. mh = ma
    BY <1>5, <2>2, <2>4, SeqEqual
  <2>6. QED
    BY <2>5 DEF ma
<1>8. FlattenSeq(Append(mg, d.recs)) = FlattenSeq(mg) \o d.recs
  BY <1>1, <1>4, FlattenAppend
<1>9. FlattenSeq(mg) \in Seq(Rec)
  BY <1>4, FlattenFew
<1>10. QED
  BY <1>1, <1>6, <1>7, <1>8, <1>9 DEF h

(* No datagrams, no records to flatten.                                    *)
LEMMA RecsOfEmpty == RecsOf(<<>>) = <<>>
<1>1. [k \in 1 .. Len(<<>>) |-> <<>>[k].recs] = <<>>
  OBVIOUS
<1>2. QED
  BY <1>1, FlattenFew DEF RecsOf

-----------------------------------------------------------------------------
(* The records of a call *)

(* The calls that check_expired makes.                                     *)
Call == [flows : Seq(Flows), monitor : Nat, inOut : -1 .. 1]
CallOK(c) ==
    /\ c \in Call
    /\ using_emulator = 0 => c.monitor = 0 /\ c.inOut = -1
    /\ using_emulator # 0 => c.inOut \in Directions
Dialect == version \in {1, 5, 9} /\ using_emulator \in {0, 1} /\ flows_exported \in Nat

(* A record of a flow.                                                     *)
LEMMA RecordOK ==
    ASSUME NEW f \in Flows, NEW d \in Directions
    PROVE  Record(f, d) \in Rec /\ <<Record(f, d)>> \in Seq(Rec) /\ Len(<<Record(f, d)>>) = 1
<1>1. f.addr \in [Directions -> Nat] /\ 1 - d \in Directions
  BY DEF Flows, Directions
<1>2. Record(f, d) \in Rec
  BY <1>1 DEF Record, Rec
<1>3. QED
  BY <1>2

(* Versions 5 and 9 export at least one direction of a flow.               *)
LEMMA BothWaysOK ==
    ASSUME NEW f \in Flows
    PROVE  /\ BothWays(f) \in Seq(Rec) /\ BothWays(f) # <<>> /\ Len(BothWays(f)) \in 1..2
<1> DEFINE a == IF f.octets[0] > 0 THEN <<Record(f, 0)>> ELSE <<>>
           b == IF f.octets[1] > 0 THEN <<Record(f, 1)>> ELSE <<>>
<1>1. f.octets[0] > 0 \/ f.octets[1] > 0
  BY DEF Flows
<1>2. 0 \in Directions /\ 1 \in Directions
  BY DEF Directions
<1>3. a \in Seq(Rec) /\ Len(a) \in 0..1 /\ (f.octets[0] > 0 => Len(a) = 1)
  BY <1>2, RecordOK
<1>4. b \in Seq(Rec) /\ Len(b) \in 0..1 /\ (f.octets[1] > 0 => Len(b) = 1)
  BY <1>2, RecordOK
<1>5. BothWays(f) = a \o b
  BY DEF BothWays
<1>6. Len(a) + Len(b) \in 1..2
  BY <1>1, <1>3, <1>4
<1> HIDE DEF a, b
<1>7. a \o b \in Seq(Rec) /\ Len(a \o b) = Len(a) + Len(b)
  BY <1>3, <1>4, ConcatProperties
<1>8. a \o b # <<>>
  BY <1>6, <1>7
<1>9. QED
  BY <1>5, <1>6, <1>7, <1>8

(* A flow has at most two records, and in versions 1 and 5 none if IPv6.   *)
LEMMA RecordsOK ==
    ASSUME NEW c, CallOK(c), Dialect, NEW f \in Flows
    PROVE  /\ Records(f, c) \in Seq(Rec) /\ Len(Records(f, c)) \in 0..2
           /\ version = 9 => Records(f, c) = BothWays(f)
           /\ version # 9 /\ Records(f, c) # <<>> => f.af = 4
<1>1. <<>> \in Seq(Rec) /\ Len(<<>>) = 0
  OBVIOUS
<1>2. BothWays(f) \in Seq(Rec) /\ Len(BothWays(f)) \in 0..2
  <2>1. BothWays(f) \in Seq(Rec) /\ Len(BothWays(f)) \in 1..2
    BY BothWaysOK
  <2>2. QED
    BY <2>1
<1>3. OneWay(f, c.inOut) \in Seq(Rec) /\ Len(OneWay(f, c.inOut)) \in 0..2
  BY <1>1, RecordOK DEF OneWay
<1>4. using_emulator # 0 => MonitorWay(f, c) \in Seq(Rec) /\ Len(MonitorWay(f, c)) \in 0..2
  BY <1>1, RecordOK DEF MonitorWay, CallOK
<1>5. Records(f, c) \in Seq(Rec) /\ Len(Records(f, c)) \in 0..2
  BY <1>1, <1>2, <1>3, <1>4 DEF Records
<1>6. version = 9 => Records(f, c) = BothWays(f)
  BY DEF Records
<1>7. version # 9 /\ f.af # 4 => Records(f, c) = <<>>
  BY DEF Records
<1>8. QED
  BY <1>5, <1>6, <1>7

(* The records that are due, a flow at a time.                             *)
LEMMA DueSteps ==
    ASSUME NEW c, CallOK(c), Dialect
    PROVE  /\ DueTo(c, 0) = <<>> /\ DueTo(c, Len(c.flows)) = Due(c)
           /\ \A i \in 1..Len(c.flows) : DueTo(c, i) = DueTo(c, i - 1) \o Records(c.flows[i], c)
           /\ \A i \in 0..Len(c.flows) : DueTo(c, i) \in Seq(Rec)
<1> DEFINE n == Len(c.flows)
           R(k) == Records(c.flows[k], c)
           M(i) == [k \in 1..i |-> R(k)]
<1>1. c.flows \in Seq(Flows) /\ n \in Nat
  BY DEF CallOK, Call
<1>2. \A k \in 1..n : R(k) \in Seq(Rec)
  BY <1>1, RecordsOK
<1>3. \A i : DueTo(c, i) = FlattenSeq(M(i))
  BY DEF DueTo
<1>4. DueTo(c, n) = Due(c)
  BY DEF DueTo, Due
<1> HIDE DEF R
<1>5. ASSUME NEW i \in 0..n
      PROVE  M(i) \in Seq(Seq(Rec)) /\ Len(M(i)) = i /\ \A k \in 1..i : M(i)[k] = R(k)
  <2>1. \A k \in 1..i : R(k) \in Seq(Rec)
    BY <1>1, <1>2
  <2>2. M(i) \in [1..i -> Seq(Rec)] /\ \A k \in 1..i : M(i)[k] = R(k)
    BY <2>1
  <2>3. i \in Nat
    BY <1>1
  <2> HIDE DEF M
  <2>4. QED
    BY <2>2, <2>3
<1> HIDE DEF M, n
<1>6. DueTo(c, 0) = <<>>
  <2>1. 0 \in 0..n
    BY <1>1
  <2>2. M(0) \in Seq(Seq(Rec)) /\ Len(M(0)) = 0
    BY <1>5, <2>1
  <2>3. M(0) = <<>>
    BY <2>2
  <2>4. FlattenSeq(<<>>) = <<>>
    BY FlattenFew
  <2>5. QED
    BY <1>3, <2>3, <2>4, Zenon
<1>7. ASSUME NEW i \in 1..n PROVE DueTo(c, i) = DueTo(c, i - 1) \o R(i)
  <2>1. i \in 0..n /\ i - 1 \in 0..n /\ i = (i - 1) + 1 /\ i \in Nat /\ i - 1 \in Nat
    BY <1>1
  <2> DEFINE m == M(i)
             p == M(i - 1)
             x == R(i)
             a == Append(p, x)
  <2>2. m \in Seq(Seq(Rec)) /\ Len(m) = i /\ \A k \in 1..i : m[k] = R(k)
    BY <1>5, <2>1
  <2>3. p \in Seq(Seq(Rec)) /\ Len(p) = i - 1 /\ \A k \in 1..i - 1 : p[k] = R(k)
    BY <1>5, <2>1
  <2>4. x \in Seq(Rec)
    BY <1>2
  <2>5. DueTo(c, i) = FlattenSeq(m) /\ DueTo(c, i - 1) = FlattenSeq(p)
    BY <1>3
  <2> HIDE DEF m, p
  <2>6. /\ a \in Seq(Seq(Rec)) /\ Len(a) = Len(p) + 1
        /\ \A k \in 1..Len(p) : a[k] = p[k]
        /\ a[Len(p) + 1] = x
    <3> HIDE DEF x
    <3>1. QED
      BY <2>3, <2>4, AppendProperties
  <2> HIDE DEF a
  <2>7. ASSUME NEW k \in 1..i PROVE m[k] = a[k]
    <3>1. CASE k = i
      BY <2>1, <2>2, <2>3, <2>6, <3>1
    <3>2. CASE k # i
      <4>1. k \in 1..i - 1
        BY <2>1, <3>2
      <4>2. QED
        BY <2>2, <2>3, <2>6, <4>1
    <3>3. QED
      BY <3>1, <3>2
  <2>8. m = a
    <3>1. Len(m) = Len(a) /\ \A k \in 1..Len(m) : m[k] = a[k]
      BY <2>1, <2>2, <2>3, <2>6, <2>7
    <3>2. QED
      BY <2>2, <2>6, <3>1, SeqEqual
  <2>9. FlattenSeq(Append(p, x)) = FlattenSeq(p) \o x
    <3> HIDE DEF x
    <3>1. QED
      BY <2>3, <2>4, FlattenAppend
  <2>10. QED
    BY <2>5, <2>8, <2>9 DEF a
<1>8. ASSUME NEW i \in 0..n PROVE DueTo(c, i) \in Seq(Rec)
  <2>1. M(i) \in Seq(Seq(Rec))
    BY <1>5
  <2>2. FlattenSeq(M(i)) \in Seq(Rec)
    BY <2>1, FlattenFew
  <2>3. QED
    BY <1>3, <2>2
<1>9. QED
  BY <1>4, <1>6, <1>7, <1>8 DEF n, R

-----------------------------------------------------------------------------
(* The senders of versions 1 and 5 *)

(* The datagrams are as they must be.                                      *)
Good5(g, c) ==
    /\ g \in Seq(Datagram5)
    /\ \A k \in 1..Len(g) :
          /\ g[k].recs # <<>> /\ Len(g[k].recs) <= MAXFLOWS /\ g[k].monitor = c.monitor
          /\ g[k].seq = flows_exported + RecordsIn(SubSeq(g, 1, k - 1))

(* While the datagrams for the first i flows are packed: those closed are  *)
(* good, the header of the open one fits the call and the others, and      *)
(* nothing is lost.                                                        *)
Packed(s, c, i) ==
    /\ s = [out |-> s.out, recs |-> s.recs, hdr |-> s.hdr]
    /\ Good5(s.out, c)
    /\ s.recs \in Seq(Rec) /\ Len(s.recs) <= MAXFLOWS
    /\ s.recs # <<>> =>
          /\ s.hdr \in Datagram5 /\ s.hdr.monitor = c.monitor
          /\ s.hdr.seq = flows_exported + RecordsIn(s.out)
    /\ RecsOf(s.out) \o s.recs = DueTo(c, i)

(* One more good datagram.                                                 *)
LEMMA GoodAppend ==
    ASSUME NEW c, Dialect, NEW g, Good5(g, c), NEW d \in Datagram5, d.recs # <<>>,
           Len(d.recs) <= MAXFLOWS, d.monitor = c.monitor, d.seq = flows_exported + RecordsIn(g)
    PROVE  Good5(Append(g, d), c)
<1> DEFINE h == Append(g, d)
           n == Len(g)
<1>1. g \in Seq(Datagram5) /\ n \in Nat
  BY DEF Good5
<1>2. /\ h \in Seq(Datagram5) /\ Len(h) = n + 1
      /\ \A i \in 1..n : h[i] = g[i]
      /\ h[n + 1] = d
  BY <1>1, AppendProperties
<1>3. ASSUME NEW k \in 1..n + 1 PROVE SubSeq(h, 1, k - 1) = SubSeq(g, 1, k - 1)
  <2>1. k - 1 \in 0..n /\ \A i \in 1..k - 1 : h[i] = g[i] /\ g[i] \in Datagram5 /\ h[i] \in Datagram5
    BY <1>1, <1>2
  <2> HIDE DEF h
  <2>2. /\ SubSeq(h, 1, k - 1) \in Seq(Datagram5) /\ Len(SubSeq(h, 1, k - 1)) = k - 1
        /\ \A i \in 1..k - 1 : SubSeq(h, 1, k - 1)[i] = h[i]
    BY <2>1
  <2>3. /\ SubSeq(g, 1, k - 1) \in Seq(Datagram5) /\ Len(SubSeq(g, 1, k - 1)) = k - 1
        /\ \A i \in 1..k - 1 : SubSeq(g, 1, k - 1)[i] = g[i]
    BY <2>1
  <2>4. QED
    <3>1. \A i \in 1..k - 1 : SubSeq(h, 1, k - 1)[i] = SubSeq(g, 1, k - 1)[i]
      BY <2>1, <2>2, <2>3
    <3>2. QED
      BY <2>2, <2>3, <3>1, SeqEqual
<1> HIDE DEF h
<1>4. ASSUME NEW k \in 1..n + 1
      PROVE  /\ h[k].recs # <<>> /\ Len(h[k].recs) <= MAXFLOWS /\ h[k].monitor = c.monitor
             /\ h[k].seq = flows_exported + RecordsIn(SubSeq(h, 1, k - 1))
  <2>1. CASE k = n + 1
    <3>1. SubSeq(g, 1, k - 1) = g
      <4>1. k - 1 = Len(g)
        BY <1>1, <2>1
      <4>2. QED
        BY <1>1, <4>1, SubSeqFull
    <3>2. QED
      BY <1>2, <1>3, <2>1, <3>1
  <2>2. CASE k # n + 1
    <3>1. k \in 1..n
      BY <1>1, <2>2
    <3>2. h[k] = g[k] /\ SubSeq(h, 1, k - 1) = SubSeq(g, 1, k - 1)
      BY <1>2, <1>3, <3>1
    <3>3. QED
      BY <3>1, <3>2 DEF Good5, n
  <2>3. QED
    BY <2>1, <2>2
<1>5. QED
  BY <1>2, <1>4 DEF Good5, h

(* Closing a datagram that is full.                                        *)
LEMMA SealOK ==
    ASSUME NEW c, Dialect, NEW i, NEW s, Packed(s, c, i), s.recs # <<>>
    PROVE  /\ Sealed(s) \in Datagram5 /\ Good5(Append(s.out, Sealed(s)), c)
           /\ RecsOf(Append(s.out, Sealed(s))) = DueTo(c, i)
<1> DEFINE d == Sealed(s)
<1>1. s.hdr \in Datagram5 /\ s.recs \in Seq(Rec)
  BY DEF Packed
<1>2. d \in Datagram5 /\ d.recs = s.recs /\ d.monitor = s.hdr.monitor /\ d.seq = s.hdr.seq
  BY <1>1 DEF Sealed, Datagram5
<1> HIDE DEF d
<1>3. Good5(Append(s.out, d), c)
  <2>1. /\ d.recs # <<>> /\ Len(d.recs) <= MAXFLOWS /\ d.monitor = c.monitor
        /\ d.seq = flows_exported + RecordsIn(s.out) /\ Good5(s.out, c)
    BY <1>2 DEF Packed
  <2>2. QED
    BY <1>2, <2>1, GoodAppend
<1>4. RecsOf(Append(s.out, d)) = DueTo(c, i)
  <2>1. s.out \in Seq(Datagram) /\ d \in Datagram
    <3>1. s.out \in Seq(Datagram5)
      BY DEF Packed, Good5
    <3>2. QED
      BY <1>2, <3>1 DEF Datagram
  <2>2. RecsOf(Append(s.out, d)) = RecsOf(s.out) \o d.recs
    BY <2>1, RecsOfAppend
  <2>3. QED
    BY <1>2, <2>2 DEF Packed
<1>5. QED
  BY <1>2, <1>3, <1>4 DEF d

(* A datagram that might not take another flow is closed.                  *)
LEMMA FlushOK ==
    ASSUME NEW c, Dialect, NEW i, NEW s, Packed(s, c, i)
    PROVE  Packed(Flush(s), c, i) /\ Len(Flush(s).recs) <= MAXFLOWS - 2
<1>0. MAXFLOWS \in Nat /\ MAXFLOWS > 2
  BY ExportAssumption
<1>1. CASE ~Full(s.recs)
  <2>1. Flush(s) = s
    BY <1>1 DEF Flush
  <2>2. s.recs \in Seq(Rec)
    BY DEF Packed
  <2>3. Len(s.recs) <= MAXFLOWS - 2
    BY <1>0, <1>1, <2>2 DEF Full
  <2>4. QED
    BY <2>1, <2>3
<1>2. CASE Full(s.recs)
  <2> DEFINE t == Flush(s)
             d == Sealed(s)
  <2>1. /\ s = [out |-> s.out, recs |-> s.recs, hdr |-> s.hdr] /\ s.recs \in Seq(Rec)
    BY DEF Packed
  <2>2. s.recs # <<>>
    <3>1. Len(s.recs) >= MAXFLOWS - 1
      BY <1>2 DEF Full
    <3>2. QED
      BY <1>0, <2>1, <3>1
  <2>3. t.out = Append(s.out, d) /\ t.recs = <<>> /\ t.hdr = s.hdr
        /\ t = [out |-> t.out, recs |-> t.recs, hdr |-> t.hdr]
    BY <1>2, <2>1 DEF Flush
  <2>4. Good5(t.out, c) /\ RecsOf(t.out) = DueTo(c, i)
    BY <2>2, <2>3, SealOK
  <2>5. RecsOf(t.out) \o t.recs = DueTo(c, i)
    <3>1. t.out \in Seq(Datagram)
      BY <2>4 DEF Good5, Datagram
    <3>2. PICK e : e \in Datagram
      <4>1. [seq |-> 0, monitor |-> 0, recs |-> <<>>] \in Datagram
        BY DEF Datagram, Datagram5
      <4>2. QED
        BY <4>1
    <3>3. RecsOf(t.out) \in Seq(Rec)
      BY <3>1, <3>2, RecsOfAppend
    <3> HIDE DEF t
    <3>4. RecsOf(t.out) \o <<>> = RecsOf(t.out)
      BY <3>3, ConcatEmptySeq
    <3>5. QED
      BY <2>3, <2>4, <3>4
  <2> HIDE DEF t
  <2>6. Len(t.recs) = 0 /\ t.recs \in Seq(Rec)
    BY <2>3
  <2>7. Packed(t, c, i)
    BY <1>0, <2>3, <2>4, <2>5, <2>6 DEF Packed
  <2>8. QED
    BY <1>0, <2>6, <2>7 DEF t
<1>3. QED
  BY <1>1, <1>2

(* The header and the monitor of the open datagram.                        *)
LEMMA HeaderOK ==
    ASSUME NEW c, CallOK(c), Dialect, version # 9, NEW i, NEW f \in Flows, NEW t, Packed(t, c, i)
    PROVE  LET u == WithMonitor(Header(t), f, c) IN
           /\ u = [out |-> t.out, recs |-> t.recs, hdr |-> u.hdr]
           /\ u.out = t.out /\ u.recs = t.recs
           /\ t.recs # <<>> => u.hdr = t.hdr
           /\ t.recs = <<>> =>
                 /\ u.hdr \in Datagram5 /\ u.hdr.seq = flows_exported + RecordsIn(t.out)
                 /\ f.af = 4 => u.hdr.monitor = c.monitor
<1> DEFINE h == Header(t)
           u == WithMonitor(h, f, c)
<1>1. t = [out |-> t.out, recs |-> t.recs, hdr |-> t.hdr]
  BY DEF Packed
<1>2. CASE t.recs # <<>>
  <2>1. h = t
    BY <1>2 DEF Header
  <2>2. u = t
    BY <1>2, <2>1 DEF WithMonitor
  <2>3. QED
    BY <1>1, <1>2, <2>2
<1>3. CASE t.recs = <<>>
  <2> DEFINE q == flows_exported + RecordsIn(t.out)
  <2>1. q \in Nat
    <3>1. t.out \in Seq(Datagram)
      BY DEF Packed, Good5, Datagram
    <3>2. [seq |-> 0, monitor |-> 0, recs |-> <<>>] \in Datagram
      BY DEF Datagram, Datagram5
    <3>3. RecordsIn(t.out) \in Nat
      BY <3>1, <3>2, CountAppend
    <3>4. QED
      BY <3>3 DEF Dialect
  <2> HIDE DEF q
  <2>2. h = [out |-> t.out, recs |-> t.recs, hdr |-> [seq |-> q, monitor |-> 0, recs |-> <<>>]]
    BY <1>1, <1>3 DEF Header, q
  <2>3. c.monitor \in Nat /\ (using_emulator = 0 => c.monitor = 0)
    BY DEF CallOK, Call
  <2> HIDE DEF h
  <2>4. CASE using_emulator = 1 /\ f.af = 4
    <3>1. u = [out |-> t.out, recs |-> t.recs, hdr |-> [seq |-> q, monitor |-> c.monitor, recs |-> <<>>]]
      BY <1>3, <2>2, <2>4 DEF WithMonitor
    <3>2. [seq |-> q, monitor |-> c.monitor, recs |-> <<>>] \in Datagram5
      BY <2>1, <2>3 DEF Datagram5
    <3> HIDE DEF u
    <3>3. QED
      BY <1>3, <3>1, <3>2 DEF u, q, h
  <2>5. CASE ~(using_emulator = 1 /\ f.af = 4)
    <3>1. u = h
      BY <2>5 DEF WithMonitor
    <3>2. [seq |-> q, monitor |-> 0, recs |-> <<>>] \in Datagram5
      BY <2>1 DEF Datagram5
    <3>3. f.af = 4 => c.monitor = 0
      BY <2>3, <2>5 DEF Dialect
    <3> HIDE DEF u
    <3>4. QED
      BY <1>3, <2>2, <3>1, <3>2, <3>3 DEF u, q, h
  <2>6. QED
    BY <2>4, <2>5
<1>4. QED
  BY <1>2, <1>3

(* One more flow.                                                          *)
LEMMA PackFlowOK ==
    ASSUME NEW c, CallOK(c), Dialect, version # 9, NEW i \in 1..Len(c.flows), NEW s, Packed(s, c, i - 1)
    PROVE  Packed(PackFlow(s, c.flows[i], c), c, i)
<1> DEFINE f == c.flows[i]
           t == Flush(s)
           u == WithMonitor(Header(t), f, c)
           r == Records(f, c)
           v == PackFlow(s, f, c)
<1>1. f \in Flows
  BY DEF CallOK, Call
<1>2. Packed(t, c, i - 1) /\ Len(t.recs) <= MAXFLOWS - 2
  BY FlushOK
<1>3. r \in Seq(Rec) /\ Len(r) \in 0..2 /\ (r # <<>> => f.af = 4)
  BY <1>1, RecordsOK
<1>4. DueTo(c, i) = DueTo(c, i - 1) \o r
  BY DueSteps
<1> HIDE DEF f, t, r
<1>5. /\ u = [out |-> t.out, recs |-> t.recs, hdr |-> u.hdr]
      /\ u.out = t.out /\ u.recs = t.recs
      /\ t.recs # <<>> => u.hdr = t.hdr
      /\ t.recs = <<>> =>
            /\ u.hdr \in Datagram5 /\ u.hdr.seq = flows_exported + RecordsIn(t.out)
            /\ f.af = 4 => u.hdr.monitor = c.monitor
  BY <1>1, <1>2, HeaderOK
<1>6. v = [u EXCEPT !.recs = @ \o r]
  BY DEF PackFlow, t, r
<1> HIDE DEF u, v
<1>7. /\ v = [out |-> v.out, recs |-> v.recs, hdr |-> v.hdr]
      /\ v.out = t.out /\ v.recs = t.recs \o r /\ v.hdr = u.hdr
  <2>1. v = [[out |-> t.out, recs |-> t.recs, hdr |-> u.hdr] EXCEPT !.recs = @ \o r]
    BY <1>5, <1>6, Zenon
  <2>2. v = [out |-> t.out, recs |-> t.recs \o r, hdr |-> u.hdr]
    BY <2>1
  <2>3. QED
    BY <2>2
<1>8. /\ Good5(t.out, c) /\ t.recs \in Seq(Rec) /\ RecsOf(t.out) \o t.recs = DueTo(c, i - 1)
      /\ t.recs # <<>> =>
            /\ t.hdr \in Datagram5 /\ t.hdr.monitor = c.monitor
            /\ t.hdr.seq = flows_exported + RecordsIn(t.out)
  BY <1>2 DEF Packed
<1>9. t.recs \o r \in Seq(Rec) /\ Len(t.recs \o r) <= MAXFLOWS
  <2>1. t.recs \o r \in Seq(Rec) /\ Len(t.recs \o r) = Len(t.recs) + Len(r) /\ Len(t.recs) \in Nat
    BY <1>3, <1>8, ConcatProperties
  <2>2. MAXFLOWS \in Nat
    BY ExportAssumption
  <2> DEFINE x == t.recs \o r
  <2>3. x \in Seq(Rec) /\ Len(x) = Len(t.recs) + Len(r) /\ Len(t.recs) \in Nat
    BY <2>1
  <2> HIDE DEF x
  <2>4. Len(x) <= MAXFLOWS
    <3> DEFINE z == Len(x)
               a == Len(t.recs)
               b == Len(r)
    <3>1. z = a + b /\ a \in Nat /\ b \in 0..2 /\ a <= MAXFLOWS - 2
      BY <1>2, <1>3, <2>3
    <3> HIDE DEF z, a, b
    <3>2. z <= MAXFLOWS
      BY <2>2, <3>1
    <3>3. QED
      BY <3>2 DEF z
  <2>5. QED
    BY <2>3, <2>4 DEF x
<1>10. RecsOf(t.out) \o (t.recs \o r) = DueTo(c, i)
  <2>1. RecsOf(t.out) \in Seq(Rec)
    <3>1. t.out \in Seq(Datagram)
      BY <1>8 DEF Good5, Datagram
    <3>2. [seq |-> 0, monitor |-> 0, recs |-> <<>>] \in Datagram
      BY DEF Datagram, Datagram5
    <3>3. QED
      BY <3>1, <3>2, RecsOfAppend
  <2>2. \A x, y, z \in Seq(Rec) : (x \o y) \o z = x \o (y \o z)
    BY ConcatAssociative
  <2>3. (RecsOf(t.out) \o t.recs) \o r = RecsOf(t.out) \o (t.recs \o r)
    BY <1>3, <1>8, <2>1, <2>2, Zenon
  <2>4. QED
    BY <1>4, <1>8, <2>3
<1>11. ASSUME t.recs \o r # <<>>
       PROVE  /\ u.hdr \in Datagram5 /\ u.hdr.monitor = c.monitor
              /\ u.hdr.seq = flows_exported + RecordsIn(t.out)
  <2>1. CASE t.recs # <<>>
    BY <1>5, <1>8, <2>1
  <2>2. CASE t.recs = <<>>
    <3>1. r # <<>>
      <4>1. SUFFICES ASSUME r = <<>> PROVE t.recs \o r = <<>>
        BY <1>11
      <4>2. t.recs \o r = t.recs
        BY <1>8, <4>1, ConcatEmptySeq
      <4>3. QED
        BY <2>2, <4>2
    <3>2. QED
      BY <1>3, <1>5, <2>2, <3>1
  <2>3. QED
    BY <2>1, <2>2
<1>12. Packed(v, c, i)
  BY <1>7, <1>8, <1>9, <1>10, <1>11 DEF Packed
<1>13. QED
  BY <1>12 DEF v, f

(* The datagrams of a call of version 1 or 5.                              *)
LEMMA PackOK ==
    ASSUME NEW c, CallOK(c), Dialect, version # 9
    PROVE  Good5(Pack(c), c) /\ RecsOf(Pack(c)) = Due(c)
<1> DEFINE n == Len(c.flows)
           s == Packing(c)
           P == {i \in Nat : i \in 0..n => Packed(s[i], c, i)}
<1>1. c.flows \in Seq(Flows) /\ n \in Nat
  BY DEF CallOK, Call
<1>2. s[0] = PackStart /\ \A i \in 1..n : s[i] = PackFlow(s[i - 1], c.flows[i], c)
  BY <1>1, PackingIs
<1>3. Packed(PackStart, c, 0)
  <2> DEFINE t == PackStart
  <2>1. t.out = <<>> /\ t.recs = <<>> /\ t = [out |-> t.out, recs |-> t.recs, hdr |-> t.hdr]
    BY DEF PackStart
  <2>2. DueTo(c, 0) = <<>> /\ RecsOf(<<>>) = <<>>
    BY DueSteps, RecsOfEmpty
  <2>3. Good5(<<>>, c)
    <3>1. <<>> \in Seq(Datagram5) /\ Len(<<>>) = 0
      OBVIOUS
    <3>2. QED
      BY <3>1 DEF Good5
  <2>4. <<>> \in Seq(Rec) /\ Len(<<>>) = 0 /\ <<>> \o <<>> = <<>>
    OBVIOUS
  <2>5. 0 <= MAXFLOWS
    BY ExportAssumption
  <2> HIDE DEF t
  <2>6. Packed(t, c, 0)
    <3>1. RecsOf(t.out) \o t.recs = DueTo(c, 0)
      BY <2>1, <2>2, <2>4, Zenon
    <3>2. Good5(t.out, c) /\ t.recs \in Seq(Rec) /\ Len(t.recs) <= MAXFLOWS
      BY <2>1, <2>3, <2>4, <2>5, Zenon
    <3>3. QED
      BY <2>1, <3>1, <3>2 DEF Packed
  <2>7. QED
    BY <2>6 DEF t
<1> HIDE DEF s, n
<1>4. 0 \in P
  BY <1>2, <1>3
<1>5. ASSUME NEW i \in P PROVE i + 1 \in P
  <2>1. SUFFICES ASSUME i + 1 \in 0..n PROVE Packed(s[i + 1], c, i + 1)
    OBVIOUS
  <2>2. i \in 0..n /\ i + 1 \in 1..n /\ (i + 1) - 1 = i
    BY <1>1, <2>1
  <2>3. Packed(s[i], c, i) /\ s[i + 1] = PackFlow(s[i], c.flows[i + 1], c)
    BY <1>2, <2>2
  <2>4. QED
    BY <2>2, <2>3, PackFlowOK DEF n
<1>6. P = Nat
  <2>1. P \subseteq Nat /\ \A i \in P : i + 1 \in P
    BY <1>5
  <2> HIDE DEF P
  <2>2. QED
    BY <1>4, <2>1, NatInduct
<1> DEFINE e == s[n]
<1>7. Packed(e, c, n)
  <2>1. n \in P /\ n \in 0..n
    <3> HIDE DEF P
    <3>1. QED
      BY <1>1, <1>6
  <2>2. QED
    BY <2>1
<1>8. DueTo(c, n) = Due(c)
  BY DueSteps DEF n
<1>9. Pack(c) = IF e.recs = <<>> THEN e.out ELSE Append(e.out, Sealed(e))
  BY DEF Pack, s, n
<1> HIDE DEF e
<1>10. CASE e.recs = <<>>
  <2>1. Good5(e.out, c) /\ RecsOf(e.out) \o e.recs = Due(c)
    BY <1>7, <1>8 DEF Packed
  <2>2. RecsOf(e.out) \in Seq(Rec)
    <3>1. e.out \in Seq(Datagram)
      BY <2>1 DEF Good5, Datagram
    <3>2. [seq |-> 0, monitor |-> 0, recs |-> <<>>] \in Datagram
      BY DEF Datagram, Datagram5
    <3>3. QED
      BY <3>1, <3>2, RecsOfAppend
  <2>3. RecsOf(e.out) \o <<>> = RecsOf(e.out)
    BY <2>2, ConcatEmptySeq
  <2>4. QED
    BY <1>9, <1>10, <2>1, <2>3
<1>11. CASE e.recs # <<>>
  BY <1>7, <1>8, <1>9, <1>11, SealOK
<1>12. QED
  BY <1>10, <1>11

-----------------------------------------------------------------------------
(* The sender of version 9 *)

Good9(g) ==
    /\ g \in Seq(Datagram9)
    /\ \A k \in 1..Len(g) : g[k].recs # <<>> /\ g[k].bytes <= NF9_PACKET

NF9State(p) ==
    [out |-> p.out, recs |-> p.recs, af |-> p.af, offset |-> p.offset,
     until |-> p.until, seq |-> p.seq, next |-> p.next]

(* The open datagram fits, and when it is empty it has room for a flow.    *)
Packed9(p, c, i) ==
    /\ p = NF9State(p)
    /\ Good9(p.out)
    /\ p.recs \in Seq(Rec) /\ p.af \in {0, 4, 6} /\ p.offset \in Nat /\ p.offset <= NF9_PACKET
    /\ p.until \in Int /\ p.seq \in Nat /\ p.next \in Nat
    /\ p.recs = <<>> => p.af = 0 /\ p.offset <= 124
    /\ RecsOf(p.out) \o p.recs = DueTo(c, i)

(* Padding never leaves the datagram, whose size is a multiple of 4.       *)
LEMMA PaddedOK ==
    ASSUME NEW n \in Nat
    PROVE  /\ Padded(n) \in Nat /\ Padded(n) >= n
           /\ n <= 124 => Padded(n) <= 124
           /\ n <= NF9_PACKET => Padded(n) <= NF9_PACKET
<1>1. NF9_PACKET \in Nat /\ NF9_PACKET % 4 = 0
  BY ExportAssumption
<1>2. Padded(n) \in Nat /\ Padded(n) >= n /\ (n <= 124 => Padded(n) <= 124)
  BY DEF Padded
<1>3. n <= NF9_PACKET => Padded(n) <= NF9_PACKET
  BY <1>1 DEF Padded
<1>4. QED
  BY <1>2, <1>3

(* The size that a flow needs.                                             *)
LEMMA OffsetOK ==
    ASSUME NEW f \in Flows, NEW p, p.offset \in Nat
    PROVE  /\ NF9Offset(p, f) \in Nat
           /\ p.offset <= 124 /\ p.af = 0 => NF9Offset(p, f) <= NF9_PACKET
<1>1. Len(BothWays(f)) \in 1..2
  BY BothWaysOK
<1>2. f.af \in {4, 6}
  BY DEF Flows
<1>3. Padded(p.offset) \in Nat /\ (p.offset <= 124 => Padded(p.offset) <= 124)
  BY PaddedOK
<1>4. NF9_PACKET \in Nat /\ NF9_PACKET >= 238
  BY ExportAssumption
<1> DEFINE b == Len(BothWays(f)) * NF9Record(f.af)
<1>5. b \in Nat /\ b <= 110
  <2> DEFINE l == Len(BothWays(f))
             m == NF9Record(f.af)
  <2>1. m \in {31, 55}
    BY <1>2 DEF NF9Record
  <2>2. l \in {1, 2}
    BY <1>1
  <2>3. b = l * m
    OBVIOUS
  <2> HIDE DEF l, m, b
  <2>4. l * m \in {31, 55, 62, 110}
    BY <2>1, <2>2
  <2>5. QED
    BY <2>3, <2>4
<1>6. NF9Offset(p, f) = (IF p.af = f.af THEN p.offset ELSE Padded(p.offset) + 4) + b
  BY DEF NF9Offset, NF9Flowset
<1> HIDE DEF b
<1>7. QED
  BY <1>2, <1>3, <1>4, <1>5, <1>6

(* What adding records to the open datagram assigns.                       *)
LEMMA AddIs ==
    ASSUME NEW f, NEW p, p = NF9State(p), p.next \in Nat
    PROVE  NF9Add(p, f) =
             [out |-> p.out, recs |-> p.recs \o BothWays(f), af |-> f.af, offset |-> NF9Offset(p, f),
              until |-> p.until, seq |-> p.seq, next |-> p.next + 1]
<1> DEFINE out == p.out
           recs == p.recs
           af == p.af
           offset == p.offset
           until == p.until
           seq == p.seq
           next == p.next
<1>0. p = [out |-> out, recs |-> recs, af |-> af, offset |-> offset,
           until |-> until, seq |-> seq, next |-> next] /\ next \in Nat
  BY DEF NF9State
<1> HIDE DEF out, recs, af, offset, until, seq, next
<1>1. p.recs = recs /\ p.next = next
  BY DEF recs, next
<1> DEFINE x == recs \o BothWays(f)
           y == next + 1
           o == NF9Offset(p, f)
           g == f.af
<1>2. NF9Add(p, f) = [p EXCEPT !.offset = o, !.af = g, !.recs = x, !.next = y]
  BY <1>1 DEF NF9Add
<1> HIDE DEF x, y, o, g
<1>3. [p EXCEPT !.offset = o, !.af = g, !.recs = x, !.next = y] =
      [out |-> out, recs |-> x, af |-> g, offset |-> o, until |-> until, seq |-> seq, next |-> y]
  <2> DEFINE a == [p EXCEPT !.offset = o]
             b == [a EXCEPT !.af = g]
             c == [b EXCEPT !.recs = x]
             d == [c EXCEPT !.next = y]
  <2>1. [p EXCEPT !.offset = o, !.af = g, !.recs = x, !.next = y] = d
    OBVIOUS
  <2>2. a = [out |-> out, recs |-> recs, af |-> af, offset |-> o,
             until |-> until, seq |-> seq, next |-> next]
    BY <1>0
  <2> HIDE DEF a
  <2>3. b = [out |-> out, recs |-> recs, af |-> g, offset |-> o,
             until |-> until, seq |-> seq, next |-> next]
    BY <2>2
  <2> HIDE DEF b
  <2>4. c = [out |-> out, recs |-> x, af |-> g, offset |-> o,
             until |-> until, seq |-> seq, next |-> next]
    BY <2>3
  <2> HIDE DEF c
  <2>5. d = [out |-> out, recs |-> x, af |-> g, offset |-> o,
             until |-> until, seq |-> seq, next |-> y]
    BY <2>4
  <2> HIDE DEF d
  <2>6. QED
    BY <2>1, <2>5
<1>4. QED
  BY <1>2, <1>3 DEF x, y, o, g, out, recs, until, seq, next

(* A flow that fits.                                                       *)
LEMMA AddOK ==
    ASSUME NEW c, CallOK(c), Dialect, version = 9, NEW i \in 1..Len(c.flows), NEW p,
           Packed9(p, c, i - 1), NF9Offset(p, c.flows[i]) <= NF9_PACKET
    PROVE  Packed9(NF9Add(p, c.flows[i]), c, i) /\ NF9Add(p, c.flows[i]).recs # <<>>
<1> DEFINE f == c.flows[i]
           r == BothWays(f)
           v == NF9Add(p, f)
           o == NF9Offset(p, f)
<1>1. f \in Flows /\ f.af \in {4, 6}
  BY DEF CallOK, Call, Flows
<1>2. /\ p = NF9State(p)
      /\ Good9(p.out) /\ p.recs \in Seq(Rec) /\ p.offset \in Nat
      /\ p.until \in Int /\ p.seq \in Nat /\ p.next \in Nat
      /\ RecsOf(p.out) \o p.recs = DueTo(c, i - 1)
  BY DEF Packed9
<1>3. r \in Seq(Rec) /\ Len(r) \in 1..2
  BY <1>1, BothWaysOK
<1>4. DueTo(c, i) = DueTo(c, i - 1) \o r
  <2>1. Records(f, c) = r
    BY <1>1, RecordsOK
  <2>2. QED
    BY <2>1, DueSteps
<1>5. o \in Nat /\ o <= NF9_PACKET
  BY <1>1, <1>2, OffsetOK
<1> HIDE DEF f
<1>7. v = [out |-> p.out, recs |-> p.recs \o r, af |-> f.af, offset |-> o,
           until |-> p.until, seq |-> p.seq, next |-> p.next + 1]
  <2>1. v = [out |-> p.out, recs |-> p.recs \o BothWays(f), af |-> f.af, offset |-> NF9Offset(p, f),
              until |-> p.until, seq |-> p.seq, next |-> p.next + 1]
    BY <1>2, AddIs
  <2>2. QED
    BY <2>1
<1> HIDE DEF r, v, o
<1>8. /\ v.out = p.out /\ v.recs = p.recs \o r /\ v.af = f.af /\ v.offset = o /\ v.until = p.until
      /\ v.seq = p.seq /\ v.next = p.next + 1
      /\ v = NF9State(v)
  BY <1>7 DEF NF9State
<1>9. p.recs \o r \in Seq(Rec) /\ p.recs \o r # <<>>
  <2>1. p.recs \o r \in Seq(Rec) /\ Len(p.recs \o r) = Len(p.recs) + Len(r) /\ Len(p.recs) \in Nat
    BY <1>2, <1>3, ConcatProperties
  <2> DEFINE x == p.recs \o r
  <2>2. x \in Seq(Rec) /\ Len(x) = Len(p.recs) + Len(r) /\ Len(p.recs) \in Nat
    BY <2>1
  <2> HIDE DEF x
  <2>3. Len(x) # 0
    <3> DEFINE z == Len(x)
               a == Len(p.recs)
               b == Len(r)
    <3>1. z = a + b /\ a \in Nat /\ b \in 1..2
      BY <1>3, <2>2
    <3> HIDE DEF z, a, b
    <3>2. z # 0
      BY <3>1
    <3>3. QED
      BY <3>2 DEF z
  <2>4. x # <<>>
    BY <2>3
  <2>5. QED
    BY <2>2, <2>4 DEF x
<1>10. RecsOf(p.out) \o (p.recs \o r) = DueTo(c, i)
  <2>1. RecsOf(p.out) \in Seq(Rec)
    <3>1. p.out \in Seq(Datagram)
      BY <1>2 DEF Good9, Datagram
    <3>2. [seq |-> 0, monitor |-> 0, recs |-> <<>>] \in Datagram
      BY DEF Datagram, Datagram5
    <3>3. QED
      BY <3>1, <3>2, RecsOfAppend
  <2>2. \A x, y, z \in Seq(Rec) : (x \o y) \o z = x \o (y \o z)
    BY ConcatAssociative
  <2>3. (RecsOf(p.out) \o p.recs) \o r = RecsOf(p.out) \o (p.recs \o r)
    BY <1>2, <1>3, <2>1, <2>2, Zenon
  <2>4. QED
    BY <1>2, <1>4, <2>3
<1>11. p.next + 1 \in Nat
  BY <1>2
<1>12. v.recs # <<>> /\ v.recs \in Seq(Rec) /\ RecsOf(v.out) \o v.recs = DueTo(c, i)
  BY <1>8, <1>9, <1>10, Zenon
<1>13. Packed9(v, c, i)
  BY <1>1, <1>2, <1>5, <1>8, <1>11, <1>12 DEF Packed9
<1>14. QED
  BY <1>12, <1>13 DEF v, f

(* What opening a datagram assigns.                                        *)
LEMMA OpenIs ==
    ASSUME NEW p, p = NF9State(p), p.until \in Int
    PROVE  LET q == NF9Open(p) IN
           /\ q = NF9State(q) /\ q.out = p.out /\ q.recs = <<>> /\ q.af = 0
           /\ q.offset \in {20, 124} /\ q.until \in Int /\ q.seq = p.seq /\ q.next = p.next
<1> DEFINE out == p.out
           recs == p.recs
           af == p.af
           offset == p.offset
           until == p.until
           seq == p.seq
           next == p.next
           o == NF9Header + IF p.until <= 0 THEN NF9Templates ELSE 0
           u == IF p.until <= 0 THEN NF9_INTERVAL ELSE p.until
           q == NF9Open(p)
<1>1. p = [out |-> out, recs |-> recs, af |-> af, offset |-> offset,
           until |-> until, seq |-> seq, next |-> next]
  BY DEF NF9State
<1>2. q = [p EXCEPT !.offset = o, !.until = u, !.af = 0, !.recs = <<>>]
  BY DEF NF9Open
<1>3. o \in {20, 124} /\ u \in Int
  BY ExportAssumption DEF NF9Header, NF9Templates
<1> HIDE DEF out, recs, af, offset, until, seq, next, o, u, q
<1> DEFINE a == [p EXCEPT !.offset = o]
           b == [a EXCEPT !.until = u]
           c == [b EXCEPT !.af = 0]
           d == [c EXCEPT !.recs = <<>>]
<1>4. [p EXCEPT !.offset = o, !.until = u, !.af = 0, !.recs = <<>>] = d
  OBVIOUS
<1>5. a = [out |-> out, recs |-> recs, af |-> af, offset |-> o,
           until |-> until, seq |-> seq, next |-> next]
  BY <1>1
<1> HIDE DEF a
<1>6. b = [out |-> out, recs |-> recs, af |-> af, offset |-> o,
           until |-> u, seq |-> seq, next |-> next]
  BY <1>5
<1> HIDE DEF b
<1>7. c = [out |-> out, recs |-> recs, af |-> 0, offset |-> o,
           until |-> u, seq |-> seq, next |-> next]
  BY <1>6
<1> HIDE DEF c
<1>8. d = [out |-> out, recs |-> <<>>, af |-> 0, offset |-> o,
           until |-> u, seq |-> seq, next |-> next]
  BY <1>7
<1> HIDE DEF d
<1>9. q = [out |-> out, recs |-> <<>>, af |-> 0, offset |-> o,
           until |-> u, seq |-> seq, next |-> next]
  BY <1>2, <1>4, <1>8
<1>10. /\ q.out = out /\ q.recs = <<>> /\ q.af = 0 /\ q.offset = o /\ q.until = u /\ q.seq = seq
       /\ q.next = next /\ q = NF9State(q)
  BY <1>9 DEF NF9State
<1>11. QED
  BY <1>3, <1>10 DEF out, seq, next, q

(* What closing a datagram and opening the next assigns.                   *)
LEMMA CloseIs ==
    ASSUME NEW p, p = NF9State(p), p.until \in Int
    PROVE  LET q == NF9Close(p) IN
           /\ q = NF9State(q) /\ q.out = Append(p.out, NF9Sealed(p)) /\ q.recs = <<>> /\ q.af = 0
           /\ q.offset \in {20, 124} /\ q.until \in Int /\ q.seq = p.next /\ q.next = p.next
<1> DEFINE r == [p EXCEPT !.until = @ - 1]
           s == NF9Open(r)
           q == NF9Close(p)
           g == Append(p.out, NF9Sealed(p))
<1>1. /\ r = NF9State(r) /\ r.until \in Int /\ r.out = p.out /\ r.seq = p.seq /\ r.next = p.next
  <2> DEFINE out == p.out
             recs == p.recs
             af == p.af
             offset == p.offset
             until == p.until
             seq == p.seq
             next == p.next
             u == p.until - 1
  <2>1. p = [out |-> out, recs |-> recs, af |-> af, offset |-> offset,
             until |-> until, seq |-> seq, next |-> next]
    BY DEF NF9State
  <2>2. u \in Int
    OBVIOUS
  <2>3. r = [p EXCEPT !.until = u]
    OBVIOUS
  <2> HIDE DEF out, recs, af, offset, until, seq, next, u, r
  <2>4. r = [out |-> out, recs |-> recs, af |-> af, offset |-> offset,
             until |-> u, seq |-> seq, next |-> next]
    BY <2>1, <2>3
  <2>5. /\ r.out = out /\ r.until = u /\ r.seq = seq /\ r.next = next /\ r = NF9State(r)
    BY <2>4 DEF NF9State
  <2>6. QED
    BY <2>2, <2>5 DEF out, seq, next
<1> HIDE DEF r
<1>2. /\ s = NF9State(s) /\ s.out = p.out /\ s.recs = <<>> /\ s.af = 0
      /\ s.offset \in {20, 124} /\ s.until \in Int /\ s.seq = p.seq /\ s.next = p.next
  BY <1>1, OpenIs
<1>3. q = [s EXCEPT !.out = Append(@, NF9Sealed(p)), !.seq = p.next]
  BY DEF NF9Close, r
<1> HIDE DEF s, q
<1>4. q = [s EXCEPT !.out = g, !.seq = p.next]
  BY <1>2, <1>3
<1> HIDE DEF g
<1> DEFINE af == s.af
           offset == s.offset
           until == s.until
           seq == s.seq
           next == s.next
           recs == s.recs
           out == s.out
           n == p.next
           a == [s EXCEPT !.out = g]
           b == [a EXCEPT !.seq = n]
<1>5. s = [out |-> out, recs |-> recs, af |-> af, offset |-> offset,
           until |-> until, seq |-> seq, next |-> next]
  BY <1>2 DEF NF9State
<1> HIDE DEF out, recs, af, offset, until, seq, next, n
<1>6. q = b
  BY <1>4 DEF n
<1>7. a = [out |-> g, recs |-> recs, af |-> af, offset |-> offset,
           until |-> until, seq |-> seq, next |-> next]
  BY <1>5
<1> HIDE DEF a
<1>8. b = [out |-> g, recs |-> recs, af |-> af, offset |-> offset,
           until |-> until, seq |-> n, next |-> next]
  BY <1>7
<1> HIDE DEF b
<1>9. /\ q.out = g /\ q.recs = recs /\ q.af = af /\ q.offset = offset /\ q.until = until /\ q.seq = n
      /\ q.next = next /\ q = NF9State(q)
  BY <1>6, <1>8 DEF NF9State
<1>10. QED
  BY <1>2, <1>9 DEF g, q, recs, af, offset, until, next, n

(* The datagram that is closed.                                            *)
LEMMA Seal9OK ==
    ASSUME NEW c, NEW i, NEW p, Packed9(p, c, i), p.recs # <<>>
    PROVE  /\ Good9(Append(p.out, NF9Sealed(p)))
           /\ RecsOf(Append(p.out, NF9Sealed(p))) = DueTo(c, i)
<1> DEFINE d == NF9Sealed(p)
           g == Append(p.out, d)
<1>1. /\ Good9(p.out) /\ p.recs \in Seq(Rec) /\ p.offset \in Nat /\ p.offset <= NF9_PACKET
      /\ p.until \in Int /\ p.seq \in Nat /\ RecsOf(p.out) \o p.recs = DueTo(c, i)
  BY DEF Packed9
<1>2. Padded(p.offset) \in Nat /\ Padded(p.offset) <= NF9_PACKET
  BY <1>1, PaddedOK
<1>3. d \in Datagram9 /\ d.recs = p.recs /\ d.bytes = Padded(p.offset)
  BY <1>1, <1>2 DEF NF9Sealed, Datagram9
<1> HIDE DEF d
<1>4. p.out \in Seq(Datagram9)
  BY <1>1 DEF Good9
<1>5. /\ g \in Seq(Datagram9) /\ Len(g) = Len(p.out) + 1
      /\ \A k \in 1..Len(p.out) : g[k] = p.out[k]
      /\ g[Len(p.out) + 1] = d
  BY <1>3, <1>4, AppendProperties
<1>6. RecsOf(g) = RecsOf(p.out) \o d.recs
  <2>1. p.out \in Seq(Datagram) /\ d \in Datagram
    BY <1>3, <1>4 DEF Datagram
  <2>2. QED
    BY <2>1, RecsOfAppend
<1> HIDE DEF g
<1>7. ASSUME NEW k \in 1..Len(g) PROVE g[k].recs # <<>> /\ g[k].bytes <= NF9_PACKET
  <2>1. CASE k = Len(p.out) + 1
    BY <1>2, <1>3, <1>5, <2>1
  <2>2. CASE k # Len(p.out) + 1
    <3>1. Len(p.out) \in Nat
      BY <1>4
    <3>2. k \in 1..Len(p.out)
      BY <1>5, <2>2, <3>1
    <3>3. QED
      BY <1>1, <1>5, <3>2 DEF Good9
  <2>3. QED
    BY <2>1, <2>2
<1>8. QED
  BY <1>1, <1>3, <1>5, <1>6, <1>7 DEF Good9, g, d

(* One more flow.                                                          *)
LEMMA Flow9OK ==
    ASSUME NEW c, CallOK(c), Dialect, version = 9, NEW i \in 1..Len(c.flows), NEW p, Packed9(p, c, i - 1)
    PROVE  Packed9(NF9Flow(p, c.flows[i]), c, i) /\ NF9Flow(p, c.flows[i]).recs # <<>>
<1> DEFINE f == c.flows[i]
           q == NF9Close(p)
<1>1. f \in Flows
  BY DEF CallOK, Call
<1>2. CASE NF9Offset(p, f) <= NF9_PACKET
  <2>1. NF9Flow(p, f) = NF9Add(p, f)
    BY <1>2 DEF NF9Flow
  <2>2. QED
    BY <1>2, <2>1, AddOK
<1>3. CASE ~(NF9Offset(p, f) <= NF9_PACKET)
  <2>1. NF9Flow(p, f) = NF9Add(q, f)
    BY <1>3 DEF NF9Flow
  <2>2. p = NF9State(p) /\ p.until \in Int /\ p.next \in Nat /\ p.offset \in Nat
    BY DEF Packed9
  <2>3. p.recs # <<>>
    <3>1. SUFFICES ASSUME p.recs = <<>> PROVE FALSE
      OBVIOUS
    <3>2. p.af = 0 /\ p.offset <= 124
      BY <3>1 DEF Packed9
    <3>3. QED
      BY <1>1, <1>3, <2>2, <3>2, OffsetOK
  <2>4. /\ q = NF9State(q) /\ q.out = Append(p.out, NF9Sealed(p)) /\ q.recs = <<>> /\ q.af = 0
        /\ q.offset \in {20, 124} /\ q.until \in Int /\ q.seq = p.next /\ q.next = p.next
    BY <2>2, CloseIs
  <2>5. Good9(q.out) /\ RecsOf(q.out) = DueTo(c, i - 1)
    BY <2>3, <2>4, Seal9OK
  <2> HIDE DEF q
  <2>6. NF9_PACKET \in Nat /\ NF9_PACKET >= 238
    BY ExportAssumption
  <2>7. q.offset \in Nat /\ q.offset <= 124 /\ q.offset <= NF9_PACKET
    BY <2>4, <2>6
  <2>8. NF9Offset(q, f) <= NF9_PACKET
    BY <1>1, <2>4, <2>7, OffsetOK
  <2>9. RecsOf(q.out) \o q.recs = DueTo(c, i - 1)
    <3>1. i - 1 \in 0..Len(c.flows)
      BY DEF CallOK, Call
    <3>2. DueTo(c, i - 1) \in Seq(Rec)
      BY <3>1, DueSteps
    <3>3. DueTo(c, i - 1) \o <<>> = DueTo(c, i - 1)
      BY <3>2, ConcatEmptySeq
    <3>4. QED
      BY <2>4, <2>5, <3>3
  <2>10. q.recs \in Seq(Rec) /\ q.seq \in Nat /\ q.next \in Nat
    BY <2>2, <2>4
  <2>11. Packed9(q, c, i - 1)
    BY <2>4, <2>5, <2>7, <2>9, <2>10 DEF Packed9
  <2>12. QED
    BY <2>1, <2>8, <2>11, AddOK
<1>4. QED
  BY <1>2, <1>3

(* The datagrams of a call of version 9.                                   *)
LEMMA Pack9OK ==
    ASSUME NEW c, CallOK(c), Dialect, version = 9, until_template \in Int
    PROVE  Good9(Pack9(c)) /\ RecsOf(Pack9(c)) = Due(c)
<1> DEFINE n == Len(c.flows)
           s == Packing9(c)
           At(i) == Packed9(s[i], c, i) /\ (i # 0 => s[i].recs # <<>>)
           P == {i \in Nat : i \in 0..n => At(i)}
<1>1. c.flows \in Seq(Flows) /\ n \in Nat
  BY DEF CallOK, Call
<1>2. s[0] = NF9Start /\ \A i \in 1..n : s[i] = NF9Flow(s[i - 1], c.flows[i])
  BY <1>1, Packing9Is
<1>3. DueTo(c, 0) = <<>> /\ DueTo(c, n) = Due(c)
  BY DueSteps
<1>4. Good9(<<>>) /\ RecsOf(<<>>) = <<>>
  <2>1. <<>> \in Seq(Datagram9) /\ Len(<<>>) = 0
    OBVIOUS
  <2>2. QED
    BY <2>1, RecsOfEmpty DEF Good9
<1>5. Packed9(NF9Start, c, 0)
  <2> DEFINE b == [out |-> <<>>, recs |-> <<>>, af |-> 0, offset |-> 0,
                   until |-> until_template, seq |-> flows_exported,
                   next |-> flows_exported]
             t == NF9Start
  <2>1. b = NF9State(b) /\ b.out = <<>> /\ b.until \in Int /\ b.seq \in Nat /\ b.next \in Nat
    BY DEF NF9State, Dialect
  <2>2. t = NF9Open(b)
    BY DEF NF9Start
  <2> HIDE DEF b, t
  <2>3. /\ t = NF9State(t) /\ t.out = b.out /\ t.recs = <<>> /\ t.af = 0
        /\ t.offset \in {20, 124} /\ t.until \in Int /\ t.seq = b.seq /\ t.next = b.next
    BY <2>1, <2>2, OpenIs
  <2>4. NF9_PACKET \in Nat /\ NF9_PACKET >= 238
    BY ExportAssumption
  <2>5. t.offset \in Nat /\ t.offset <= 124 /\ t.offset <= NF9_PACKET
    BY <2>3, <2>4
  <2>6. <<>> \in Seq(Rec) /\ <<>> \o <<>> = <<>>
    OBVIOUS
  <2>7. RecsOf(t.out) \o t.recs = DueTo(c, 0) /\ Good9(t.out)
    BY <1>3, <1>4, <2>1, <2>3, <2>6, Zenon
  <2>8. Packed9(t, c, 0)
    BY <2>1, <2>3, <2>5, <2>6, <2>7 DEF Packed9
  <2>9. QED
    BY <2>8 DEF t
<1> HIDE DEF s, n
<1>6. 0 \in P
  BY <1>2, <1>5
<1>7. ASSUME NEW i \in P PROVE i + 1 \in P
  <2>1. SUFFICES ASSUME i + 1 \in 0..n PROVE At(i + 1)
    OBVIOUS
  <2>2. i \in 0..n /\ i + 1 \in 1..n /\ (i + 1) - 1 = i
    BY <1>1, <2>1
  <2>3. Packed9(s[i], c, i) /\ s[i + 1] = NF9Flow(s[i], c.flows[i + 1])
    BY <1>2, <2>2
  <2>4. QED
    BY <2>2, <2>3, Flow9OK DEF n
<1>8. P = Nat
  <2>1. P \subseteq Nat /\ \A i \in P : i + 1 \in P
    BY <1>7
  <2> HIDE DEF P
  <2>2. QED
    BY <1>6, <2>1, NatInduct
<1> DEFINE e == s[n]
<1>9. Packed9(e, c, n) /\ (n # 0 => e.recs # <<>>)
  <2>1. n \in P /\ n \in 0..n
    <3> HIDE DEF P
    <3>1. QED
      BY <1>1, <1>8
  <2>2. QED
    BY <2>1
<1>10. Pack9(c) = IF c.flows = <<>> THEN <<>> ELSE Append(e.out, NF9Sealed(e))
  BY DEF Pack9, s, n
<1> HIDE DEF e
<1>11. CASE c.flows = <<>>
  <2>1. n = 0
    BY <1>11 DEF n
  <2>2. QED
    BY <1>3, <1>4, <1>10, <1>11, <2>1
<1>12. CASE c.flows # <<>>
  <2>1. n # 0
    BY <1>1, <1>12, EmptySeq DEF n
  <2>2. QED
    BY <1>3, <1>9, <1>10, <1>12, <2>1, Seal9OK
<1>13. QED
  BY <1>11, <1>12

-----------------------------------------------------------------------------
(* The senders over time *)

(* The senders' part of the inductive invariant.  The sequence numbers     *)
(* count the records sent before, because flows_exported counts those of   *)
(* the datagrams that went out and no others.                              *)
ExportTypes ==
    /\ version \in {1, 5, 9} /\ using_emulator \in {0, 1}
    /\ flows_exported \in Nat /\ until_template \in Int
    /\ calls \in Seq(Call) /\ \A i \in 1 .. Len(calls) : CallOK(calls[i])
    /\ sent \in Seq(Datagram) /\ net \subseteq 1 .. Len(sent)

Numbered ==
    version # 9 =>
        /\ flows_exported = RecordsIn(sent)
        /\ \A i \in 1 .. Len(sent) : sent[i].seq = RecordsIn(SubSeq(sent, 1, i - 1))

ExpInv == ExportTypes /\ Numbered

(* The calls of a scan.                                                    *)
LEMMA CallsOfOK ==
    ASSUME NEW batch \in Seq(Flows), using_emulator \in {0, 1}
    PROVE  CallsOf(batch) \in Seq(Call) /\ \A i \in 1..Len(CallsOf(batch)) : CallOK(CallsOf(batch)[i])
<1> DEFINE OK == {c \in Call : CallOK(c)}
<1>1. SUFFICES CallsOf(batch) \in Seq(OK)
  <2> DEFINE s == CallsOf(batch)
  <2>1. ASSUME s \in Seq(OK) PROVE s \in Seq(Call) /\ \A i \in 1..Len(s) : CallOK(s[i])
    <3>1. \A i \in 1..Len(s) : s[i] \in OK
      BY <2>1
    <3>2. s \in Seq(Call)
      <4>1. OK \subseteq Call
        OBVIOUS
      <4> HIDE DEF OK, s
      <4>2. QED
        BY <2>1, <4>1
    <3>3. QED
      BY <3>1, <3>2
  <2>2. QED
    BY <2>1
<1>2. CASE using_emulator = 0
  <2>1. [flows |-> batch, monitor |-> 0, inOut |-> -1] \in OK
    BY <1>2 DEF CallOK, Call
  <2> HIDE DEF OK
  <2>2. <<[flows |-> batch, monitor |-> 0, inOut |-> -1]>> \in Seq(OK)
    BY <2>1
  <2>3. QED
    BY <1>2, <2>2 DEF CallsOf
<1>3. CASE using_emulator # 0
  <2> DEFINE One(i, d) == [flows |-> Selected(batch, Monitors[i], d - 1),
                           monitor |-> Monitors[i], inOut |-> d - 1]
             Two(i) == [d \in 1 .. 2 |-> One(i, d)]
             M == [i \in 1 .. Len(Monitors) |-> Two(i)]
  <2>1. ASSUME NEW i \in 1..Len(Monitors), NEW d \in 1..2 PROVE One(i, d) \in OK
    <3>1. Monitors[i] \in Nat
      BY ExportAssumption
    <3>2. Selected(batch, Monitors[i], d - 1) \in Seq(Flows)
      <4> DEFINE L(k) == Listed(batch[k], Monitors[i], d - 1)
                 N == [k \in 1 .. Len(batch) |-> L(k)]
      <4>1. \A k \in 1..Len(batch) : L(k) \in Seq(Flows)
        BY DEF Listed
      <4> HIDE DEF L
      <4>2. Len(batch) \in Nat
        OBVIOUS
      <4>3. N \in Seq(Seq(Flows))
        BY <4>1, <4>2
      <4> HIDE DEF N
      <4>4. FlattenSeq(N) \in Seq(Flows)
        BY <4>3, FlattenFew
      <4>5. QED
        BY <4>4 DEF Selected, N, L
    <3>3. d - 1 \in Directions /\ d - 1 \in -1..1
      BY DEF Directions
    <3>4. One(i, d) \in Call
      BY <3>1, <3>2, <3>3 DEF Call
    <3>5. CallOK(One(i, d))
      BY <1>3, <3>3, <3>4 DEF CallOK
    <3>6. QED
      BY <3>4, <3>5
  <2>2. CallsOf(batch) = FlattenSeq(M)
    BY <1>3 DEF CallsOf
  <2> HIDE DEF OK, One
  <2>3. \A i \in 1..Len(Monitors) : Two(i) \in Seq(OK)
    BY <2>1
  <2>4. Len(Monitors) \in Nat
    BY ExportAssumption
  <2> HIDE DEF Two
  <2>5. M \in Seq(Seq(OK))
    BY <2>3, <2>4
  <2> HIDE DEF M
  <2>6. FlattenSeq(M) \in Seq(OK)
    BY <2>5, FlattenFew
  <2>7. QED
    BY <2>2, <2>6
<1>4. QED
  BY <1>2, <1>3

(* The datagrams of a call, for every version.                             *)
LEMMA DatagramsOK ==
    ASSUME NEW c, CallOK(c), Dialect, until_template \in Int
    PROVE  /\ Datagrams(c) \in Seq(Datagram)
           /\ RecsOf(Datagrams(c)) = Due(c)
           /\ version = 9 => Good9(Datagrams(c))
           /\ version # 9 => Good5(Datagrams(c), c)
<1>1. CASE version = 9
  <2>1. Good9(Pack9(c)) /\ RecsOf(Pack9(c)) = Due(c)
    BY <1>1, Pack9OK
  <2>2. Pack9(c) \in Seq(Datagram)
    BY <2>1 DEF Good9, Datagram
  <2>3. QED
    BY <1>1, <2>1, <2>2 DEF Datagrams
<1>2. CASE version # 9
  <2>1. Good5(Pack(c), c) /\ RecsOf(Pack(c)) = Due(c)
    BY <1>2, PackOK
  <2>2. Pack(c) \in Seq(Datagram)
    BY <2>1 DEF Good5, Datagram
  <2>3. QED
    BY <1>2, <2>1, <2>2 DEF Datagrams
<1>3. QED
  BY <1>1, <1>2

(* What the senders' invariant says of the datagrams.                      *)
LEMMA ExpInvExact == ExpInv => ExportExact
<1> SUFFICES ASSUME ExpInv PROVE ExportExact
  OBVIOUS
<1>1. Dialect /\ until_template \in Int
  BY DEF ExpInv, ExportTypes, Dialect
<1>2. ASSUME NEW i \in 1..Len(calls)
      PROVE  /\ RecsOf(Datagrams(calls[i])) = Due(calls[i])
             /\ \A k \in 1..Len(Datagrams(calls[i])) :
                   /\ Datagrams(calls[i])[k].recs # <<>>
                   /\ version = 9 => Datagrams(calls[i])[k].bytes <= NF9_PACKET
                   /\ version # 9 =>
                         /\ Len(Datagrams(calls[i])[k].recs) <= MAXFLOWS
                         /\ Datagrams(calls[i])[k].monitor = calls[i].monitor
  <2> DEFINE c == calls[i]
             g == Datagrams(c)
  <2>1. CallOK(c)
    BY DEF ExpInv, ExportTypes
  <2> HIDE DEF c, g
  <2>2. /\ RecsOf(g) = Due(c)
        /\ \A k \in 1..Len(g) :
                   /\ g[k].recs # <<>>
                   /\ version = 9 => g[k].bytes <= NF9_PACKET
                   /\ version # 9 => Len(g[k].recs) <= MAXFLOWS /\ g[k].monitor = c.monitor
    BY <1>1, <2>1, DatagramsOK DEF Good9, Good5, g
  <2>3. QED
    BY <2>2 DEF g, c
<1>3. version = 5 => \A i \in 1 .. Len(sent) : sent[i].seq = RecordsIn(SubSeq(sent, 1, i - 1))
  BY DEF ExpInv, Numbered
<1>4. QED
  BY <1>2, <1>3 DEF ExportExact, RecsOf

(* A step that leaves the senders alone.                                   *)
LEMMA ExpFrame == ExpInv /\ UNCHANGED exporter /\ net' \subseteq net => ExpInv'
BY DEF ExpInv, ExportTypes, Numbered, CallOK, exporter

(* A scan.                                                                 *)
LEMMA CheckExpiredExp == ExpInv /\ CheckExpired => ExpInv'
<1> SUFFICES ASSUME ExpInv, CheckExpired PROVE ExpInv'
  OBVIOUS
<1>1. PICK batch \in Batches : calls' = CallsOf(batch)
  BY DEF CheckExpired
<1>2. /\ version' = version /\ using_emulator' = using_emulator /\ flows_exported' = flows_exported
      /\ until_template' = until_template /\ sent' = sent /\ net' = net
  BY DEF CheckExpired
<1>3. batch \in Seq(Flows)
  BY BatchesAssumption
<1>4. using_emulator \in {0, 1}
  BY DEF ExpInv, ExportTypes
<1>5. CallsOf(batch) \in Seq(Call) /\ \A i \in 1..Len(CallsOf(batch)) : CallOK(CallsOf(batch)[i])
  BY <1>3, <1>4, CallsOfOK
<1>6. calls' \in Seq(Call) /\ \A i \in 1..Len(calls') : CallOK(calls'[i])
  BY <1>1, <1>5
<1>7. \A i \in 1..Len(calls') : CallOK(calls[i])'
  BY <1>2, <1>6 DEF CallOK
<1>8. ExportTypes'
  BY <1>2, <1>6, <1>7 DEF ExpInv, ExportTypes
<1>9. Numbered'
  BY <1>2 DEF ExpInv, Numbered
<1>10. QED
  BY <1>8, <1>9 DEF ExpInv

(* The beginning of a sequence, and of one that follows another.           *)
Continued(X, a, g, n, t) ==
    /\ t \in Seq(X) /\ Len(t) = Len(a) + n
    /\ \A i \in 1..Len(a) : t[i] = a[i] /\ SubSeq(t, 1, i - 1) = SubSeq(a, 1, i - 1)
    /\ \A k \in 1..n : /\ t[Len(a) + k] = g[k]
                       /\ SubSeq(t, 1, Len(a) + k - 1) = a \o SubSeq(g, 1, k - 1)

(* What went out of a call follows what was sent before.                   *)
LEMMA Beginnings ==
    ASSUME NEW X, NEW a \in Seq(X), NEW g \in Seq(X), NEW n \in 0..Len(g)
    PROVE  SubSeq(g, 1, n) \in Seq(X) /\ Continued(X, a, g, n, a \o SubSeq(g, 1, n))
<1> DEFINE h == SubSeq(g, 1, n)
           t == a \o h
           l == Len(a)
<1>1. l \in Nat /\ Len(g) \in Nat /\ n \in Nat /\ n <= Len(g)
  OBVIOUS
<1>2. h \in Seq(X) /\ Len(h) = n /\ \A i \in 1..n : h[i] = g[i]
  BY <1>1
<1> HIDE DEF h
<1>3. /\ t \in Seq(X) /\ Len(t) = l + n
      /\ \A i \in 1..l : t[i] = a[i]
      /\ \A i \in l + 1 .. l + n : t[i] = h[i - l]
  <2>1. t \in Seq(X) /\ Len(t) = Len(a) + Len(h)
    BY <1>2, ConcatProperties
  <2>2. \A i \in 1..Len(t) : t[i] = IF i <= Len(a) THEN a[i] ELSE h[i - Len(a)]
    BY <1>2, ConcatProperties
  <2> HIDE DEF t
  <2>3. QED
    BY <1>1, <1>2, <2>1, <2>2
<1> HIDE DEF t
<1>4. ASSUME NEW i \in 1..l PROVE SubSeq(t, 1, i - 1) = SubSeq(a, 1, i - 1)
  <2> DEFINE x == SubSeq(t, 1, i - 1)
             y == SubSeq(a, 1, i - 1)
  <2>1. i - 1 \in Nat /\ i - 1 <= l /\ i - 1 <= l + n
    BY <1>1
  <2>2. x \in Seq(X) /\ Len(x) = i - 1 /\ \A j \in 1..i - 1 : x[j] = t[j]
    BY <1>1, <1>3, <2>1
  <2>3. y \in Seq(X) /\ Len(y) = i - 1 /\ \A j \in 1..i - 1 : y[j] = a[j]
    BY <1>1, <2>1
  <2>4. \A j \in 1..i - 1 : t[j] = a[j]
    BY <1>1, <1>3
  <2> HIDE DEF x, y
  <2>5. x = y
    BY <2>2, <2>3, <2>4, SeqEqual
  <2>6. QED
    BY <2>5 DEF x, y
<1>5. ASSUME NEW k \in 1..n
      PROVE  t[l + k] = g[k] /\ SubSeq(t, 1, l + k - 1) = a \o SubSeq(g, 1, k - 1)
  <2> DEFINE m == l + k - 1
             x == SubSeq(t, 1, m)
             y == SubSeq(g, 1, k - 1)
             z == a \o y
  <2>1. /\ k \in Nat /\ l + k \in l + 1 .. l + n /\ (l + k) - l = k /\ k - 1 \in Nat /\ k - 1 <= Len(g)
        /\ m \in Nat /\ m <= l + n /\ m = l + (k - 1)
    BY <1>1
  <2>2. t[l + k] = g[k]
    BY <1>2, <1>3, <2>1
  <2>3. y \in Seq(X) /\ Len(y) = k - 1 /\ \A j \in 1..k - 1 : y[j] = g[j]
    BY <1>1, <2>1
  <2> HIDE DEF y, m
  <2>4. x \in Seq(X) /\ Len(x) = m /\ \A j \in 1..m : x[j] = t[j]
    BY <1>3, <2>1
  <2>5. z \in Seq(X) /\ Len(z) = l + (k - 1) /\ \A j \in 1..Len(z) : z[j] = IF j <= l THEN a[j] ELSE y[j - l]
    <3>1. z \in Seq(X) /\ Len(z) = l + Len(y)
      BY <2>3, ConcatProperties
    <3>2. \A j \in 1..Len(z) : z[j] = IF j <= l THEN a[j] ELSE y[j - l]
      BY <2>3, ConcatProperties
    <3> HIDE DEF z
    <3>3. QED
      BY <2>3, <3>1, <3>2
  <2> HIDE DEF x, z
  <2>6. ASSUME NEW j \in 1..m PROVE x[j] = z[j]
    <3>1. j \in 1..Len(z) /\ x[j] = t[j]
      BY <2>1, <2>4, <2>5
    <3>2. CASE j <= l
      BY <1>1, <1>3, <2>5, <3>1, <3>2
    <3>3. CASE ~(j <= l)
      <4>1. j \in l + 1 .. l + n /\ j - l \in 1..k - 1 /\ j - l \in 1..n
        BY <1>1, <2>1, <3>3
      <4>2. t[j] = h[j - l] /\ h[j - l] = g[j - l] /\ y[j - l] = g[j - l]
        BY <1>2, <1>3, <2>3, <4>1
      <4>3. QED
        BY <2>5, <3>1, <3>3, <4>2
    <3>4. QED
      BY <3>2, <3>3
  <2>7. x = z
    BY <2>1, <2>4, <2>5, <2>6, SeqEqual
  <2>8. QED
    BY <2>2, <2>7 DEF x, z, y, m
<1>6. QED
  BY <1>2, <1>3, <1>4, <1>5 DEF t, h, l, Continued

(* A call of a sender, of which some datagrams went out.                   *)
LEMMA SendNetflowExp == ExpInv /\ SendNetflow => ExpInv'
<1> SUFFICES ASSUME ExpInv, SendNetflow PROVE ExpInv'
  OBVIOUS
<1> DEFINE c == Head(calls)
           g == Datagrams(c)
<1>1. PICK n \in 0 .. Len(Datagrams(Head(calls))) :
          /\ sent' = sent \o SubSeq(Datagrams(Head(calls)), 1, n)
          /\ net' = net \cup (Len(sent) + 1 .. Len(sent) + n)
          /\ flows_exported' = flows_exported + Exported(Head(calls), n)
          /\ until_template' = UntilTemplate(Head(calls), n)
  BY DEF SendNetflow
<1>2. /\ calls # <<>> /\ calls' = Tail(calls)
      /\ version' = version /\ using_emulator' = using_emulator
  BY DEF SendNetflow
<1>3. /\ Dialect /\ until_template \in Int /\ flows_exported \in Nat
      /\ version \in {1, 5, 9} /\ using_emulator \in {0, 1}
      /\ calls \in Seq(Call) /\ sent \in Seq(Datagram)
      /\ net \subseteq 1..Len(sent)
  BY DEF ExpInv, ExportTypes, Dialect
<1>4. CallOK(c)
  <2>1. 1 \in 1..Len(calls) /\ c = calls[1]
    BY <1>2, <1>3, EmptySeq
  <2>2. QED
    BY <2>1 DEF ExpInv, ExportTypes
<1>5. g \in Seq(Datagram)
  BY <1>3, <1>4, DatagramsOK
<1>6. version # 9 => Good5(g, c)
  BY <1>3, <1>4, DatagramsOK
<1>7. Len(sent) \in Nat /\ Len(g) \in Nat /\ n \in 0..Len(g)
  BY <1>1, <1>3, <1>5
<1>8. calls' \in Seq(Call) /\ \A i \in 1..Len(calls') : CallOK(calls[i])'
  <2>1. /\ Tail(calls) \in Seq(Call) /\ Len(Tail(calls)) = Len(calls) - 1
        /\ \A i \in 1..Len(Tail(calls)) : Tail(calls)[i] = calls[i + 1]
    BY <1>2, <1>3, HeadTailProperties
  <2>2. Len(calls) \in Nat
    BY <1>3
  <2>3. \A i \in 1..Len(Tail(calls)) : i + 1 \in 1..Len(calls)
    BY <2>1, <2>2
  <2>4. \A i \in 1..Len(calls') : calls'[i] = calls[i + 1] /\ CallOK(calls[i + 1])
    BY <1>2, <2>1, <2>3 DEF ExpInv, ExportTypes
  <2>5. \A i \in 1..Len(calls') : CallOK(calls'[i])
    BY <2>4
  <2>6. QED
    BY <1>2, <2>1, <2>5 DEF CallOK
<1> DEFINE h == SubSeq(g, 1, n)
<1>9. h \in Seq(Datagram) /\ sent' = sent \o h /\ Continued(Datagram, sent, g, n, sent')
  <2>1. sent' = sent \o h
    BY <1>1
  <2> HIDE DEF g
  <2>2. SubSeq(g, 1, n) \in Seq(Datagram) /\ Continued(Datagram, sent, g, n, sent \o SubSeq(g, 1, n))
    BY <1>3, <1>5, <1>7, Beginnings
  <2>3. QED
    BY <2>1, <2>2
<1>10. \A a \in Seq(Datagram) : RecordsIn(a) \in Nat
  <2>1. [seq |-> 0, monitor |-> 0, recs |-> <<>>] \in Datagram
    BY DEF Datagram, Datagram5
  <2>2. QED
    BY <2>1, CountAppend
<1>11. Exported(c, n) \in Nat /\ (version # 9 => Exported(c, n) = RecordsIn(h))
  <2>1. Len(c.flows) \in Nat
    BY <1>4 DEF CallOK, Call
  <2>2. RecordsIn(h) \in Nat
    BY <1>9, <1>10
  <2>3. QED
    BY <2>1, <2>2 DEF Exported
<1>12. UntilTemplate(c, n) \in Int
  <2>1. CASE version # 9 \/ g = <<>>
    BY <1>3, <2>1 DEF UntilTemplate
  <2>2. CASE ~(version # 9 \/ g = <<>>)
    <3>1. g \in Seq(Datagram9)
      BY <1>3, <1>4, <2>2, DatagramsOK DEF Good9
    <3>2. UntilTemplate(c, n) = IF n < Len(g) THEN g[n + 1].until ELSE g[n].until - 1
      BY <2>2 DEF UntilTemplate
    <3>3. \A i \in 1..Len(g) : g[i].until \in Int
      <4>1. \A e \in Datagram9 : e.until \in Int
        BY DEF Datagram9
      <4> HIDE DEF g
      <4>2. QED
        BY <3>1, <4>1
    <3>4. Len(g) > 0
      BY <1>7, <2>2, <3>1, EmptySeq
    <3> HIDE DEF g, c
    <3>5. QED
      BY <1>7, <3>2, <3>3, <3>4
  <2>3. QED
    BY <2>1, <2>2
<1> HIDE DEF g, c
<1>13. ExportTypes'
  <2>1. flows_exported' \in Nat /\ until_template' \in Int
    BY <1>1, <1>3, <1>11, <1>12 DEF g, c
  <2>2. net' \subseteq 1..Len(sent')
    <3>1. Len(sent') = Len(sent) + n
      BY <1>9 DEF Continued
    <3>2. net' = net \cup (Len(sent) + 1 .. Len(sent) + n)
      BY <1>1
    <3> DEFINE l == Len(sent)
               m == Len(sent')
    <3>3. /\ l \in Nat /\ n \in Nat /\ m = l + n /\ net \subseteq 1..l
          /\ net' = net \cup (l + 1 .. l + n)
      BY <1>3, <1>7, <3>1, <3>2
    <3> HIDE DEF l, m
    <3>4. 1..l \subseteq 1..m /\ l + 1 .. l + n \subseteq 1..m
      BY <3>3
    <3>5. net' \subseteq 1..m
      BY <3>3, <3>4
    <3>6. QED
      BY <3>5 DEF m
  <2>3. sent' \in Seq(Datagram)
    BY <1>9 DEF Continued
  <2>4. QED
    BY <1>2, <1>3, <1>8, <2>1, <2>2, <2>3 DEF ExportTypes
<1>14. Numbered'
  <2>1. SUFFICES ASSUME version # 9
                 PROVE  /\ flows_exported' = RecordsIn(sent')
                        /\ \A i \in 1 .. Len(sent') : sent'[i].seq = RecordsIn(SubSeq(sent', 1, i - 1))
    BY <1>2 DEF Numbered
  <2>2. /\ flows_exported = RecordsIn(sent)
        /\ \A i \in 1 .. Len(sent) : sent[i].seq = RecordsIn(SubSeq(sent, 1, i - 1))
    BY <2>1 DEF ExpInv, Numbered
  <2>3. RecordsIn(sent') = RecordsIn(sent) + RecordsIn(h)
    BY <1>3, <1>9, CountConcat
  <2>4. flows_exported' = RecordsIn(sent')
    BY <1>1, <1>11, <2>1, <2>2, <2>3 DEF g, c
  <2>5. ASSUME NEW k \in 1..n
        PROVE sent'[Len(sent) + k].seq = RecordsIn(SubSeq(sent', 1, Len(sent) + k - 1))
    <3> DEFINE b == SubSeq(g, 1, k - 1)
    <3>1. b \in Seq(Datagram)
      BY <1>5, <1>7
    <3>2. RecordsIn(sent \o b) = RecordsIn(sent) + RecordsIn(b)
      BY <1>3, <3>1, CountConcat
    <3>3. k \in 1..Len(g)
      BY <1>7
    <3>4. g[k].seq = flows_exported + RecordsIn(b)
      BY <1>6, <2>1, <3>3 DEF Good5
    <3> HIDE DEF b
    <3>5. g[k].seq = RecordsIn(sent \o b)
      BY <2>2, <3>2, <3>4
    <3>6. QED
      BY <1>9, <3>5 DEF b, Continued
  <2>6. ASSUME NEW i \in 1 .. Len(sent') PROVE sent'[i].seq = RecordsIn(SubSeq(sent', 1, i - 1))
    <3>1. CASE i \in 1..Len(sent)
      BY <1>9, <2>2, <3>1 DEF Continued
    <3>2. CASE i \notin 1..Len(sent)
      <4> DEFINE k == i - Len(sent)
      <4>1. Len(sent') = Len(sent) + n
        BY <1>9 DEF Continued
      <4>2. k \in 1..n /\ i = Len(sent) + k
        BY <1>7, <3>2, <4>1
      <4> HIDE DEF k
      <4>3. sent'[Len(sent) + k].seq = RecordsIn(SubSeq(sent', 1, Len(sent) + k - 1))
        BY <2>5, <4>2
      <4>4. QED
        BY <4>2, <4>3
    <3>3. QED
      BY <3>1, <3>2
  <2>7. QED
    BY <2>4, <2>6
<1>15. QED
  BY <1>13, <1>14 DEF ExpInv

(* The senders' invariant.                                                 *)
LEMMA ExpInvariant == ExportSpec => []ExpInv
<1>1. ExportInit => ExpInv
  <2>1. RecordsIn(<<>>) = 0
    BY CountEmpty
  <2>2. <<>> \in Seq(Call) /\ <<>> \in Seq(Datagram) /\ Len(<<>>) = 0
    OBVIOUS
  <2>3. QED
    BY <2>1, <2>2 DEF ExportInit, ExpInv, ExportTypes, Numbered
<1>2. ExpInv /\ [ExportNext]_exportVars => ExpInv'
  <2>1. SUFFICES ASSUME ExpInv, [ExportNext]_exportVars PROVE ExpInv'
    OBVIOUS
  <2>2. CASE CheckExpired
    BY <2>1, <2>2, CheckExpiredExp
  <2>3. CASE SendNetflow
    BY <2>1, <2>3, SendNetflowExp
  <2>4. CASE StartLog
    BY <2>1, <2>4, ExpFrame DEF StartLog
  <2>5. CASE ReceivePacket
    <3>1. net' \subseteq net /\ UNCHANGED exporter
      BY <2>5 DEF ReceivePacket
    <3>2. QED
      BY <2>1, <3>1, ExpFrame
  <2>6. CASE ProcessFlow
    BY <2>1, <2>6, ExpFrame DEF ProcessFlow
  <2>7. CASE OutputFlush
    BY <2>1, <2>7, ExpFrame DEF OutputFlush
  <2>8. CASE FlushFails
    BY <2>1, <2>8, ExpFrame DEF FlushFails, Down
  <2>9. CASE Killed
    BY <2>1, <2>9, ExpFrame DEF Killed, Down
  <2>10. CASE UNCHANGED exportVars
    BY <2>1, <2>10, ExpFrame DEF exportVars
  <2>11. QED
    BY <2>1, <2>2, <2>3, <2>4, <2>5, <2>6, <2>7, <2>8, <2>9, <2>10 DEF ExportNext
<1>3. QED
  BY <1>1, <1>2, PTL DEF ExportSpec

(* The senders put every record of a call into exactly one datagram, in    *)
(* order and within the limits of their version, under the header of the   *)
(* records' own monitor, and the sequence numbers of version 5 count the   *)
(* records sent before, whatever sends have failed (netflow1.c,            *)
(* netflow5.c, netflow9.c called by check_expired).                        *)
THEOREM SendersExact == ExportSpec => []ExportExact
BY ExpInvariant, ExpInvExact, PTL

-----------------------------------------------------------------------------
(* The filter *)

(* A net has at least one address.                                         *)
LEMMA SpanPositive == \A k \in 0..Bits : Span[k] \in Nat \ {0}
<1> DEFINE V == Nat \ {0}
           Step(f) == [k \in 0..Bits |-> IF k = 0 THEN 1 ELSE 2 * f[k - 1]]
           g == [p \in Nat \X V |-> 2 * p[2]]
           w == Span
<1>1. Bits \in Nat /\ 1 \in V /\ \A v \in V : 2 * v \in V
  BY ExportAssumption
<1>2. w = CHOOSE h : h = Step(h)
  BY DEF Span
<1> HIDE DEF V, w
<1>3. g \in [Nat \X V -> V]
  BY <1>1
<1>4. \A k \in Nat, v \in V : g[<<k, v>>] = 2 * v
  OBVIOUS
<1> HIDE DEF g
<1>5. PICK f : Recursive(f, Bits, V, 1, g)
  BY <1>1, <1>3, RecursionExists
<1>6. f = Step(f)
  <2>1. ASSUME NEW k \in 0..Bits PROVE f[k] = Step(f)[k]
    <3>1. CASE k = 0
      BY <1>5, <3>1 DEF Recursive
    <3>2. CASE k # 0
      <4>1. k \in 1..Bits /\ k - 1 \in 0..Bits /\ k \in Nat
        BY <1>1, <3>2
      <4>2. f[k - 1] \in V /\ f[k] = g[<<k, f[k - 1]>>]
        BY <1>5, <4>1 DEF Recursive
      <4>3. QED
        BY <1>4, <3>2, <4>1, <4>2
    <3>3. QED
      BY <3>1, <3>2
  <2>2. QED
    BY <1>5, <2>1 DEF Recursive
<1>7. w = Step(w)
  BY <1>2, <1>6
<1>8. w = [k \in 0..Bits |-> w[k]] /\ w[0] = 1
  BY <1>1, <1>7
<1>9. ASSUME NEW k \in 1..Bits PROVE w[k] = 2 * w[k - 1]
  <2>1. k \in 0..Bits /\ k # 0
    BY <1>1
  <2>2. QED
    BY <1>7, <2>1
<1>10. Recursive(w, Bits, V, 1, g)
  <2>1. \A k \in 1..Bits : w[k - 1] \in V => w[k] = g[<<k, w[k - 1]>>]
    BY <1>1, <1>4, <1>9
  <2>2. QED
    BY <1>1, <1>3, <1>8, <2>1, RecursionTyped
<1>11. QED
  BY <1>10 DEF Recursive, V, w

(* Rounding down to a multiple.                                            *)
LEMMA RoundDown ==
    ASSUME NEW s \in Nat \ {0}, NEW h \in Nat, NEW a \in Nat
    PROVE  (h - (h % s) = a) <=> (a % s = 0 /\ a <= h /\ h <= a + s - 1)
<1> DEFINE q == h \div s
           r == h % s
           p == a \div s
           t == a % s
<1>1. q \in Nat /\ r \in 0..(s - 1) /\ h = s * q + r
  OBVIOUS
<1>2. p \in Nat /\ t \in 0..(s - 1) /\ a = s * p + t
  OBVIOUS
<1> HIDE DEF q, r, p, t
<1> DEFINE x == s * q
           y == s * p
<1>3. x \in Nat /\ y \in Nat /\ h = x + r /\ a = y + t
  BY <1>1, <1>2
<1>4. q < p => x + s <= y
  <2>1. SUFFICES ASSUME q < p PROVE x + s <= y
    OBVIOUS
  <2>2. p - q - 1 \in Nat
    BY <1>1, <1>2, <2>1
  <2>3. s * (p - q - 1) \in Nat
    BY <2>2
  <2>4. s * (p - q - 1) = s * p - s * q - s
    BY <1>1, <1>2
  <2> DEFINE z == s * (p - q - 1)
  <2>5. z \in Nat /\ z = y - x - s
    BY <2>3, <2>4
  <2> HIDE DEF x, y, z
  <2>6. QED
    BY <1>3, <2>5
<1>5. p < q => y + s <= x
  <2>1. SUFFICES ASSUME p < q PROVE y + s <= x
    OBVIOUS
  <2>2. q - p - 1 \in Nat
    BY <1>1, <1>2, <2>1
  <2>3. s * (q - p - 1) \in Nat
    BY <2>2
  <2>4. s * (q - p - 1) = s * q - s * p - s
    BY <1>1, <1>2
  <2> DEFINE z == s * (q - p - 1)
  <2>5. z \in Nat /\ z = x - y - s
    BY <2>3, <2>4
  <2> HIDE DEF x, y, z
  <2>6. QED
    BY <1>3, <2>5
<1>6. p = q => x = y
  OBVIOUS
<1> HIDE DEF x, y
<1>7. p = q \/ p < q \/ q < p
  BY <1>1, <1>2
<1>8. (h - r = a) <=> (t = 0 /\ a <= h /\ h <= a + s - 1)
  BY <1>1, <1>2, <1>3, <1>4, <1>5, <1>6, <1>7
<1>9. QED
  BY <1>8 DEF r, t

(* The least number of a set.                                              *)
LEMMA MinIs ==
    ASSUME NEW T, T \subseteq Nat, T # {}
    PROVE  Min(T) \in T /\ \A y \in T : Min(T) <= y
<1>1. \E x \in T : \A y \in T : x <= y
  BY NatLeast
<1>2. \E x \in T : \A y \in T : x =< y
  BY <1>1
<1>3. QED
  BY <1>2, Zenon DEF Min

(* Which rules match, as the search sees it and as Ruled does.             *)
Holds(flow, what, r) ==
    /\ r.match[what][1] % Span[Bits - r.match[what][2]] = 0
    /\ flow[what] \in r.match[what][1] .. r.match[what][1] + Span[Bits - r.match[what][2]] - 1
Applies(flow, r) ==
    \A what \in DOMAIN r.match :
        IF what \in r.negate THEN ~Holds(flow, what, r) ELSE Holds(flow, what, r)

(* A rule matches when its nets hold the flow's addresses, or do not.      *)
LEMMA MatchIs ==
    ASSUME NEW r \in Rules, NEW flow \in PlainFlow
    PROVE  flow_match(r, flow) <=> Applies(flow, r)
<1>1. DOMAIN r.match \subseteq Criteria /\ \A what \in DOMAIN r.match : r.match[what] \in Nets
  BY DEF Rules
<1>2. ASSUME NEW what \in DOMAIN r.match
      PROVE  addr_netmatch(flow[what], r.match[what][1], r.match[what][2]) <=> Holds(flow, what, r)
  <2> DEFINE h == flow[what]
             a == r.match[what][1]
             s == Span[Bits - r.match[what][2]]
  <2>1. h \in Nat
    BY <1>1 DEF PlainFlow, Criteria
  <2>2. a \in Nat /\ Bits - r.match[what][2] \in 0..Bits
    <3>1. r.match[what][1] \in 0 .. 2^Bits - 1 /\ r.match[what][2] \in 0..Bits
      BY <1>1 DEF Nets
    <3>2. QED
      BY <3>1, ExportAssumption, SMTT(20)
  <2>3. s \in Nat \ {0}
    BY <2>2, SpanPositive
  <2> HIDE DEF h, a, s
  <2>4. (h - (h % s) = a) <=> (a % s = 0 /\ a <= h /\ h <= a + s - 1)
    BY <2>1, <2>2, <2>3, RoundDown
  <2>5. h \in a .. a + s - 1 <=> (a <= h /\ h <= a + s - 1)
    BY <2>1, <2>2, <2>3
  <2>6. QED
    BY <2>4, <2>5 DEF h, a, s, addr_netmatch, Holds
<1>3. ASSUME NEW what \in DOMAIN r.match
      PROVE  (addr_netmatch(flow[what], r.match[what][1], r.match[what][2]) # (what \in r.negate))
               <=> IF what \in r.negate THEN ~Holds(flow, what, r) ELSE Holds(flow, what, r)
  <2>1. addr_netmatch(flow[what], r.match[what][1], r.match[what][2]) \in BOOLEAN
    BY DEF addr_netmatch
  <2>2. CASE what \in r.negate
    BY <1>2, <2>1, <2>2
  <2>3. CASE what \notin r.negate
    BY <1>2, <2>1, <2>3
  <2>4. QED
    BY <2>2, <2>3
<1>4. QED
  BY <1>3, Zenon DEF flow_match, Applies

(* Where the search is after i rules: at the rule that decides among them. *)
Found(flow, i, s) ==
    \/ s = SearchStart /\ \A j \in 1..i : ~Applies(flow, filter_list[j])
    \/ \E j \in 1..i :
          /\ Applies(flow, filter_list[j])
          /\ s = [last |-> <<filter_list[j]>>, stop |-> filter_list[j].quick]
          /\ \A k \in 1..i : Applies(flow, filter_list[k]) =>
                /\ filter_list[j].quick => (filter_list[k].quick => j <= k)
                /\ ~filter_list[j].quick => k <= j /\ ~filter_list[k].quick

(* One more rule.                                                          *)
LEMMA TryFound ==
    ASSUME filter_list \in Seq(Rules), NEW flow \in PlainFlow, NEW i \in Nat,
           i + 1 <= Len(filter_list), NEW s, Found(flow, i, s)
    PROVE  Found(flow, i + 1, Try(s, filter_list[i + 1], flow))
<1> DEFINE r == filter_list[i + 1]
           A(j) == Applies(flow, filter_list[j])
           Q(j) == filter_list[j].quick
           t == Try(s, r, flow)
           new == [last |-> <<r>>, stop |-> r.quick]
<1>1. r \in Rules /\ \A j \in 1..i + 1 : filter_list[j] \in Rules
  OBVIOUS
<1>2. flow_match(r, flow) <=> A(i + 1)
  BY <1>1, MatchIs
<1>3. t = IF s.stop \/ ~flow_match(r, flow) THEN s ELSE new
  BY DEF Try
<1>4. \A k \in 1..i + 1 : k \in 1..i \/ k = i + 1
  OBVIOUS
<1>5. \A k \in 1..i : k \in 1..i + 1 /\ k <= i + 1
  OBVIOUS
<1>6. i + 1 \in 1..i + 1 /\ i + 1 <= i + 1
  OBVIOUS
<1>7. r.quick \in BOOLEAN /\ r.quick = Q(i + 1)
  BY <1>1 DEF Rules
<1> HIDE DEF A, Q, t, new
<1>8. CASE s = SearchStart /\ \A j \in 1..i : ~A(j)
  <2>1. ~s.stop
    BY <1>8 DEF SearchStart
  <2>2. CASE A(i + 1)
    <3>1. t = [last |-> <<filter_list[i + 1]>>, stop |-> filter_list[i + 1].quick]
      BY <1>2, <1>3, <2>1, <2>2 DEF new
    <3>2. ASSUME NEW k \in 1..i + 1, A(k)
          PROVE  /\ Q(i + 1) => (Q(k) => i + 1 <= k)
                 /\ ~Q(i + 1) => k <= i + 1 /\ ~Q(k)
      <4>1. k = i + 1
        BY <1>4, <1>8, <3>2
      <4>2. QED
        BY <1>6, <4>1
    <3>3. QED
      BY <1>6, <2>2, <3>1, <3>2 DEF Found, A, Q, t
  <2>3. CASE ~A(i + 1)
    <3>1. t = s
      BY <1>2, <1>3, <2>3
    <3>2. \A j \in 1..i + 1 : ~A(j)
      BY <1>4, <1>8, <2>3
    <3>3. QED
      BY <1>8, <3>1, <3>2 DEF Found, A, t
  <2>4. QED
    BY <2>2, <2>3
<1>9. ASSUME NEW j \in 1..i, A(j),
             s = [last |-> <<filter_list[j]>>, stop |-> filter_list[j].quick],
             \A k \in 1..i : A(k) => /\ Q(j) => (Q(k) => j <= k)
                                     /\ ~Q(j) => k <= j /\ ~Q(k)
      PROVE  Found(flow, i + 1, t)
  <2>0. j \in 1..i + 1 /\ j <= i + 1
    BY <1>5
  <2>1. s.stop = Q(j) /\ Q(j) \in BOOLEAN
    BY <1>1, <1>9, <2>0 DEF Q, Rules
  <2>2. CASE Q(j)
    <3>1. t = s
      BY <1>3, <2>1, <2>2
    <3>2. ASSUME NEW k \in 1..i + 1, A(k)
          PROVE  /\ Q(j) => (Q(k) => j <= k)
                 /\ ~Q(j) => k <= j /\ ~Q(k)
      BY <1>4, <1>9, <2>0, <2>2, <3>2
    <3>3. QED
      BY <1>9, <2>0, <3>1, <3>2 DEF Found, A, Q
  <2>3. CASE ~Q(j) /\ ~A(i + 1)
    <3>1. t = s
      BY <1>2, <1>3, <2>3
    <3>2. ASSUME NEW k \in 1..i + 1, A(k)
          PROVE  /\ Q(j) => (Q(k) => j <= k)
                 /\ ~Q(j) => k <= j /\ ~Q(k)
      BY <1>4, <1>9, <2>3, <3>2
    <3>3. QED
      BY <1>9, <2>0, <3>1, <3>2 DEF Found, A, Q
  <2>4. CASE ~Q(j) /\ A(i + 1)
    <3>1. t = [last |-> <<filter_list[i + 1]>>, stop |-> filter_list[i + 1].quick]
      BY <1>2, <1>3, <2>1, <2>4 DEF new
    <3>2. ASSUME NEW k \in 1..i + 1, A(k)
          PROVE  /\ Q(i + 1) => (Q(k) => i + 1 <= k)
                 /\ ~Q(i + 1) => k <= i + 1 /\ ~Q(k)
      <4>1. CASE k \in 1..i
        <5>1. ~Q(k) /\ k <= i + 1
          BY <1>5, <1>9, <2>4, <3>2, <4>1
        <5>2. QED
          BY <5>1
      <4>2. CASE k = i + 1
        BY <1>6, <4>2
      <4>3. QED
        BY <1>4, <4>1, <4>2
    <3>3. QED
      BY <1>6, <2>4, <3>1, <3>2 DEF Found, A, Q
  <2>5. QED
    BY <2>2, <2>3, <2>4
<1>10. QED
  BY <1>8, <1>9, Zenon DEF Found, A, Q, t

(* The whole search.                                                       *)
LEMMA SearchFound ==
    ASSUME filter_list \in Seq(Rules), NEW flow \in PlainFlow
    PROVE  Found(flow, Len(filter_list), Search(flow)[Len(filter_list)])
<1> DEFINE n == Len(filter_list)
           s == Search(flow)
           P == {i \in Nat : i <= n => Found(flow, i, s[i])}
<1>1. n \in Nat
  OBVIOUS
<1>2. s[0] = SearchStart /\ \A i \in 1..n : s[i] = Try(s[i - 1], filter_list[i], flow)
  BY SearchIs
<1> HIDE DEF n, s
<1>3. 0 \in P
  BY <1>2 DEF Found
<1>4. ASSUME NEW i \in P PROVE i + 1 \in P
  <2>1. SUFFICES ASSUME i + 1 <= n PROVE Found(flow, i + 1, s[i + 1])
    OBVIOUS
  <2>2. i \in Nat /\ i <= n /\ i + 1 \in 1..n /\ (i + 1) - 1 = i
    BY <1>1, <2>1
  <2>3. Found(flow, i, s[i]) /\ s[i + 1] = Try(s[i], filter_list[i + 1], flow)
    BY <1>2, <2>2
  <2>4. QED
    BY <2>1, <2>2, <2>3, TryFound DEF n
<1>5. P = Nat
  <2>1. P \subseteq Nat /\ \A i \in P : i + 1 \in P
    BY <1>4
  <2> HIDE DEF P
  <2>2. QED
    BY <1>3, <2>1, NatInduct
<1>6. n \in P
  <2> HIDE DEF P
  <2>1. QED
    BY <1>1, <1>5
<1>7. n <= n
  BY <1>1
<1>8. QED
  BY <1>6, <1>7 DEF n, s

(* A flow with a tag.                                                      *)
LEMMA TaggedOK ==
    ASSUME NEW flow \in PlainFlow, NEW tag \in Nat
    PROVE  Tagged(flow, tag) \in TaggedFlow
<1> DEFINE t == Tagged(flow, tag)
           u == [tag |-> tag, agent |-> flow.agent, src |-> flow.src, dst |-> flow.dst]
<1>1. DOMAIN flow = {"agent", "src", "dst"} /\ flow.agent \in Nat /\ flow.src \in Nat /\ flow.dst \in Nat
  BY DEF PlainFlow
<1>2. t = [f \in DOMAIN flow \cup {"tag"} |-> IF f = "tag" THEN tag ELSE flow[f]]
  BY DEF Tagged
<1>3. DOMAIN flow \cup {"tag"} = {"tag", "agent", "src", "dst"}
  BY <1>1
<1>4. u \in TaggedFlow
  BY <1>1 DEF TaggedFlow
<1>5. t = u
  BY <1>2, <1>3
<1>6. QED
  BY <1>4, <1>5

(* The search finds the rule that is meant, and the flow is stored plain,  *)
(* stored with a tag or discarded.                                         *)
LEMMA FilterRuled ==
    ASSUME filter_list \in RuleLists, NEW flow \in PlainFlow
    PROVE  filter_flow(flow) = Ruled(flow) /\ filter_flow(flow) \in Seq(StoredFlow)
<1> DEFINE n == Len(filter_list)
           A(j) == Applies(flow, filter_list[j])
           hits == {i \in 1..n : A(i)}
           quick == {i \in hits : filter_list[i].quick}
           rule == filter_list[IF quick # {} THEN Min(quick) ELSE Max(hits)]
           e == Search(flow)[n]
           last == e.last
<1>1. filter_list \in Seq(Rules) /\ n \in Nat
  BY RulesAssumption
<1>2. Found(flow, n, e)
  BY <1>1, SearchFound
<1>3. Ruled(flow) = IF hits = {} \/ rule.action = "accept" THEN <<flow>>
                    ELSE IF rule.action = "discard" THEN <<>>
                    ELSE <<Tagged(flow, rule.tag)>>
  BY Zenon DEF Ruled, Applies, Holds
<1>4. filter_flow(flow) = IF last = <<>> \/ last[1].action = "accept" THEN <<flow>>
                          ELSE IF last[1].action = "discard" THEN <<>>
                          ELSE <<Tagged(flow, last[1].tag)>>
  BY DEF filter_flow
<1>5. flow \in StoredFlow /\ <<flow>> \in Seq(StoredFlow) /\ <<>> \in Seq(StoredFlow)
  <2>1. flow \in StoredFlow
    BY DEF StoredFlow
  <2>2. QED
    BY <2>1
<1>6. hits \subseteq 1..n /\ quick \subseteq hits /\ hits \subseteq Nat /\ hits \subseteq 0..n
  BY <1>1
<1> HIDE DEF e, n, A
<1>7. CASE e = SearchStart /\ \A j \in 1..n : ~A(j)
  <2>1. last = <<>> /\ hits = {}
    BY <1>7 DEF SearchStart
  <2>2. QED
    BY <1>3, <1>4, <1>5, <2>1
<1>8. ASSUME NEW j \in 1..n, A(j),
             e = [last |-> <<filter_list[j]>>, stop |-> filter_list[j].quick],
             \A k \in 1..n : A(k) =>
                /\ filter_list[j].quick => (filter_list[k].quick => j <= k)
                /\ ~filter_list[j].quick => k <= j /\ ~filter_list[k].quick
      PROVE  filter_flow(flow) = Ruled(flow) /\ filter_flow(flow) \in Seq(StoredFlow)
  <2> DEFINE r == filter_list[j]
  <2>1. r \in Rules
    BY <1>1 DEF n
  <2>2. last = <<r>>
    BY <1>8
  <2>3. last # <<>> /\ last[1] = r
    BY <2>2
  <2>4. j \in hits /\ j \in Nat
    BY <1>1, <1>8
  <2>5. rule = r
    <3>1. CASE filter_list[j].quick
      <4>1. j \in quick
        BY <2>4, <3>1
      <4>2. \A k \in quick : j <= k
        BY <1>8, <3>1
      <4>3. quick \subseteq Nat /\ quick # {}
        BY <1>6, <4>1
      <4> HIDE DEF quick, hits
      <4>4. Min(quick) \in quick /\ Min(quick) <= j
        BY <4>1, <4>3, MinIs
      <4>5. j <= Min(quick) /\ Min(quick) \in Nat
        BY <4>2, <4>3, <4>4
      <4> DEFINE m == Min(quick)
      <4>6. m \in Nat /\ m <= j /\ j <= m
        BY <4>4, <4>5
      <4> HIDE DEF m
      <4>7. m = j
        BY <2>4, <4>6
      <4>8. QED
        BY <4>3, <4>7 DEF m
    <3>2. CASE ~filter_list[j].quick
      <4>1. quick = {}
        BY <1>8, <3>2
      <4>2. \A k \in hits : k <= j
        BY <1>8, <3>2
      <4> HIDE DEF quick, hits
      <4>3. Max(hits) \in hits /\ j <= Max(hits)
        BY <1>1, <1>6, <2>4, MaxIs
      <4> DEFINE m == Max(hits)
      <4>4. m \in Nat /\ m <= j /\ j <= m
        BY <1>6, <4>2, <4>3
      <4> HIDE DEF m
      <4>5. m = j
        BY <2>4, <4>4
      <4>6. QED
        BY <4>1, <4>5 DEF m
    <3>3. QED
      BY <3>1, <3>2
  <2>6. hits # {}
    BY <2>4
  <2>7. r.tag \in Nat
    BY <2>1 DEF Rules
  <2>8. Tagged(flow, r.tag) \in StoredFlow
    BY <2>7, TaggedOK DEF StoredFlow
  <2>9. <<Tagged(flow, r.tag)>> \in Seq(StoredFlow)
    BY <2>8
  <2> HIDE DEF rule, r, hits, last
  <2>10. filter_flow(flow) = Ruled(flow)
    <3>1. filter_flow(flow) = IF r.action = "accept" THEN <<flow>>
                              ELSE IF r.action = "discard" THEN <<>>
                              ELSE <<Tagged(flow, r.tag)>>
      BY <1>4, <2>3
    <3>2. Ruled(flow) = IF r.action = "accept" THEN <<flow>>
                        ELSE IF r.action = "discard" THEN <<>>
                        ELSE <<Tagged(flow, r.tag)>>
      BY <1>3, <2>5, <2>6
    <3>3. QED
      BY <3>1, <3>2
  <2>11. filter_flow(flow) \in Seq(StoredFlow)
    BY <1>4, <1>5, <2>3, <2>9, Zenon
  <2>12. QED
    BY <2>10, <2>11
<1>9. QED
  BY <1>2, <1>7, <1>8, Zenon DEF Found, A

-----------------------------------------------------------------------------
(* The log over time *)

(* The collector's records and rules.                                      *)
FlowInv ==
    /\ pending \in Seq(PlainFlow) /\ received \in Seq(PlainFlow)
    /\ filter_list \in RuleLists /\ crashes \in Nat

(* The log is nothing but whole records, or torn, and then a reader that   *)
(* checks the sums is stuck.                                               *)
LogShape(l, w, t) ==
    \/ ~t /\ l = Serialised(w)
    \/ /\ t /\ l \in Seq(Word)
       /\ crc => \E o, p \in Seq(StoredFlow) : Stuck(ReadEnd(l), o) /\ w = o \o p

(* The log's part of the inductive invariant.  A log of version 2 keeps    *)
(* flowd from starting.                                                    *)
LogInv ==
    /\ crc \in BOOLEAN /\ torn \in BOOLEAN
    /\ queued \in Seq(StoredFlow) /\ written \in Seq(StoredFlow)
    /\ output_queue = Serialised(queued)
    /\ \/ log = <<[v2 |-> "header"]>> /\ ~up /\ ~torn /\ written = <<>>
       \/ LogShape(log, written, torn)

(* What a run without failures has kept.                                   *)
Kept(flows) == FlattenSeq([i \in 1 .. Len(flows) |-> filter_flow(flows[i])])

KeptInv == crashes = 0 => ~torn /\ written \o queued = Kept(received)

(* The configuration does not change, so the next state's records are      *)
(* written, read and filtered as this one's.                               *)
LEMMA SerialisedPrime ==
    ASSUME crc' = crc PROVE Serialised(queued)' = Serialised(queued')
BY SMT DEF Serialised, store_flow_serialise, Fields, Has

(* What the reader makes of the next state's log.                          *)
LEMMA ReaderPrime ==
    ASSUME crc' = crc PROVE Reader' = ReadEnd(log').out
BY SMT DEF Reader, ReadEnd, Reading, Take, store_flow_deserialise, ValueOf

(* What the filter keeps in the next state.                                *)
LEMMA KeptPrime ==
    ASSUME filter_list' = filter_list PROVE Kept(received)' = Kept(received')
BY SMT DEF Kept, filter_flow, Search, Try, flow_match, addr_netmatch, Tagged

(* The shape of the next state's log.                                      *)
LEMMA ShapePrime ==
    ASSUME crc' = crc PROVE LogShape(log', written', torn') => LogShape(log, written, torn)'
<1>1. Serialised(written)' = Serialised(written')
  BY SMT DEF Serialised, store_flow_serialise, Fields, Has
<1>2. ReadEnd(log)' = ReadEnd(log')
  BY SMT DEF ReadEnd, Reading, Take, store_flow_deserialise, ValueOf
<1>3. QED
  BY <1>1, <1>2 DEF LogShape, Stuck, Lost, Mixed, Waiting

(* What flowd has decoded.                                                 *)
LEMMA FlowStep == ExpInv /\ FlowInv /\ [ExportNext]_exportVars => FlowInv'
<1> SUFFICES ASSUME ExpInv, FlowInv, [ExportNext]_exportVars PROVE FlowInv'
  OBVIOUS
<1>0. /\ pending \in Seq(PlainFlow) /\ received \in Seq(PlainFlow)
      /\ filter_list \in RuleLists /\ crashes \in Nat
  BY DEF FlowInv
<1>1. CASE CheckExpired
  BY <1>0, <1>1 DEF FlowInv, CheckExpired, config
<1>2. CASE SendNetflow
  BY <1>0, <1>2 DEF FlowInv, SendNetflow, config
<1>3. CASE StartLog
  BY <1>0, <1>3 DEF FlowInv, StartLog, config
<1>4. CASE ReceivePacket
  <2>1. PICK i \in net : pending' = IF Valid(sent[i])
                        THEN [k \in 1 .. Len(sent[i].recs) |->
                                 [agent |-> Agent(sent[i]),
                                  src |-> sent[i].recs[k].src,
                                  dst |-> sent[i].recs[k].dst]]
                        ELSE <<>>
    BY <1>4 DEF ReceivePacket
  <2> DEFINE d == sent[i]
             P(k) == [agent |-> Agent(d), src |-> d.recs[k].src, dst |-> d.recs[k].dst]
  <2>2. d \in Datagram
    BY DEF ExpInv, ExportTypes
  <2>3. d.recs \in Seq(Rec) /\ d.monitor \in Nat
    BY <2>2 DEF Datagram, Datagram5, Datagram9
  <2>4. Agent(d) \in Nat
    BY <2>3, ExportAssumption DEF Agent
  <2>5. \A k \in 1..Len(d.recs) : P(k) \in PlainFlow
    <3>1. ASSUME NEW k \in 1..Len(d.recs) PROVE P(k) \in PlainFlow
      <4>1. d.recs[k] \in Rec
        BY <2>3
      <4>2. d.recs[k].src \in Nat /\ d.recs[k].dst \in Nat
        BY <4>1 DEF Rec
      <4>3. QED
        BY <2>4, <4>2 DEF PlainFlow
    <3>2. QED
      BY <3>1
  <2>6. Len(d.recs) \in Nat
    BY <2>3
  <2>7. pending' = IF Valid(d) THEN [k \in 1 .. Len(d.recs) |-> P(k)] ELSE <<>>
    BY <2>1
  <2> HIDE DEF P, d
  <2>8. [k \in 1 .. Len(d.recs) |-> P(k)] \in Seq(PlainFlow) /\ <<>> \in Seq(PlainFlow)
    BY <2>5, <2>6
  <2>9. pending' \in Seq(PlainFlow)
    BY <2>7, <2>8, Zenon
  <2>10. received' = received /\ filter_list' = filter_list /\ crashes' = crashes
    BY <1>4 DEF ReceivePacket, config
  <2>11. QED
    BY <1>0, <2>9, <2>10 DEF FlowInv
<1>5. CASE ProcessFlow
  <2>1. /\ received' = Append(received, Head(pending)) /\ pending' = Tail(pending) /\ pending # <<>>
        /\ filter_list' = filter_list /\ crashes' = crashes
    BY <1>5 DEF ProcessFlow, config
  <2>2. Head(pending) \in PlainFlow /\ Tail(pending) \in Seq(PlainFlow)
    BY <1>0, <2>1, HeadTailProperties
  <2>3. Append(received, Head(pending)) \in Seq(PlainFlow)
    BY <1>0, <2>2, AppendProperties
  <2>4. QED
    BY <1>0, <2>1, <2>2, <2>3 DEF FlowInv
<1>6. CASE OutputFlush
  BY <1>0, <1>6 DEF FlowInv, OutputFlush, config
<1>7. CASE FlushFails
  BY <1>0, <1>7 DEF FlowInv, FlushFails, Down, config
<1>8. CASE Killed
  BY <1>0, <1>8 DEF FlowInv, Killed, Down, config
<1>9. CASE UNCHANGED exportVars
  BY <1>0, <1>9 DEF FlowInv, exportVars, config
<1>10. QED
  BY <1>1, <1>2, <1>3, <1>4, <1>5, <1>6, <1>7, <1>8, <1>9 DEF ExportNext

(* A step that leaves the store alone, but may start flowd.                *)
LEMMA LogFrame ==
    ASSUME LogInv, UNCHANGED <<crc, torn, queued, written, output_queue, log>>,
           up' => up \/ log # <<[v2 |-> "header"]>>
    PROVE  LogInv'
<1>1. /\ crc \in BOOLEAN /\ torn \in BOOLEAN
      /\ queued \in Seq(StoredFlow) /\ written \in Seq(StoredFlow)
      /\ output_queue = Serialised(queued)
      /\ \/ log = <<[v2 |-> "header"]>> /\ ~up /\ ~torn /\ written = <<>>
         \/ LogShape(log, written, torn)
  BY DEF LogInv
<1>2. Serialised(queued)' = Serialised(queued')
  BY SerialisedPrime
<1>3. LogShape(log, written, torn) => LogShape(log, written, torn)'
  BY ShapePrime
<1>4. log = <<[v2 |-> "header"]>> /\ ~up => ~up'
  OBVIOUS
<1>5. QED
  BY <1>1, <1>2, <1>3, <1>4 DEF LogInv

(* What is known while flowd runs.                                         *)
LEMMA LogUp ==
    ASSUME LogInv, up
    PROVE  /\ crc \in BOOLEAN /\ torn \in BOOLEAN
           /\ queued \in Seq(StoredFlow) /\ written \in Seq(StoredFlow)
           /\ output_queue = Serialised(queued) /\ LogShape(log, written, torn)
BY DEF LogInv

(* A record that joins the queue.                                          *)
LEMMA ProcessLog == LogInv /\ FlowInv /\ ProcessFlow => LogInv'
<1> SUFFICES ASSUME LogInv, FlowInv, ProcessFlow PROVE LogInv'
  OBVIOUS
<1> DEFINE f == filter_flow(Head(pending))
<1>1. /\ up /\ pending # <<>> /\ output_queue' = output_queue \o Serialised(f) /\ queued' = queued \o f
      /\ crc' = crc /\ torn' = torn /\ log' = log /\ written' = written
  BY DEF ProcessFlow, Words, config
<1>2. /\ crc \in BOOLEAN /\ torn \in BOOLEAN
      /\ queued \in Seq(StoredFlow) /\ written \in Seq(StoredFlow)
      /\ output_queue = Serialised(queued) /\ LogShape(log, written, torn)
  BY <1>1, LogUp
<1>3. f \in Seq(StoredFlow)
  <2>1. Head(pending) \in PlainFlow /\ filter_list \in RuleLists
    BY <1>1, HeadTailProperties DEF FlowInv
  <2>2. QED
    BY <2>1, FilterRuled
<1> HIDE DEF f
<1>4. queued' \in Seq(StoredFlow)
  BY <1>1, <1>2, <1>3, ConcatProperties
<1>5. output_queue' = Serialised(queued')
  BY <1>1, <1>2, <1>3, SerialisedOf
<1>6. Serialised(queued)' = Serialised(queued')
  BY <1>1, SerialisedPrime
<1>7. LogShape(log, written, torn)'
  BY <1>1, <1>2, ShapePrime
<1>8. QED
  BY <1>1, <1>2, <1>4, <1>5, <1>6, <1>7 DEF LogInv

(* The queue, or what was written of it, reaches the log.                  *)
LEMMA ShapeWhole ==
    ASSUME crc \in BOOLEAN, NEW t \in BOOLEAN, NEW l, NEW w \in Seq(StoredFlow), LogShape(l, w, t),
           NEW q \in Seq(StoredFlow)
    PROVE  LogShape(l \o Serialised(q), w \o q, t)
<1> DEFINE x == Serialised(q)
<1>1. x \in Seq(Word)
  BY SerialisedOf
<1>2. CASE ~t
  <2>1. l = Serialised(w)
    BY <1>2 DEF LogShape
  <2>2. Serialised(w \o q) = l \o x
    BY <2>1, SerialisedOf
  <2>3. QED
    BY <1>2, <2>2 DEF LogShape
<1>3. CASE t
  <2>1. l \in Seq(Word)
    BY <1>3 DEF LogShape
  <2>2. l \o x \in Seq(Word)
    BY <1>1, <2>1, ConcatProperties
  <2>3. ASSUME crc
        PROVE  \E o, p \in Seq(StoredFlow) : Stuck(ReadEnd(l \o x), o) /\ w \o q = o \o p
    <3>1. PICK o \in Seq(StoredFlow), p \in Seq(StoredFlow) : Stuck(ReadEnd(l), o) /\ w = o \o p
      BY <1>3, <2>3 DEF LogShape
    <3>2. x # <<>> => x[1] \in HeaderWord
      <4>1. CASE q = <<>>
        BY <4>1, SerialisedOf
      <4>2. CASE q # <<>>
        BY <4>2, SerialisedFirst
      <4>3. QED
        BY <4>1, <4>2
    <3> HIDE DEF x
    <3>3. Stuck(ReadEnd(l \o x), o)
      BY <1>1, <2>1, <2>3, <3>1, <3>2, StuckRead
    <3>4. p \o q \in Seq(StoredFlow) /\ w \o q = o \o (p \o q)
      <4> DEFINE X == StoredFlow
      <4>1. o \in Seq(X) /\ p \in Seq(X) /\ q \in Seq(X)
        OBVIOUS
      <4> HIDE DEF X
      <4>2. \A a, b, c \in Seq(X) : (a \o b) \o c = a \o (b \o c)
        BY ConcatAssociative, SMTT(30)
      <4>3. \A a, b \in Seq(X) : a \o b \in Seq(X)
        BY ConcatProperties
      <4>4. p \o q \in Seq(X) /\ (o \o p) \o q = o \o (p \o q)
        BY <4>1, <4>2, <4>3, SMTT(30)
      <4>5. QED
        BY <3>1, <4>4 DEF X
    <3>5. QED
      BY <3>3, <3>4
  <2> HIDE DEF x
  <2>4. QED
    BY <1>3, <2>2, <2>3 DEF LogShape, x
<1>4. QED
  BY <1>2, <1>3

(* A flush.                                                                *)
LEMMA FlushLog == LogInv /\ OutputFlush => LogInv'
<1> SUFFICES ASSUME LogInv, OutputFlush PROVE LogInv'
  OBVIOUS
<1>1. /\ up /\ log' = log \o output_queue /\ written' = written \o queued
      /\ output_queue' = <<>> /\ queued' = <<>> /\ crc' = crc /\ torn' = torn
  BY DEF OutputFlush, FlushDue, config
<1>2. /\ crc \in BOOLEAN /\ torn \in BOOLEAN
      /\ queued \in Seq(StoredFlow) /\ written \in Seq(StoredFlow)
      /\ output_queue = Serialised(queued) /\ LogShape(log, written, torn)
  BY <1>1, LogUp
<1>3. LogShape(log', written', torn')
  BY <1>1, <1>2, ShapeWhole
<1>4. LogShape(log, written, torn)'
  BY <1>1, <1>3, ShapePrime
<1>5. written' \in Seq(StoredFlow)
  BY <1>1, <1>2, ConcatProperties
<1>6. queued' \in Seq(StoredFlow) /\ output_queue' = Serialised(queued')
  <2>1. Serialised(<<>>) = <<>> /\ <<>> \in Seq(StoredFlow)
    BY <1>2, SerialisedOf
  <2>2. QED
    BY <1>1, <2>1
<1>7. Serialised(queued)' = Serialised(queued')
  BY <1>1, SerialisedPrime
<1>8. QED
  BY <1>1, <1>2, <1>4, <1>5, <1>6, <1>7 DEF LogInv

(* The reader after a write that was cut in the middle of a record.        *)
LEMMA TornRead ==
    ASSUME crc, NEW w \in Seq(StoredFlow), NEW f \in StoredFlow, NEW j \in 1..HeaderOf(f).len
    PROVE  Stuck(ReadEnd(Serialised(w) \o SubSeq(store_flow_serialise(f), 1, j)), w)
<1> DEFINE s == store_flow_serialise(f)
           H == HeaderOf(f)
           a == Serialised(w)
           v == SubSeq(s, 2, j)
<1>0. crc \in BOOLEAN
  OBVIOUS
<1>1. a \in Seq(Word)
  BY <1>0, SerialisedOf
<1>2. PICK u : ReadEnd(a) = ReaderState(w, <<>>, u, FALSE)
  BY <1>0, SerialisedRead
<1>3. ReadEnd(a \o SubSeq(s, 1, j)) = ReaderState(w, <<H>>, v, FALSE)
  BY <1>0, <1>1, <1>2, PartRead
<1>4. /\ s \in Seq(Word) /\ Len(s) = H.len + 1 /\ H \in RecordHeader
      /\ H.len = Len(H.fields) + 1
  <2>1. /\ s \in Seq(Word) /\ Len(s) = H.len + 1
        /\ H \in RecordHeader /\ H.fields = Fields(f)
        /\ H.len = Len(Fields(f)) + IF crc THEN 1 ELSE 0
    BY <1>0, RecordWords
  <2>2. QED
    BY <2>1
<1>5. H.len \in Nat
  BY <1>4 DEF RecordHeader
<1> HIDE DEF s, H, a
<1>6. v \in Seq(Word) /\ Len(v) < H.len
  <2> DEFINE l == H.len
  <2>1. l \in Nat /\ Len(s) = l + 1 /\ j \in 1..l
    BY <1>4, <1>5 DEF H
  <2> HIDE DEF l
  <2>2. \A i \in 2..j : s[i] \in Word
    BY <1>4, <2>1
  <2>3. v \in Seq(Word)
    BY <1>4, <2>1, <2>2
  <2>4. Len(v) = IF 2 <= j THEN j - 1 ELSE 0
    BY <1>4, <2>1
  <2> DEFINE m == Len(v)
  <2>5. m = IF 2 <= j THEN j - 1 ELSE 0
    BY <2>4
  <2> HIDE DEF m
  <2>6. m < l
    BY <2>1, <2>5
  <2>7. QED
    BY <2>3, <2>6 DEF m, l
<1> HIDE DEF v
<1>7. Waiting(H, v)
  BY <1>4, <1>6 DEF Waiting
<1>8. QED
  BY <1>3, <1>7 DEF Stuck, s, a

(* flowd goes down after n words of a write.                               *)
LEMMA PartlyLog ==
    ASSUME LogInv, up, output_queue' = <<>>, queued' = <<>>, crc' = crc,
           NEW n \in 0 .. Len(output_queue), PartlyWritten(n)
    PROVE  LogInv'
<1>1. /\ log' = log \o SubSeq(output_queue, 1, n)
      /\ written' = written \o SubSeq(queued, 1, Whole(n))
      /\ torn' = (torn \/ n # Extent(Whole(n)))
  BY DEF PartlyWritten
<1>2. up /\ output_queue' = <<>> /\ queued' = <<>> /\ crc' = crc
  OBVIOUS
<1>3. /\ crc \in BOOLEAN /\ torn \in BOOLEAN
      /\ queued \in Seq(StoredFlow) /\ written \in Seq(StoredFlow)
      /\ output_queue = Serialised(queued) /\ LogShape(log, written, torn)
  BY <1>2, LogUp
<1> DEFINE q == Serialised(queued)
           k == Whole(n)
           part == SubSeq(queued, 1, k)
           x == SubSeq(q, 1, n)
<1>4. n \in 0..Len(q)
  BY <1>3
<1>5. /\ part \in Seq(StoredFlow) /\ x \in Seq(Word)
      /\ n = Extent(k) => x = Serialised(part)
      /\ n # Extent(k) => \E f \in StoredFlow : \E j \in 1..HeaderOf(f).len :
             x = Serialised(part) \o SubSeq(store_flow_serialise(f), 1, j)
  BY <1>3, <1>4, QueueCut
<1>6. log' = log \o x /\ written' = written \o part /\ torn' = (torn \/ n # Extent(k))
  BY <1>1, <1>3
<1> HIDE DEF q, k, part, x
<1>7. written' \in Seq(StoredFlow)
  BY <1>3, <1>5, <1>6, ConcatProperties
<1>8. LogShape(log', written', torn')
  <2>1. CASE n = Extent(k)
    <3>1. torn' = torn
      BY <1>3, <1>6, <2>1
    <3>2. QED
      BY <1>3, <1>5, <1>6, <2>1, <3>1, ShapeWhole
  <2>2. CASE n # Extent(k)
    <3>1. torn'
      BY <1>6, <2>2
    <3>0. PICK f \in StoredFlow : \E j \in 1..HeaderOf(f).len :
             x = Serialised(part) \o SubSeq(store_flow_serialise(f), 1, j)
      BY <1>5, <2>2
    <3>2. PICK j \in 1..HeaderOf(f).len :
             x = Serialised(part) \o SubSeq(store_flow_serialise(f), 1, j)
      BY <3>0
    <3> DEFINE y == Serialised(part)
               z == SubSeq(store_flow_serialise(f), 1, j)
               l == log \o y
    <3>3. LogShape(l, written', torn)
      BY <1>3, <1>5, <1>6, ShapeWhole
    <3>4. y \in Seq(Word)
      BY <1>3, <1>5, SerialisedOf
    <3>5. log \in Seq(Word)
      BY <1>3, SerialisedOf DEF LogShape
    <3>6. z \in Seq(Word) /\ z # <<>> /\ z[1] \in HeaderWord
      <4> DEFINE s == store_flow_serialise(f)
                 H == HeaderOf(f)
                 m == H.len
      <4>1. s \in Seq(Word) /\ Len(s) = m + 1 /\ H \in RecordHeader /\ s[1] = [hdr |-> H]
        BY <1>3, RecordWords
      <4>2. m \in Nat
        BY <4>1 DEF RecordHeader
      <4>3. s[1] \in HeaderWord
        BY <4>1 DEF HeaderWord
      <4>4. j \in 1..m
        OBVIOUS
      <4> HIDE DEF s, H, m
      <4>5. 1 <= j /\ j <= Len(s) /\ j \in Nat
        BY <4>1, <4>2, <4>4
      <4>6. SubSeq(s, 1, j) \in Seq(Word) /\ Len(SubSeq(s, 1, j)) = j /\ SubSeq(s, 1, j)[1] = s[1]
        BY <4>1, <4>5
      <4>7. SubSeq(s, 1, j) # <<>>
        BY <4>5, <4>6
      <4>8. QED
        BY <4>3, <4>6, <4>7 DEF s
    <3>7. l \in Seq(Word)
      BY <3>4, <3>5, ConcatProperties
    <3> HIDE DEF y, z
    <3>8. log' = l \o z
      <4>1. \A a, b, c \in Seq(Word) : (a \o b) \o c = a \o (b \o c)
        <5> DEFINE X == Word
        <5> HIDE DEF X
        <5>1. \A a, b, c \in Seq(X) : (a \o b) \o c = a \o (b \o c)
          BY ConcatAssociative, SMTT(30)
        <5>2. QED
          BY <5>1 DEF X
      <4>2. (log \o y) \o z = log \o (y \o z)
        BY <3>4, <3>5, <3>6, <4>1, Zenon
      <4>3. x = y \o z
        BY <3>2 DEF y, z
      <4>4. QED
        BY <1>6, <4>2, <4>3
    <3>9. l \o z \in Seq(Word)
      BY <3>6, <3>7, ConcatProperties
    <3>10. ASSUME crc
           PROVE  \E o, p \in Seq(StoredFlow) : Stuck(ReadEnd(l \o z), o) /\ written' = o \o p
      <4>1. CASE torn
        <5>1. PICK o \in Seq(StoredFlow), p \in Seq(StoredFlow) : Stuck(ReadEnd(l), o) /\ written' = o \o p
          BY <3>3, <3>10, <4>1 DEF LogShape
        <5> HIDE DEF l
        <5>2. Stuck(ReadEnd(l \o z), o)
          BY <3>6, <3>7, <3>10, <5>1, StuckRead
        <5>3. QED
          BY <5>1, <5>2
      <4>2. CASE ~torn
        <5>1. l = Serialised(written')
          BY <3>3, <4>2 DEF LogShape
        <5> HIDE DEF l
        <5>2. Stuck(ReadEnd(l \o z), written')
          BY <1>7, <3>10, <5>1, TornRead DEF z
        <5>3. written' = written' \o <<>> /\ <<>> \in Seq(StoredFlow)
          BY <1>7, ConcatEmptySeq
        <5>4. QED
          BY <1>7, <5>2, <5>3
      <4>3. QED
        BY <4>1, <4>2
    <3> HIDE DEF l
    <3>11. QED
      BY <3>1, <3>8, <3>9, <3>10 DEF LogShape
  <2>3. QED
    BY <2>1, <2>2
<1>9. LogShape(log, written, torn)'
  BY <1>2, <1>8, ShapePrime
<1>10. queued' \in Seq(StoredFlow) /\ output_queue' = Serialised(queued')
  <2>1. Serialised(<<>>) = <<>> /\ <<>> \in Seq(StoredFlow)
    BY <1>3, SerialisedOf
  <2>2. QED
    BY <1>2, <2>1
<1>11. Serialised(queued)' = Serialised(queued')
  BY <1>2, SerialisedPrime
<1>12. torn' \in BOOLEAN
  BY <1>3, <1>6
<1>13. QED
  BY <1>2, <1>3, <1>7, <1>9, <1>10, <1>11, <1>12 DEF LogInv

(* flowd is killed, in a write or not.                                     *)
LEMMA KilledLog == LogInv /\ Killed => LogInv'
<1> SUFFICES ASSUME LogInv, Killed PROVE LogInv'
  OBVIOUS
<1>1. PICK n \in 0 .. IF FlushDue THEN Len(output_queue) ELSE 0 : PartlyWritten(n)
  BY DEF Killed
<1>2. up /\ output_queue' = <<>> /\ queued' = <<>> /\ crc' = crc
  BY DEF Killed, Down, config
<1> DEFINE l == Len(output_queue)
<1>3. l \in Nat
  <2>1. crc \in BOOLEAN /\ queued \in Seq(StoredFlow) /\ output_queue = Serialised(queued)
    BY <1>2, LogUp
  <2>2. output_queue \in Seq(Word)
    BY <2>1, SerialisedOf
  <2>3. QED
    BY <2>2
<1> HIDE DEF l
<1>4. n \in 0 .. l
  <2>1. n \in 0 .. IF FlushDue THEN l ELSE 0
    BY <1>1 DEF l
  <2>2. CASE FlushDue
    BY <2>1, <2>2
  <2>3. CASE ~FlushDue
    BY <1>3, <2>1, <2>3
  <2>4. QED
    BY <2>2, <2>3
<1>5. QED
  BY <1>1, <1>2, <1>4, PartlyLog DEF l

(* A write that fails, undone or not.                                      *)
LEMMA FailsLog == LogInv /\ FlushFails => LogInv'
<1> SUFFICES ASSUME LogInv, FlushFails PROVE LogInv'
  OBVIOUS
<1>1. up /\ output_queue' = <<>> /\ queued' = <<>> /\ crc' = crc
  BY DEF FlushFails, Down, FlushDue, config
<1>2. /\ crc \in BOOLEAN /\ torn \in BOOLEAN
      /\ queued \in Seq(StoredFlow) /\ written \in Seq(StoredFlow)
      /\ output_queue = Serialised(queued) /\ LogShape(log, written, torn)
  BY <1>1, LogUp
<1> DEFINE l == Len(output_queue)
<1>3. PICK n \in 0 .. l - 1 : Rewound(n) \/ PartlyWritten(n)
  BY DEF FlushFails
<1>4. CASE Rewound(n)
  <2>1. log' = log /\ written' = written /\ torn' = torn
    BY <1>4 DEF Rewound
  <2>2. LogShape(log, written, torn)'
    BY <1>1, <1>2, <2>1, ShapePrime
  <2>3. Serialised(<<>>) = <<>> /\ <<>> \in Seq(StoredFlow)
    BY <1>2, SerialisedOf
  <2>4. queued' \in Seq(StoredFlow) /\ output_queue' = Serialised(queued')
    BY <1>1, <2>3
  <2>5. Serialised(queued)' = Serialised(queued')
    BY <1>1, SerialisedPrime
  <2>6. QED
    BY <1>1, <1>2, <2>1, <2>2, <2>4, <2>5 DEF LogInv
<1>5. CASE PartlyWritten(n)
  <2>1. output_queue \in Seq(Word)
    BY <1>2, SerialisedOf
  <2>2. l \in Nat
    BY <2>1
  <2> HIDE DEF l
  <2>3. n \in 0 .. l
    BY <1>3, <2>2
  <2>4. QED
    BY <1>1, <1>5, <2>3, PartlyLog DEF l
<1>6. QED
  BY <1>3, <1>4, <1>5

(* Every step keeps the log's invariant.                                   *)
LEMMA LogStep == LogInv /\ FlowInv /\ [ExportNext]_exportVars => LogInv'
<1> SUFFICES ASSUME LogInv, FlowInv, [ExportNext]_exportVars PROVE LogInv'
  OBVIOUS
<1>1. CASE CheckExpired
  BY <1>1, LogFrame DEF CheckExpired, config
<1>2. CASE SendNetflow
  BY <1>2, LogFrame DEF SendNetflow, config
<1>3. CASE StartLog
  <2>1. log # <<[v2 |-> "header"]>>
    <3>1. SUFFICES ASSUME log = <<[v2 |-> "header"]>> PROVE FALSE
      OBVIOUS
    <3>2. log # <<>> /\ log[1] = [v2 |-> "header"]
      BY <3>1
    <3>3. "v2" \in DOMAIN log[1]
      BY <3>2
    <3>4. QED
      BY <1>3, <3>2, <3>3 DEF StartLog
  <2>2. QED
    BY <1>3, <2>1, LogFrame DEF StartLog, config
<1>4. CASE ReceivePacket
  BY <1>4, LogFrame DEF ReceivePacket, config
<1>5. CASE ProcessFlow
  BY <1>5, ProcessLog
<1>6. CASE OutputFlush
  BY <1>6, FlushLog
<1>7. CASE FlushFails
  BY <1>7, FailsLog
<1>8. CASE Killed
  BY <1>8, KilledLog
<1>9. CASE UNCHANGED exportVars
  BY <1>9, LogFrame DEF exportVars, config
<1>10. QED
  BY <1>1, <1>2, <1>3, <1>4, <1>5, <1>6, <1>7, <1>8, <1>9 DEF ExportNext

(* What the reader makes of the log.                                       *)
LEMMA LogInvReadable == LogInv => LogReadable
<1> SUFFICES ASSUME LogInv PROVE LogReadable
  OBVIOUS
<1>0. Reader = ReadEnd(log).out
  BY DEF Reader, ReadEnd
<1>1. /\ crc \in BOOLEAN /\ torn \in BOOLEAN /\ written \in Seq(StoredFlow)
      /\ \/ log = <<[v2 |-> "header"]>> /\ ~up /\ ~torn /\ written = <<>>
         \/ LogShape(log, written, torn)
  BY DEF LogInv
<1>2. \A o, w \in Seq(StoredFlow) : IsPrefix(o, o \o w)
  <2> DEFINE X == StoredFlow
  <2> HIDE DEF X
  <2>1. ASSUME NEW o \in Seq(X), NEW w \in Seq(X) PROVE IsPrefix(o, o \o w)
    <3> DEFINE t == o \o w
               n == Len(o)
    <3>1. t \in Seq(X) /\ Len(t) = n + Len(w) /\ n \in Nat /\ Len(w) \in Nat
      BY ConcatProperties
    <3>2. n <= Len(t)
      BY <3>1
    <3>3. \A i \in 1..n : t[i] = o[i]
      <4>1. \A i \in 1..Len(t) : t[i] = IF i <= Len(o) THEN o[i] ELSE w[i - Len(o)]
        BY ConcatProperties
      <4> HIDE DEF t
      <4>2. QED
        BY <3>1, <4>1
    <3> HIDE DEF t
    <3> DEFINE a == SubSeq(o, 1, n)
               b == SubSeq(t, 1, n)
    <3>4. a \in Seq(X) /\ Len(a) = n /\ \A i \in 1..n : a[i] = o[i]
      BY <3>1
    <3>5. b \in Seq(X) /\ Len(b) = n /\ \A i \in 1..n : b[i] = t[i]
      BY <3>1, <3>2
    <3> HIDE DEF a, b, n
    <3>6. a = b
      BY <3>3, <3>4, <3>5, SeqEqual
    <3>7. QED
      BY <3>2, <3>6 DEF IsPrefix, a, b, n, t
  <2>2. QED
    BY <2>1 DEF X
<1>3. ASSUME Reader = written PROVE LogReadable
  <2>1. written = written \o <<>> /\ <<>> \in Seq(StoredFlow)
    BY <1>1, ConcatEmptySeq
  <2>2. IsPrefix(written, written \o <<>>)
    BY <1>1, <1>2, <2>1
  <2>3. IsPrefix(written, written)
    BY <2>1, <2>2
  <2>4. QED
    BY <1>3, <2>3 DEF LogReadable
<1>4. CASE log = <<[v2 |-> "header"]>> /\ ~up /\ ~torn /\ written = <<>>
  <2> DEFINE x == [v2 |-> "header"]
             r == ReaderStart
  <2>1. <<>> \in Seq({x}) /\ x \in {x} /\ log = Append(<<>>, x)
    BY <1>4
  <2>2. ReadEnd(log) = Take(ReadEnd(<<>>), x)
    BY <2>1, ReadAppend
  <2>3. ReadEnd(<<>>) = r
    <3>1. Reading(<<>>)[0] = ReaderStart /\ Len(<<>>) = 0
      BY <2>1, ReadingIs
    <3>2. QED
      BY <3>1 DEF ReadEnd
  <2>4. Take(r, x).out = <<>>
    BY DEF Take, ReaderStart, ReaderState
  <2>5. Reader = written
    BY <1>0, <1>4, <2>2, <2>3, <2>4
  <2>6. QED
    BY <1>3, <2>5
<1>5. CASE ~torn /\ LogShape(log, written, torn)
  <2>1. log = Serialised(written)
    BY <1>5 DEF LogShape
  <2>2. PICK w : ReadEnd(Serialised(written)) = ReaderState(written, <<>>, w, FALSE)
    BY <1>1, SerialisedRead
  <2>3. ReaderState(written, <<>>, w, FALSE).out = written
    BY DEF ReaderState
  <2>4. Reader = written
    BY <1>0, <2>1, <2>2, <2>3
  <2>5. QED
    BY <1>3, <2>4
<1>6. CASE torn /\ LogShape(log, written, torn)
  <2>1. ASSUME crc PROVE IsPrefix(Reader, written)
    <3>1. PICK o \in Seq(StoredFlow), p \in Seq(StoredFlow) : Stuck(ReadEnd(log), o) /\ written = o \o p
      BY <1>6, <2>1 DEF LogShape
    <3>2. ReadEnd(log).out = o
      BY <3>1 DEF Stuck, Lost, ReaderState
    <3>3. IsPrefix(o, o \o p)
      BY <1>2
    <3>4. QED
      BY <1>0, <3>1, <3>2, <3>3
  <2>2. QED
    BY <1>6, <2>1 DEF LogReadable
<1>7. QED
  BY <1>1, <1>4, <1>5, <1>6

(* What the filter kept of one more record.                                *)
LEMMA KeptAppend ==
    ASSUME filter_list \in RuleLists, NEW rs \in Seq(PlainFlow), NEW f \in PlainFlow
    PROVE  Kept(Append(rs, f)) = Kept(rs) \o filter_flow(f)
<1> DEFINE n == Len(rs)
           more == Append(rs, f)
           S == StoredFlow
           a == [i \in 1 .. n |-> filter_flow(rs[i])]
           b == [i \in 1 .. Len(more) |-> filter_flow(more[i])]
<1>1. \A g \in PlainFlow : filter_flow(g) \in Seq(S)
  BY FilterRuled
<1> HIDE DEF S
<1>2. /\ n \in Nat /\ more \in Seq(PlainFlow) /\ Len(more) = n + 1
      /\ \A i \in 1..n : more[i] = rs[i]
      /\ more[n + 1] = f
  BY AppendProperties
<1> HIDE DEF more
<1>3. \A i \in 1..n : rs[i] \in PlainFlow
  OBVIOUS
<1>4. a \in Seq(Seq(S)) /\ Len(a) = n /\ \A i \in 1..n : a[i] = filter_flow(rs[i])
  <2>1. \A i \in 1..n : filter_flow(rs[i]) \in Seq(S)
    BY <1>1, <1>3
  <2>2. QED
    BY <1>2, <2>1
<1>5. b \in Seq(Seq(S)) /\ Len(b) = n + 1 /\ \A i \in 1..n + 1 : b[i] = filter_flow(more[i])
  <2>1. \A i \in 1..n + 1 : more[i] \in PlainFlow
    BY <1>2
  <2>2. \A i \in 1..n + 1 : filter_flow(more[i]) \in Seq(S)
    BY <1>1, <2>1
  <2>3. QED
    BY <1>2, <2>2
<1> DEFINE x == filter_flow(f)
           c == Append(a, x)
<1>6. x \in Seq(S)
  BY <1>1
<1>7. Kept(rs) = FlattenSeq(a) /\ Kept(more) = FlattenSeq(b)
  BY DEF Kept
<1> HIDE DEF a, b, x, n
<1>8. c \in Seq(Seq(S)) /\ Len(c) = n + 1 /\ (\A i \in 1..n : c[i] = a[i]) /\ c[n + 1] = x
  BY <1>4, <1>6, AppendProperties
<1> HIDE DEF c
<1>9. ASSUME NEW i \in 1..n + 1 PROVE b[i] = c[i]
  <2>1. CASE i \in 1..n
    BY <1>2, <1>4, <1>5, <1>8, <2>1
  <2>2. CASE i = n + 1
    BY <1>2, <1>5, <1>8, <2>2 DEF x
  <2>3. QED
    BY <1>2, <2>1, <2>2
<1>10. b = c
  BY <1>5, <1>8, <1>9, SeqEqual
<1>11. FlattenSeq(Append(a, x)) = FlattenSeq(a) \o x
  BY <1>4, <1>6, FlattenAppend
<1>12. QED
  BY <1>7, <1>10, <1>11 DEF c, x, more

(* While nothing has failed, nothing that passed the filter is missing.    *)
LEMMA KeptStep == KeptInv /\ LogInv /\ FlowInv /\ [ExportNext]_exportVars => KeptInv'
<1> SUFFICES ASSUME KeptInv, LogInv, FlowInv, [ExportNext]_exportVars, crashes' = 0
             PROVE  ~torn' /\ written' \o queued' = Kept(received)'
  BY DEF KeptInv
<1> DEFINE X == StoredFlow
<1>0. /\ queued \in Seq(X) /\ written \in Seq(X) /\ received \in Seq(PlainFlow)
      /\ pending \in Seq(PlainFlow) /\ filter_list \in RuleLists /\ crashes \in Nat
  BY DEF LogInv, FlowInv
<1>1. ASSUME UNCHANGED <<crashes, torn, written, queued, received, filter_list>>
      PROVE  ~torn' /\ written' \o queued' = Kept(received)'
  BY <1>1, KeptPrime DEF KeptInv
<1>2. CASE CheckExpired
  BY <1>1, <1>2 DEF CheckExpired, config
<1>3. CASE SendNetflow
  BY <1>1, <1>3 DEF SendNetflow, config
<1>4. CASE StartLog
  BY <1>1, <1>4 DEF StartLog, config
<1>5. CASE ReceivePacket
  BY <1>1, <1>5 DEF ReceivePacket, config
<1>6. CASE ProcessFlow
  <2> DEFINE g == Head(pending)
             f == filter_flow(g)
  <2>1. /\ pending # <<>> /\ queued' = queued \o f /\ received' = Append(received, g)
        /\ filter_list' = filter_list /\ crashes' = crashes /\ torn' = torn /\ written' = written
    BY <1>6 DEF ProcessFlow, config
  <2>2. ~torn /\ written \o queued = Kept(received)
    BY <2>1 DEF KeptInv
  <2>3. g \in PlainFlow
    BY <1>0, <2>1, HeadTailProperties
  <2>4. f \in Seq(X)
    BY <1>0, <2>3, FilterRuled
  <2>5. Kept(received') = Kept(received) \o f
    BY <1>0, <2>1, <2>3, KeptAppend
  <2> HIDE DEF X, f
  <2>6. \A a, b, c \in Seq(X) : (a \o b) \o c = a \o (b \o c)
    BY ConcatAssociative
  <2>7. (written \o queued) \o f = written \o (queued \o f)
    BY <1>0, <2>4, <2>6, Zenon
  <2>8. Kept(received)' = Kept(received')
    BY <2>1, KeptPrime
  <2>9. QED
    BY <2>1, <2>2, <2>5, <2>7, <2>8
<1>7. CASE OutputFlush
  <2>1. /\ queued' = <<>> /\ written' = written \o queued /\ received' = received
        /\ filter_list' = filter_list /\ crashes' = crashes /\ torn' = torn
    BY <1>7 DEF OutputFlush, config
  <2>2. ~torn /\ written \o queued = Kept(received)
    BY <2>1 DEF KeptInv
  <2>3. Kept(received)' = Kept(received')
    BY <2>1, KeptPrime
  <2> HIDE DEF X
  <2>4. written \o queued \in Seq(X)
    BY <1>0, ConcatProperties
  <2>5. (written \o queued) \o <<>> = written \o queued
    BY <2>4, ConcatEmptySeq
  <2>6. QED
    BY <2>1, <2>2, <2>3, <2>5
<1>8. CASE FlushFails
  <2>1. crashes' = crashes + 1
    BY <1>8 DEF FlushFails, Down
  <2>2. QED
    BY <1>0, <2>1
<1>9. CASE Killed
  <2>1. crashes' = crashes + 1
    BY <1>9 DEF Killed, Down
  <2>2. QED
    BY <1>0, <2>1
<1>10. CASE UNCHANGED exportVars
  BY <1>1, <1>10 DEF exportVars, config
<1>11. QED
  BY <1>2, <1>3, <1>4, <1>5, <1>6, <1>7, <1>8, <1>9, <1>10 DEF ExportNext

(* What the invariants say of the log and of the filter.                   *)
LEMMA KeptRuled == KeptInv /\ LogInv /\ FlowInv => StoredAsRuled
<1> SUFFICES ASSUME KeptInv, LogInv, FlowInv, crashes = 0
             PROVE  Reader \o queued =
                       FlattenSeq([i \in 1 .. Len(received) |-> Ruled(received[i])])
  BY DEF StoredAsRuled
<1>1. ~torn /\ written \o queued = Kept(received)
  BY DEF KeptInv
<1>2. Reader = written
  BY <1>1, LogInvReadable DEF LogReadable
<1>3. received \in Seq(PlainFlow) /\ filter_list \in RuleLists
  BY DEF FlowInv
<1>4. \A i \in 1..Len(received) : filter_flow(received[i]) = Ruled(received[i])
  <2>1. \A f \in PlainFlow : filter_flow(f) = Ruled(f)
    BY <1>3, FilterRuled
  <2>2. \A i \in 1..Len(received) : received[i] \in PlainFlow
    BY <1>3
  <2>3. QED
    BY <2>1, <2>2
<1>5. [i \in 1 .. Len(received) |-> filter_flow(received[i])] =
      [i \in 1 .. Len(received) |-> Ruled(received[i])]
  BY <1>4, Zenon
<1>6. QED
  BY <1>1, <1>2, <1>5 DEF Kept

(* The three invariants hold.                                              *)
LEMMA StoreInvariant == ExportSpec => [](FlowInv /\ LogInv /\ KeptInv)
<1>1. ExportInit => FlowInv /\ LogInv /\ KeptInv
  <2>1. SUFFICES ASSUME ExportInit PROVE FlowInv /\ LogInv /\ KeptInv
    OBVIOUS
  <2>2. crc \in BOOLEAN /\ ~torn /\ torn \in BOOLEAN /\ queued = <<>> /\ written = <<>> /\ output_queue = <<>>
    BY <2>1 DEF ExportInit
  <2>3. Serialised(<<>>) = <<>> /\ <<>> \in Seq(StoredFlow) /\ <<>> \in Seq(PlainFlow)
    BY <2>2, SerialisedOf
  <2>4. FlowInv
    BY <2>1, <2>3 DEF ExportInit, FlowInv
  <2>5. LogInv
    <3>1. CASE log = <<>>
      BY <2>2, <2>3, <3>1 DEF LogInv, LogShape
    <3>2. CASE log = <<[v2 |-> "header"]>>
      <4>1. ~up
        BY <2>1 DEF ExportInit
      <4>2. QED
        BY <2>2, <2>3, <3>2, <4>1 DEF LogInv
    <3>3. QED
      BY <2>1, <3>1, <3>2 DEF ExportInit
  <2>6. KeptInv
    <3>1. Kept(<<>>) = <<>>
      <4>1. [i \in 1 .. Len(<<>>) |-> filter_flow(<<>>[i])] = <<>>
        OBVIOUS
      <4>2. QED
        BY <4>1, FlattenFew DEF Kept
    <3>2. received = <<>> /\ <<>> \o <<>> = <<>>
      BY <2>1 DEF ExportInit
    <3>3. QED
      BY <2>2, <3>1, <3>2 DEF KeptInv
  <2>7. QED
    BY <2>4, <2>5, <2>6
<1>2. ExpInv /\ FlowInv /\ LogInv /\ KeptInv /\ [ExportNext]_exportVars
        => FlowInv' /\ LogInv' /\ KeptInv'
  BY FlowStep, LogStep, KeptStep
<1>3. QED
  BY <1>1, <1>2, ExpInvariant, PTL DEF ExportSpec

(* A write that failed leaves no trace in the log, across restarts of      *)
(* flowd, and one that flowd was killed in never makes flowd-reader report *)
(* a record that flowd did not write, provided that the log has checksums  *)
(* (store_put_buf, store_put_flow, store_get_flow).                        *)
THEOREM LogAlwaysReadable == ExportSpec => []LogReadable
BY StoreInvariant, LogInvReadable, PTL

(* While flowd has not failed, the log and the output queue hold what it   *)
(* decoded, filtered as the rules mean: the first quick rule that matches, *)
(* or else the last (filter_flow, flow_match, addr_netmatch, process_flow, *)
(* output_flow_flush).                                                     *)
THEOREM StoredRuled == ExportSpec => []StoredAsRuled
BY StoreInvariant, KeptRuled, PTL

=============================================================================
