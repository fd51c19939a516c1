--------------------------- MODULE EmulatorProofs ---------------------------
(***************************************************************************)
(* Proofs about the two sides of the emulated packet: how softflowd        *)
(* samples it (Sampling), for any set of monitors and any set of rates,    *)
(* and how it crosses from NSP as a line of text (Wire), for any capture   *)
(* file, any path and any addresses.                                       *)
(*                                                                         *)
(* Sampling: TypeOK is not inductive, as that a table entry is a bit,      *)
(* which ret copies, needs the entry to exist; IndInv adds the bounds on   *)
(* the axis.                                                               *)
(*                                                                         *)
(* Wire: the separators of a text are found one after the other, at known  *)
(* places (CommonRead, TcpMiddle, TcpEndRead, OtherRead), so that the text *)
(* of a frame is read as what the frame said (TextRead).  WireInd says of  *)
(* every flow what it has counted, and of every report in the queue that   *)
(* it is the first of its packet if it reads so.                           *)
(***************************************************************************)
EXTENDS Sampling, Wire, Induction, FiniteSetTheorems, SequenceTheorems, TLAPS

(* While the rate of a node is unchanged since its table was drawn, the    *)
(* axis stays below P2.                                                    *)
AxisInside ==
    \A m \in Monitors :
        samplingRateChanged[m] = 0 => samplingRateAxis[m] < samplingRateP2[m]

(* The bounds of the table and of the axis hold together.                  *)
IndInv == TypeOK /\ TableReadInBounds /\ AxisInside

(* The records both threads return to are well typed.                      *)
LEMMA IdleType ==
    /\ PktIdle \in [pc : PktPc, ip : Monitors]
    /\ CtlIdle \in [pc : CtlPc, ip : Monitors, pos : Nat \ {0}, rate : Rates]
    /\ PktIdle.pc = "idle"
  BY SamplingAssumption DEF PktIdle, CtlIdle, PktPc, CtlPc

(* Init establishes the inductive invariant.                               *)
LEMMA InitInd == Init => IndInv
<1> SUFFICES ASSUME Init PROVE IndInv
  OBVIOUS
<1>1. TypeOK
  <2>1. samplingTab = [m \in Monitors |-> samplingTab[m]]
    BY DEF Init
  <2>2. \A m \in Monitors : samplingTab[m] = Null
    BY DEF Init
  <2>3. DOMAIN Null = {}
    BY DEF Null
  <2>4. ub \in BOOLEAN
    BY DEF Init
  <2>5. QED
    BY <2>1, <2>2, <2>3, <2>4, IdleType, SamplingAssumption
       DEF Init, TypeOK, Stages, Undefined
<1>2. TableReadInBounds
  BY IdleType DEF Init, TableReadInBounds
<1>3. AxisInside
  BY DEF Init, AxisInside
<1>4. QED
  BY <1>1, <1>2, <1>3 DEF IndInv

(* Every step of either thread preserves it.                               *)
LEMMA StepInd == IndInv /\ [Next]_vars => IndInv'
<1> SUFFICES ASSUME IndInv, [Next]_vars PROVE IndInv'
  OBVIOUS
<1> USE DEF IndInv, TableReadInBounds, AxisInside
<1> USE DEF rateVars, tabVars, listVars
<1>1. ASSUME NEW m \in Monitors, GetSamplingNode(m) PROVE IndInv'
  <2>1. TypeOK'
    BY <1>1, IdleType, SamplingAssumption
       DEF TypeOK, GetSamplingNode, PktPc, CtlPc, Stages, Undefined
  <2>2. TableReadInBounds'
    BY <1>1, IdleType DEF TypeOK, GetSamplingNode, PktPc
  <2>3. AxisInside'
    BY <1>1 DEF TypeOK, GetSamplingNode, PktPc
  <2>4. QED
    BY <2>1, <2>2, <2>3
<1>2. ASSUME NEW m \in Monitors, AddNodeLink(m) PROVE IndInv'
  <2>1. TypeOK'
    <3>1. listNodes' \in Seq(Monitors)
      BY <1>2 DEF TypeOK, AddNodeLink
    <3>2. pkt' \in [pc : PktPc, ip : Monitors]
      BY <1>2 DEF AddNodeLink, PktPc
    <3>3. built' \in [Monitors -> Stages]
      BY <1>2 DEF TypeOK, AddNodeLink, Stages
    <3>4. QED
      BY <1>2, <3>1, <3>2, <3>3 DEF TypeOK, AddNodeLink
  <2>2. TableReadInBounds'
    BY <1>2, IdleType DEF TypeOK, AddNodeLink, PktPc
  <2>3. AxisInside'
    BY <1>2 DEF TypeOK, AddNodeLink, PktPc
  <2>4. QED
    BY <2>1, <2>2, <2>3
<1>3. CASE AddNodeName
  <2>1. TypeOK'
    <3>1. samplingTab' = [n \in Monitors |-> samplingTab'[n]]
      BY <1>3 DEF TypeOK, AddNodeName
    <3>2. \A n \in Monitors : samplingTab'[n] = Null \/ samplingTab'[n] = samplingTab[n]
      BY <1>3 DEF TypeOK, AddNodeName
    <3>3. DOMAIN Null = {}
      BY DEF Null
    <3>4. pkt' \in [pc : PktPc, ip : Monitors]
      BY <1>3 DEF TypeOK, AddNodeName, PktPc
    <3>5. built' \in [Monitors -> Stages]
      BY <1>3 DEF TypeOK, AddNodeName, Stages
    <3>6. QED
      BY <1>3, <3>1, <3>2, <3>3, <3>4, <3>5, SamplingAssumption
         DEF TypeOK, AddNodeName
  <2>2. TableReadInBounds'
    BY <1>3, IdleType DEF TypeOK, AddNodeName, PktPc
  <2>3. AxisInside'
    BY <1>3 DEF TypeOK, AddNodeName, PktPc
  <2>4. QED
    BY <2>1, <2>2, <2>3
<1>4. CASE AddNodeReady
  <2>1. TypeOK'
    BY <1>4, IdleType, SamplingAssumption
       DEF TypeOK, AddNodeReady, PktPc, CtlPc, Stages, Undefined
  <2>2. TableReadInBounds'
    BY <1>4, IdleType DEF TypeOK, AddNodeReady, PktPc
  <2>3. AxisInside'
    BY <1>4 DEF TypeOK, AddNodeReady, PktPc
  <2>4. QED
    BY <2>1, <2>2, <2>3
<1>5. CASE GetNodeSamplingRateStatus
  <2>1. TypeOK'
    BY <1>5, IdleType, SamplingAssumption
       DEF TypeOK, GetNodeSamplingRateStatus, PktPc, CtlPc, Stages, Undefined
  <2>2. TableReadInBounds'
    <3>1. ASSUME NEW m \in Monitors, pkt'.pc = "decide", pkt'.ip = m
          PROVE  samplingRateAxis[m] \in DOMAIN samplingTab[m]
      <4>1. samplingRateChanged[m] = 0
        BY <1>5, <3>1 DEF TypeOK, GetNodeSamplingRateStatus
      <4>2. QED
        BY <4>1 DEF TypeOK
    <3>2. QED
      BY <1>5, <3>1 DEF GetNodeSamplingRateStatus
  <2>3. AxisInside'
    BY <1>5 DEF TypeOK, GetNodeSamplingRateStatus, PktPc
  <2>4. QED
    BY <2>1, <2>2, <2>3
<1>6. CASE InitNodeSamplingRateStatus
  <2>1. TypeOK'
    BY <1>6, IdleType, SamplingAssumption
       DEF TypeOK, InitNodeSamplingRateStatus, PktPc, CtlPc, Stages, Undefined
  <2>2. TableReadInBounds'
    BY <1>6, IdleType DEF TypeOK, InitNodeSamplingRateStatus, PktPc
  <2>3. AxisInside'
    BY <1>6 DEF TypeOK, InitNodeSamplingRateStatus, PktPc
  <2>4. QED
    BY <2>1, <2>2, <2>3
<1>7. CASE TakeNone
  <2>1. TypeOK'
    BY <1>7, IdleType, SamplingAssumption
       DEF TypeOK, TakeNone, Decide, PktPc, CtlPc, Stages, Undefined
  <2>2. TableReadInBounds'
    BY <1>7, IdleType DEF TypeOK, TakeNone, Decide, PktPc
  <2>3. AxisInside'
    BY <1>7 DEF TypeOK, TakeNone, Decide, PktPc
  <2>4. QED
    BY <2>1, <2>2, <2>3
<1>8. CASE TakeAll
  <2>1. TypeOK'
    BY <1>8, IdleType, SamplingAssumption
       DEF TypeOK, TakeAll, Decide, PktPc, CtlPc, Stages, Undefined
  <2>2. TableReadInBounds'
    BY <1>8, IdleType DEF TypeOK, TakeAll, Decide, PktPc
  <2>3. AxisInside'
    BY <1>8 DEF TypeOK, TakeAll, Decide, PktPc
  <2>4. QED
    BY <2>1, <2>2, <2>3
<1>9. CASE InvalidRate
  <2>1. TypeOK'
    BY <1>9, IdleType, SamplingAssumption
       DEF TypeOK, InvalidRate, Decide, PktPc, CtlPc, Stages, Undefined
  <2>2. TableReadInBounds'
    BY <1>9, IdleType DEF TypeOK, InvalidRate, Decide, PktPc
  <2>3. AxisInside'
    BY <1>9 DEF TypeOK, InvalidRate, Decide, PktPc
  <2>4. QED
    BY <2>1, <2>2, <2>3
<1>10. CASE StartWindow
  <2> DEFINE m == pkt.ip
  <2>1. PICK S \in Draws(samplingRateP1[m], samplingRateP2[m]) :
          /\ Generate(m, S)
          /\ Decide(samplingTab'[m][0])
          /\ taken' = [taken EXCEPT ![m] = samplingTab'[m][0]]
    BY <1>10 DEF StartWindow
  <2>2. /\ m \in Monitors
        /\ samplingRateP2[m] \in Nat /\ samplingRateP2[m] > 1
    BY <1>10 DEF TypeOK, StartWindow, Periodic
  <2> HIDE DEF m
  <2> DEFINE D == IF samplingRateChanged[m] = 1
                  THEN 0 .. samplingRateP2[m] - 1 ELSE DOMAIN samplingTab[m]
             newTab == [i \in D |-> IF i \in S THEN 1 ELSE 0]
  <2>3. D = 0 .. samplingRateP2[m] - 1
    BY <2>2 DEF TypeOK
  <2> HIDE DEF D
  <2>4. /\ samplingTab' = [samplingTab EXCEPT ![m] = newTab]
        /\ samplingRateChanged' = [samplingRateChanged EXCEPT ![m] = 0]
    BY <2>1 DEF Generate, D
  <2>5. /\ samplingTab' = [n \in Monitors |-> samplingTab'[n]]
        /\ samplingTab'[m] = newTab
        /\ \A n \in Monitors : n # m => samplingTab'[n] = samplingTab[n]
    BY <2>2, <2>4 DEF TypeOK
  <2>6. /\ DOMAIN newTab = 0 .. samplingRateP2[m] - 1
        /\ \A i \in DOMAIN newTab : newTab[i] \in {0, 1}
        /\ newTab[0] \in {0, 1}
    BY <2>2, <2>3
  <2> HIDE DEF newTab
  <2>7. /\ ret' \in {0, 1, Undefined}
        /\ taken' \in [Monitors -> Nat]
        /\ pkt' = PktIdle
        /\ UNCHANGED <<listVars, ctl, ack, ub>>
    BY <2>1, <2>2, <2>5, <2>6 DEF TypeOK, Decide
  <2>8. /\ samplingRateAxis' = [samplingRateAxis EXCEPT ![m] = 1]
        /\ UNCHANGED <<samplingRateP1, samplingRateP2, sem>>
    BY <1>10 DEF StartWindow, m
  <2>9. TypeOK'
    <3>1. \A n \in Monitors :
            /\ DOMAIN samplingTab'[n] \subseteq Nat
            /\ \A i \in DOMAIN samplingTab'[n] : samplingTab'[n][i] \in {0, 1}
      <4>1. 0 .. samplingRateP2[m] - 1 \subseteq Nat
        BY <2>2
      <4>2. SUFFICES ASSUME NEW n \in Monitors
                     PROVE  /\ DOMAIN samplingTab'[n] \subseteq Nat
                            /\ \A i \in DOMAIN samplingTab'[n] : samplingTab'[n][i] \in {0, 1}
        OBVIOUS
      <4>3. CASE n = m
        BY <2>5, <2>6, <4>1, <4>3
      <4>4. CASE n # m
        BY <2>5, <4>4 DEF TypeOK
      <4>5. QED
        BY <4>3, <4>4
    <3>2. /\ samplingRateAxis' \in [Monitors -> Nat]
          /\ samplingRateChanged' \in [Monitors -> {0, 1}]
      BY <2>4, <2>8 DEF TypeOK
    <3>3. QED
      BY <2>5, <2>7, <2>8, <3>1, <3>2, IdleType DEF TypeOK
  <2>10. TableReadInBounds'
    <3>1. \A n \in Monitors : n # m => samplingRateChanged'[n] = samplingRateChanged[n]
      BY <2>4 DEF TypeOK
    <3>2. QED
      BY <2>2, <2>5, <2>6, <2>7, <2>8, <3>1, IdleType
  <2>11. AxisInside'
    BY <2>2, <2>4, <2>8 DEF TypeOK
  <2>12. QED
    BY <2>9, <2>10, <2>11
<1>11. CASE InWindow
  <2>1. TypeOK'
    <3>1. samplingRateAxis[pkt.ip] \in DOMAIN samplingTab[pkt.ip]
      BY <1>11 DEF TypeOK, InWindow, Decide
    <3>2. samplingTab[pkt.ip][samplingRateAxis[pkt.ip]] \in {0, 1}
      BY <3>1 DEF TypeOK
    <3>3. ret' \in {0, 1, Undefined}
      BY <1>11, <3>2 DEF InWindow, Decide
    <3>4. taken' \in [Monitors -> Nat]
      <4> DEFINE b == samplingTab[pkt.ip][samplingRateAxis[pkt.ip]]
      <4>1. taken' = [taken EXCEPT ![pkt.ip] = @ + b]
        BY <1>11 DEF InWindow
      <4>2. b \in {0, 1}
        BY <3>2
      <4> HIDE DEF b
      <4>3. QED
        BY <4>1, <4>2 DEF TypeOK
    <3>5. samplingRateAxis' \in [Monitors -> Nat]
      BY <1>11 DEF TypeOK, InWindow
    <3>6. QED
      BY <1>11, <3>3, <3>4, <3>5, IdleType DEF TypeOK, InWindow, Decide
  <2>2. TableReadInBounds'
    BY <1>11, IdleType DEF TypeOK, InWindow, Decide, Periodic, PktPc
  <2>3. AxisInside'
    BY <1>11 DEF TypeOK, InWindow, Decide, Periodic, PktPc
  <2>4. QED
    BY <2>1, <2>2, <2>3
<1>12. CASE EndWindow
  <2>1. TypeOK'
    <3>1. samplingRateAxis[pkt.ip] \in DOMAIN samplingTab[pkt.ip]
      BY <1>12 DEF TypeOK, EndWindow, Decide
    <3>2. samplingTab[pkt.ip][samplingRateAxis[pkt.ip]] \in {0, 1}
      BY <3>1 DEF TypeOK
    <3>3. ret' \in {0, 1, Undefined}
      BY <1>12, <3>2 DEF EndWindow, Decide
    <3>4. taken' \in [Monitors -> Nat]
      <4> DEFINE b == samplingTab[pkt.ip][samplingRateAxis[pkt.ip]]
      <4>1. taken' = [taken EXCEPT ![pkt.ip] = @ + b]
        BY <1>12 DEF EndWindow
      <4>2. b \in {0, 1}
        BY <3>2
      <4> HIDE DEF b
      <4>3. QED
        BY <4>1, <4>2 DEF TypeOK
    <3>5. samplingRateAxis' \in [Monitors -> Nat]
      BY <1>12 DEF TypeOK, EndWindow
    <3>6. QED
      BY <1>12, <3>3, <3>4, <3>5, IdleType DEF TypeOK, EndWindow, Decide
  <2>2. TableReadInBounds'
    BY <1>12, IdleType DEF TypeOK, EndWindow, Decide, Periodic, PktPc
  <2>3. AxisInside'
    BY <1>12 DEF TypeOK, EndWindow, Decide, Periodic, PktPc
  <2>4. QED
    BY <2>1, <2>2, <2>3
<1>13. CASE PastWindow
  <2>1. TypeOK'
    BY <1>13, IdleType, SamplingAssumption
       DEF TypeOK, PastWindow, Decide, Periodic, PktPc, CtlPc, Stages, Undefined
  <2>2. TableReadInBounds'
    BY <1>13, IdleType DEF TypeOK, PastWindow, Decide, Periodic, PktPc
  <2>3. AxisInside'
    BY <1>13 DEF TypeOK, PastWindow, Decide, Periodic, PktPc
  <2>4. QED
    BY <2>1, <2>2, <2>3
<1>14. ASSUME NEW m \in Monitors, NEW rate \in Rates, HandleTCPClient(m, rate) PROVE IndInv'
  <2>1. TypeOK'
    <3>1. ctl' \in [pc : CtlPc, ip : Monitors, pos : Nat \ {0}, rate : Rates]
      BY <1>14 DEF HandleTCPClient, CtlPc
    <3>2. QED
      BY <1>14, <3>1 DEF TypeOK, HandleTCPClient
  <2>2. TableReadInBounds'
    BY <1>14, IdleType DEF TypeOK, HandleTCPClient, PktPc
  <2>3. AxisInside'
    BY <1>14 DEF TypeOK, HandleTCPClient, PktPc
  <2>4. QED
    BY <2>1, <2>2, <2>3
<1>15. CASE FindMatch
  <2>1. TypeOK'
    BY <1>15, IdleType, SamplingAssumption
       DEF TypeOK, FindMatch, PktPc, CtlPc, Stages, Undefined
  <2>2. TableReadInBounds'
    BY <1>15, IdleType DEF TypeOK, FindMatch, PktPc
  <2>3. AxisInside'
    BY <1>15 DEF TypeOK, FindMatch, PktPc
  <2>4. QED
    BY <2>1, <2>2, <2>3
<1>16. CASE FindNext
  <2>1. TypeOK'
    <3>1. ctl' \in [pc : CtlPc, ip : Monitors, pos : Nat \ {0}, rate : Rates]
      <4>1. ctl' = [ctl EXCEPT !.pos = @ + 1]
        BY <1>16 DEF FindNext
      <4>2. ctl.pos + 1 \in Nat \ {0}
        BY DEF TypeOK
      <4>3. QED
        BY <4>1, <4>2 DEF TypeOK
    <3>2. QED
      BY <1>16, <3>1 DEF TypeOK, FindNext
  <2>2. TableReadInBounds'
    BY <1>16, IdleType DEF TypeOK, FindNext, PktPc
  <2>3. AxisInside'
    BY <1>16 DEF TypeOK, FindNext, PktPc
  <2>4. QED
    BY <2>1, <2>2, <2>3
<1>17. CASE FindNone
  <2>1. TypeOK'
    BY <1>17, IdleType, SamplingAssumption
       DEF TypeOK, FindNone, PktPc, CtlPc, Stages, Undefined
  <2>2. TableReadInBounds'
    BY <1>17, IdleType DEF TypeOK, FindNone, PktPc
  <2>3. AxisInside'
    BY <1>17 DEF TypeOK, FindNone, PktPc
  <2>4. QED
    BY <2>1, <2>2, <2>3
<1>18. CASE FindHalfBuilt
  <2>1. TypeOK'
    BY <1>18, IdleType, SamplingAssumption
       DEF TypeOK, FindHalfBuilt, PktPc, CtlPc, Stages, Undefined
  <2>2. TableReadInBounds'
    BY <1>18, IdleType DEF TypeOK, FindHalfBuilt, PktPc
  <2>3. AxisInside'
    BY <1>18 DEF TypeOK, FindHalfBuilt, PktPc
  <2>4. QED
    BY <2>1, <2>2, <2>3
<1>19. CASE ChangeSamplingRateInNode
  <2>1. TypeOK'
    BY <1>19, IdleType, SamplingAssumption
       DEF TypeOK, ChangeSamplingRateInNode, PktPc, CtlPc, Stages, Undefined
  <2>2. TableReadInBounds'
    <3>1. \A m \in Monitors : samplingRateChanged'[m] = 0 =>
                m # ctl.ip /\ samplingRateChanged[m] = 0
      BY <1>19 DEF TypeOK, ChangeSamplingRateInNode
    <3>2. \A m \in Monitors : m # ctl.ip => samplingRateP2'[m] = samplingRateP2[m]
      BY <1>19 DEF TypeOK, ChangeSamplingRateInNode
    <3>3. QED
      BY <1>19, <3>1, <3>2 DEF ChangeSamplingRateInNode
  <2>3. AxisInside'
    BY <1>19 DEF TypeOK, ChangeSamplingRateInNode, PktPc
  <2>4. QED
    BY <2>1, <2>2, <2>3
<1>20. CASE UNCHANGED vars
  BY <1>20 DEF vars, TypeOK
<1>21. QED
  BY <1>1, <1>2, <1>3, <1>4, <1>5, <1>6, <1>7, <1>8, <1>9, <1>10, <1>11, <1>12, <1>13,
     <1>14, <1>15, <1>16, <1>17, <1>18, <1>19, <1>20
     DEF Next, PacketThread, ControlThread, RandomPeriodicNodeSampling

(* Every variable of the sampler keeps its type, under any interleaving of *)
(* packets and rate changes.                                               *)
THEOREM TypeCorrect == Spec => []TypeOK
<1>1. IndInv => TypeOK
  BY DEF IndInv
<1>2. QED
  BY <1>1, InitInd, StepInd, PTL DEF Spec

(* No rate change, wherever it falls between the critical sections of a    *)
(* packet, makes RandomPeriodicNodeSampling or                             *)
(* GenerateRandomChoicesForNode index samplingTab outside its allocation.  *)
THEOREM TableReadSafe == Spec => []TableReadInBounds
<1>1. IndInv => TableReadInBounds
  BY DEF IndInv
<1>2. QED
  BY <1>1, InitInd, StepInd, PTL DEF Spec

-----------------------------------------------------------------------------
(* flowd's rates (GlobalEstimation.c, reconfigurer) all have P2 = 10000,   *)
(* and a new node starts with a smaller or equal P2.                       *)
FlowdRegime ==
    /\ \A r, q \in Rates : r[2] = q[2]
    /\ \A r \in Rates : InitialP2 <= r[2]

(* What keeps PastWindow from happening then: no rate lets the axis fall   *)
(* behind the end of a window.                                             *)
AxisBelowP2 ==
    /\ \A m \in Monitors :
        /\ samplingRateAxis[m] = 0 \/ samplingRateAxis[m] < samplingRateP2[m]
        /\ \A r \in Rates : samplingRateP2[m] <= r[2]
        /\ sem[m] = 1

(* With rates as flowd sends them, a packet never leaves the semaphore of  *)
(* its node taken, whatever the interleaving.                              *)
THEOREM LockSafe ==
    ASSUME FlowdRegime PROVE Spec => []LockReleased
<1>1. Init => AxisBelowP2
  BY SamplingAssumption DEF Init, AxisBelowP2, FlowdRegime
<1>2. TypeOK /\ AxisBelowP2 /\ [Next]_vars => AxisBelowP2'
  <2> SUFFICES ASSUME TypeOK, AxisBelowP2, [Next]_vars PROVE AxisBelowP2'
    OBVIOUS
  <2> USE DEF AxisBelowP2, rateVars, tabVars
  <2>1. ASSUME NEW m \in Monitors, GetSamplingNode(m) \/ AddNodeLink(m)
        PROVE  AxisBelowP2'
    BY <2>1 DEF GetSamplingNode, AddNodeLink
  <2>2. CASE AddNodeName
    BY <2>2, SamplingAssumption DEF AddNodeName, TypeOK, FlowdRegime
  <2>3. CASE AddNodeReady
    BY <2>3 DEF AddNodeReady, TypeOK
  <2>4. CASE GetNodeSamplingRateStatus
    BY <2>4 DEF GetNodeSamplingRateStatus
  <2>5. CASE InitNodeSamplingRateStatus
    BY <2>5 DEF InitNodeSamplingRateStatus, TypeOK
  <2>6. CASE TakeNone \/ TakeAll \/ InvalidRate
    BY <2>6 DEF TakeNone, TakeAll, InvalidRate
  <2>7. CASE StartWindow
    BY <2>7 DEF StartWindow, Periodic, TypeOK
  <2>8. CASE InWindow
    BY <2>8, SMTT(20) DEF InWindow, Periodic, TypeOK
  <2>9. CASE EndWindow
    BY <2>9 DEF EndWindow, TypeOK
  <2>10. CASE PastWindow
    BY <2>10, SMTT(20) DEF PastWindow, Periodic, TypeOK
  <2>11. ASSUME NEW m \in Monitors, NEW rate \in Rates, HandleTCPClient(m, rate)
         PROVE  AxisBelowP2'
    BY <2>11 DEF HandleTCPClient
  <2>12. CASE FindMatch \/ FindNext \/ FindNone \/ FindHalfBuilt
    BY <2>12 DEF FindMatch, FindNext, FindNone, FindHalfBuilt
  <2>13. CASE ChangeSamplingRateInNode
    <3>1. ctl.rate \in Rates /\ ctl.rate[2] \in Nat
      BY SamplingAssumption DEF TypeOK
    <3>2. QED
      BY <2>13, <3>1, SMTT(20) DEF ChangeSamplingRateInNode, TypeOK, FlowdRegime
  <2>14. CASE UNCHANGED vars
    BY <2>14 DEF vars
  <2>15. QED
    BY <2>1, <2>2, <2>3, <2>4, <2>5, <2>6, <2>7, <2>8, <2>9, <2>10, <2>11,
       <2>12, <2>13, <2>14
       DEF Next, PacketThread, ControlThread, RandomPeriodicNodeSampling
<1>3. AxisBelowP2 => LockReleased
  BY DEF AxisBelowP2, LockReleased
<1>4. QED
  BY <1>1, <1>2, <1>3, TypeCorrect, PTL DEF Spec

-----------------------------------------------------------------------------
(* What a window takes *)

(* The indexes below n that the table of m takes                           *)
Ones(m, n) == {i \in 0 .. n - 1 : samplingTab[m][i] = 1}

(* While the rate of a node is unchanged since its table was drawn, the    *)
(* table is a draw for that rate, and taken counts its entries up to the   *)
(* axis, or all of them when the axis is back at 0.                        *)
Counting(m) ==
    samplingRateChanged[m] = 0 =>
        /\ samplingRateP1[m] > 0
        /\ Ones(m, samplingRateP2[m]) \in Draws(samplingRateP1[m], samplingRateP2[m])
        /\ taken[m] = Cardinality(Ones(m, IF samplingRateAxis[m] = 0 THEN samplingRateP2[m]
                                          ELSE samplingRateAxis[m]))

(* The packet thread starts a new window only for a changed rate: it alone *)
(* lowers samplingRateChanged.                                             *)
WindowInv ==
    /\ \A m \in Monitors : Counting(m)
    /\ pkt.pc = "init" => samplingRateChanged[pkt.ip] = 1

(* One entry more                                                          *)
LEMMA OneMore ==
    ASSUME NEW m \in Monitors, NEW n \in Nat, samplingTab[m][n] \in {0, 1}
    PROVE  /\ IsFiniteSet(Ones(m, n)) /\ Cardinality(Ones(m, n)) \in Nat
           /\ Cardinality(Ones(m, n + 1)) = Cardinality(Ones(m, n)) + samplingTab[m][n]
<1>1. IsFiniteSet(0 .. n - 1)
  <2>1. 0 \in Int /\ n - 1 \in Int
    OBVIOUS
  <2>2. QED
    BY <2>1, FS_Interval
<1>2. IsFiniteSet(Ones(m, n))
  <2>1. Ones(m, n) \subseteq 0 .. n - 1
    BY DEF Ones
  <2>2. QED
    BY <1>1, <2>1, FS_Subset
<1>3. Cardinality(Ones(m, n)) \in Nat
  BY <1>2, FS_CardinalityType
<1>4. 0 .. (n + 1) - 1 = (0 .. n - 1) \cup {n} /\ n \notin 0 .. n - 1
  OBVIOUS
<1>5. CASE samplingTab[m][n] = 1
  <2>1. Ones(m, n + 1) = Ones(m, n) \cup {n} /\ n \notin Ones(m, n)
    BY <1>4, <1>5 DEF Ones
  <2>2. QED
    BY <1>2, <1>3, <1>5, <2>1, FS_AddElement
<1>6. CASE samplingTab[m][n] = 0
  <2>1. Ones(m, n + 1) = Ones(m, n)
    BY <1>4, <1>6 DEF Ones
  <2>2. QED
    BY <1>2, <1>3, <1>6, <2>1
<1>7. QED
  BY <1>2, <1>3, <1>5, <1>6

(* Steps that leave the rate, the table and the axis of a node alone       *)
LEMMA CountingStays ==
    ASSUME NEW m \in Monitors, Counting(m),
           samplingRateChanged'[m] = samplingRateChanged[m],
           samplingRateP1'[m] = samplingRateP1[m], samplingRateP2'[m] = samplingRateP2[m],
           samplingTab'[m] = samplingTab[m], samplingRateAxis'[m] = samplingRateAxis[m],
           taken'[m] = taken[m]
    PROVE  Counting(m)'
<1>1. \A n : Ones(m, n)' = {i \in 0 .. n - 1 : samplingTab'[m][i] = 1}
  BY DEF Ones
<1>2. \A n : Ones(m, n)' = Ones(m, n)
  BY <1>1 DEF Ones
<1>3. QED
  BY <1>2 DEF Counting

(* Steps that leave all of them alone, or raise the flag of the node that  *)
(* they touch                                                              *)
LEMMA OtherWindows ==
    ASSUME TypeOK, WindowInv, NEW n \in Monitors,
           \A m \in Monitors \ {n} :
              /\ samplingRateChanged'[m] = samplingRateChanged[m]
              /\ samplingRateP1'[m] = samplingRateP1[m] /\ samplingRateP2'[m] = samplingRateP2[m]
              /\ samplingTab'[m] = samplingTab[m] /\ samplingRateAxis'[m] = samplingRateAxis[m]
              /\ taken'[m] = taken[m],
           samplingRateChanged'[n] = 1 \/ Counting(n)',
           pkt'.pc = "init" => samplingRateChanged'[pkt'.ip] = 1
    PROVE  WindowInv'
<1>1. ASSUME NEW m \in Monitors PROVE Counting(m)'
  <2>1. CASE m # n
    BY <2>1, CountingStays DEF WindowInv
  <2>2. CASE m = n
    BY <2>2 DEF Counting
  <2>3. QED
    BY <2>1, <2>2
<1>2. QED
  BY <1>1 DEF WindowInv

(* The table that GenerateRandomChoicesForNode draws                       *)
LEMMA StartWindowCounts ==
    ASSUME IndInv, WindowInv, StartWindow
    PROVE  WindowInv'
<1> DEFINE m == pkt.ip
<1>1. PICK n : n = m
  OBVIOUS
<1>2. /\ n \in Monitors /\ TypeOK
      /\ samplingRateP1[n] \in Nat /\ samplingRateP2[n] \in Nat
      /\ samplingRateP1[n] > 0 /\ samplingRateP2[n] > 1
  BY <1>1 DEF IndInv, TypeOK, StartWindow, Periodic
<1>3. PICK S \in Draws(samplingRateP1[n], samplingRateP2[n]) :
        /\ Generate(n, S)
        /\ Decide(samplingTab'[n][0])
        /\ taken' = [taken EXCEPT ![n] = samplingTab'[n][0]]
  BY <1>1 DEF StartWindow
<1>4. /\ samplingRateAxis' = [samplingRateAxis EXCEPT ![n] = 1]
      /\ samplingRateP1' = samplingRateP1 /\ samplingRateP2' = samplingRateP2
  BY <1>1 DEF StartWindow
<1> DEFINE D == IF samplingRateChanged[n] = 1
                THEN 0 .. samplingRateP2[n] - 1 ELSE DOMAIN samplingTab[n]
           newTab == [i \in D |-> IF i \in S THEN 1 ELSE 0]
<1>5. D = 0 .. samplingRateP2[n] - 1
  BY <1>2 DEF TypeOK, IndInv, TableReadInBounds
<1>6. /\ samplingTab' = [samplingTab EXCEPT ![n] = newTab]
      /\ samplingRateChanged' = [samplingRateChanged EXCEPT ![n] = 0]
  BY <1>3 DEF Generate
<1> HIDE DEF m, D
<1>7. /\ \A i \in 0 .. samplingRateP2[n] - 1 : newTab[i] = IF i \in S THEN 1 ELSE 0
      /\ 0 \in 0 .. samplingRateP2[n] - 1
  BY <1>2, <1>5
<1> HIDE DEF newTab
<1>8. /\ samplingTab'[n] = newTab /\ samplingRateAxis'[n] = 1
      /\ taken'[n] = newTab[0]
  <2>1. samplingTab'[n] = newTab
    BY <1>2, <1>6 DEF TypeOK
  <2>2. QED
    BY <1>2, <1>3, <1>4, <2>1 DEF TypeOK
<1>9. \A k : Ones(n, k)' = {i \in 0 .. k - 1 : newTab[i] = 1}
  BY <1>8 DEF Ones
<1>10. Ones(n, samplingRateP2[n])' = S
  <2>1. S \subseteq 0 .. samplingRateP2[n] - 1
    BY DEF Draws
  <2>2. Ones(n, samplingRateP2[n])' = {i \in 0 .. samplingRateP2[n] - 1 : newTab[i] = 1}
    BY <1>4, <1>8 DEF Ones
  <2>3. \A i \in 0 .. samplingRateP2[n] - 1 : newTab[i] = 1 <=> i \in S
    BY <1>7
  <2>4. QED
    BY <2>1, <2>2, <2>3, Zenon
<1>11. Cardinality(Ones(n, 1)') = newTab[0]
  <2>1. 0 .. 1 - 1 = {0}
    OBVIOUS
  <2>2. Ones(n, 1)' = IF newTab[0] = 1 THEN {0} ELSE {}
    BY <1>9, <2>1
  <2>3. Cardinality({0}) = 1 /\ Cardinality({}) = 0
    BY FS_Singleton, FS_EmptySet
  <2>4. newTab[0] \in {0, 1}
    BY <1>7
  <2>5. QED
    BY <2>2, <2>3, <2>4
<1>12. Counting(n)'
  <2>1. samplingRateP1'[n] > 0
    BY <1>2, <1>4
  <2>2. Ones(n, samplingRateP2[n])' \in Draws(samplingRateP1[n], samplingRateP2[n])'
    <3>1. PICK p, q : p = samplingRateP1[n] /\ q = samplingRateP2[n]
      OBVIOUS
    <3>2. Draws(samplingRateP1[n], samplingRateP2[n])' = Draws(p, q)
      BY <1>4, <3>1 DEF Draws
    <3>3. QED
      BY <1>10, <3>1, <3>2
  <2>3. samplingRateAxis'[n] # 0
    BY <1>8
  <2>4. taken'[n] = Cardinality(Ones(n, samplingRateAxis[n]))'
    <3>1. Ones(n, samplingRateAxis[n])' = Ones(n, 1)'
      BY <1>8 DEF Ones
    <3>2. QED
      BY <1>8, <1>11, <3>1
  <2>5. QED
    BY <2>1, <2>2, <2>3, <2>4 DEF Counting
<1>13. pkt'.pc = "idle"
  BY <1>3, IdleType DEF Decide
<1>14. QED
  BY <1>2, <1>3, <1>4, <1>6, <1>12, <1>13, OtherWindows DEF TypeOK

(* The next entry of the table, be it the last or not                      *)
LEMMA NextEntryCounts ==
    ASSUME IndInv, WindowInv, InWindow \/ EndWindow
    PROVE  WindowInv'
<1>1. PICK n : n = pkt.ip
  OBVIOUS
<1>2. PICK a : a = samplingRateAxis[n]
  OBVIOUS
<1>3. /\ n \in Monitors /\ TypeOK /\ a \in Nat /\ a # 0 /\ a \in DOMAIN samplingTab[n]
      /\ samplingTab[n][a] \in {0, 1} /\ samplingRateP2[n] \in Nat
  <2>1. n \in Monitors /\ TypeOK /\ a \in Nat /\ a # 0 /\ samplingRateP2[n] \in Nat
    BY <1>1, <1>2 DEF IndInv, TypeOK, InWindow, EndWindow
  <2>2. a \in DOMAIN samplingTab[n]
    BY <1>1, <1>2, <2>1 DEF IndInv, TableReadInBounds, InWindow, EndWindow, Decide
  <2>3. QED
    BY <2>1, <2>2 DEF TypeOK
<1>4. /\ taken' = [taken EXCEPT ![n] = @ + samplingTab[n][a]]
      /\ UNCHANGED <<rateVars, samplingTab>>
      /\ \/ a < samplingRateP2[n] - 1 /\ samplingRateAxis' = [samplingRateAxis EXCEPT ![n] = @ + 1]
         \/ a = samplingRateP2[n] - 1 /\ samplingRateAxis' = [samplingRateAxis EXCEPT ![n] = 0]
  BY <1>1, <1>2 DEF InWindow, EndWindow
<1>5. /\ taken'[n] = taken[n] + samplingTab[n][a]
      /\ \/ a < samplingRateP2[n] - 1 /\ samplingRateAxis'[n] = a + 1
         \/ a = samplingRateP2[n] - 1 /\ samplingRateAxis'[n] = 0
  BY <1>2, <1>3, <1>4 DEF TypeOK
<1>6. \A k : Ones(n, k)' = Ones(n, k)
  BY <1>4 DEF Ones
<1>7. Counting(n)'
  <2>1. SUFFICES ASSUME samplingRateChanged[n] = 0 PROVE Counting(n)'
    BY <1>4 DEF Counting, rateVars
  <2>2. /\ samplingRateP1[n] > 0
        /\ Ones(n, samplingRateP2[n]) \in Draws(samplingRateP1[n], samplingRateP2[n])
        /\ taken[n] = Cardinality(Ones(n, a))
    BY <1>2, <1>3, <2>1 DEF WindowInv, Counting
  <2>3. taken'[n] = Cardinality(Ones(n, a + 1))
    BY <1>3, <1>5, <2>2, OneMore
  <2>4. a + 1 = IF samplingRateAxis'[n] = 0 THEN samplingRateP2[n] ELSE samplingRateAxis'[n]
    BY <1>3, <1>5
  <2>5. UNCHANGED <<samplingRateP1, samplingRateP2, samplingTab>>
    BY <1>4 DEF rateVars
  <2>6. /\ Ones(n, samplingRateP2[n])' = Ones(n, samplingRateP2[n])
        /\ Ones(n, IF samplingRateAxis[n] = 0 THEN samplingRateP2[n]
                   ELSE samplingRateAxis[n])' = Ones(n, a + 1)
    BY <2>4, <2>5 DEF Ones
  <2>7. QED
    BY <2>2, <2>3, <2>5, <2>6 DEF Counting
<1>8. pkt'.pc = "idle"
  BY IdleType DEF InWindow, EndWindow, Decide
<1>9. QED
  BY <1>3, <1>4, <1>5, <1>7, <1>8, OtherWindows DEF TypeOK, rateVars

(* Every step keeps the counts of the windows.                             *)
LEMMA WindowStep == IndInv /\ WindowInv /\ [Next]_vars => WindowInv'
<1> SUFFICES ASSUME IndInv, WindowInv, [Next]_vars PROVE WindowInv'
  OBVIOUS
<1>0. TypeOK /\ pkt.ip \in Monitors /\ ctl.ip \in Monitors
  BY DEF IndInv, TypeOK
<1> USE DEF rateVars, tabVars
<1>1. ASSUME UNCHANGED <<rateVars, tabVars>>,
             pkt'.pc = "init" => samplingRateChanged[pkt'.ip] = 1
      PROVE  WindowInv'
  <2>1. \A m \in Monitors : Counting(m)'
    BY <1>1, CountingStays DEF WindowInv
  <2>2. QED
    BY <1>1, <2>1 DEF WindowInv
<1>2. ASSUME NEW m \in Monitors, GetSamplingNode(m) \/ AddNodeLink(m) PROVE WindowInv'
  BY <1>1, <1>2 DEF GetSamplingNode, AddNodeLink
<1>3. CASE AddNodeName
  <2>1. pkt'.pc = "named"
    BY <1>0, <1>3 DEF AddNodeName, TypeOK
  <2>2. samplingRateChanged'[pkt.ip] = 1
    BY <1>0, <1>3 DEF AddNodeName, TypeOK
  <2>3. PICK n \in Monitors : n = pkt.ip
    BY <1>0
  <2>4. QED
    BY <1>0, <1>3, <2>1, <2>2, <2>3, OtherWindows DEF AddNodeName, TypeOK
<1>4. CASE AddNodeReady
  BY <1>0, <1>1, <1>4 DEF AddNodeReady, TypeOK
<1>5. CASE GetNodeSamplingRateStatus
  BY <1>0, <1>1, <1>5 DEF GetNodeSamplingRateStatus, TypeOK
<1>6. CASE InitNodeSamplingRateStatus
  <2>1. pkt'.pc = "decide" /\ samplingRateChanged'[pkt.ip] = 1
    BY <1>0, <1>6 DEF InitNodeSamplingRateStatus, TypeOK, WindowInv
  <2>2. PICK n \in Monitors : n = pkt.ip
    BY <1>0
  <2>3. QED
    BY <1>0, <1>6, <2>1, <2>2, OtherWindows DEF InitNodeSamplingRateStatus, TypeOK
<1>7. CASE TakeNone \/ TakeAll \/ InvalidRate \/ PastWindow
  BY <1>1, <1>7, IdleType DEF TakeNone, TakeAll, InvalidRate, PastWindow, Decide
<1>8. CASE StartWindow
  BY <1>8, StartWindowCounts
<1>9. CASE InWindow \/ EndWindow
  BY <1>9, NextEntryCounts
<1>10. ASSUME NEW m \in Monitors, NEW rate \in Rates, HandleTCPClient(m, rate) PROVE WindowInv'
  BY <1>1, <1>10 DEF HandleTCPClient, WindowInv
<1>11. CASE FindMatch \/ FindNext \/ FindNone \/ FindHalfBuilt
  BY <1>1, <1>11 DEF FindMatch, FindNext, FindNone, FindHalfBuilt, WindowInv
<1>12. CASE ChangeSamplingRateInNode
  <2>1. PICK n \in Monitors : n = ctl.ip
    BY <1>0
  <2>2. /\ samplingRateChanged' = [samplingRateChanged EXCEPT ![n] = 1]
        /\ samplingRateP1' = [samplingRateP1 EXCEPT ![n] = ctl.rate[1]]
        /\ samplingRateP2' = [samplingRateP2 EXCEPT ![n] = ctl.rate[2]]
        /\ UNCHANGED <<tabVars, pkt>>
    BY <1>12, <2>1 DEF ChangeSamplingRateInNode
  <2>3. pkt.pc = "init" => samplingRateChanged'[pkt.ip] = 1
    BY <1>0, <2>2 DEF TypeOK, WindowInv
  <2>4. samplingRateChanged'[n] = 1
    BY <1>0, <2>2 DEF TypeOK
  <2>5. QED
    BY <1>0, <2>1, <2>2, <2>3, <2>4, OtherWindows DEF TypeOK
<1>13. CASE UNCHANGED vars
  BY <1>1, <1>13 DEF vars, WindowInv
<1>14. QED
  BY <1>2, <1>3, <1>4, <1>5, <1>6, <1>7, <1>8, <1>9, <1>10, <1>11, <1>12, <1>13
     DEF Next, PacketThread, ControlThread, RandomPeriodicNodeSampling

(* The counts of the windows are right throughout.                         *)
LEMMA WindowInvariance == Spec => []WindowInv
<1>1. Init => WindowInv
  BY IdleType DEF Init, WindowInv, Counting
<1>2. QED
  BY <1>1, InitInd, StepInd, WindowStep, PTL DEF Spec

(* A window takes at least one packet and at most P1, whatever table is    *)
(* drawn and wherever rate changes fall between the critical sections: a   *)
(* change that falls into a window is seen before its end counts.          *)
THEOREM QuotaCorrect == Spec => []WindowQuota
<1>1. IndInv /\ WindowInv => WindowQuota
  <2> SUFFICES ASSUME IndInv, WindowInv, NEW m \in Monitors,
                      samplingRateChanged[m] = 0, samplingRateAxis[m] = 0
               PROVE  taken[m] \in 1 .. samplingRateP1[m]
    BY DEF WindowQuota
  <2>1. /\ samplingRateP1[m] \in Nat /\ samplingRateP1[m] > 0
        /\ Ones(m, samplingRateP2[m]) \in Draws(samplingRateP1[m], samplingRateP2[m])
        /\ taken[m] = Cardinality(Ones(m, samplingRateP2[m]))
    BY DEF IndInv, TypeOK, WindowInv, Counting
  <2>2. QED
    BY <2>1 DEF Draws
<1>2. QED
  BY <1>1, InitInd, StepInd, WindowInvariance, PTL DEF Spec

(* With the draw of Router.cpp, which draws again an index it already has, *)
(* a window takes exactly P1 packets.                                      *)
THEOREM ExactCorrect == ASSUME Distinct PROVE Spec => []WindowExact
<1>1. IndInv /\ WindowInv => WindowExact
  <2> SUFFICES ASSUME WindowInv, NEW m \in Monitors,
                      samplingRateChanged[m] = 0, samplingRateAxis[m] = 0
               PROVE  taken[m] = samplingRateP1[m]
    BY DEF WindowExact
  <2>1. /\ Ones(m, samplingRateP2[m]) \in Draws(samplingRateP1[m], samplingRateP2[m])
        /\ taken[m] = Cardinality(Ones(m, samplingRateP2[m]))
    BY DEF WindowInv, Counting
  <2>2. QED
    BY <2>1 DEF Draws
<1>2. QED
  BY <1>1, InitInd, StepInd, WindowInvariance, PTL DEF Spec

-----------------------------------------------------------------------------
(* Wire: reading the text                                                  *)

(* The next separator is found at the first place that has one.            *)
LEMMA StrchrNext ==
    ASSUME NEW msg, Len(msg) \in Nat, NEW i \in Nat, NEW j \in i + 1 .. Len(msg),
           msg[j] = SEP, \A k \in i + 1 .. j - 1 : msg[k] # SEP
    PROVE  strchr(msg, i) = j
<1> DEFINE S == {k \in i + 1 .. Len(msg) : msg[k] = SEP} \cup {Len(msg) + 1}
<1>1. j \in S /\ \A y \in S : j <= y
  OBVIOUS
<1>2. \A x \in S : (\A y \in S : x <= y) => x = j
  <2>1. \A x \in S : x \in Int
    OBVIOUS
  <2>2. QED
    BY <1>1, <2>1
<1>3. strchr(msg, i) = Min(S)
  BY DEF strchr
<1> HIDE DEF S
<1>4. QED
  BY <1>1, <1>2, <1>3 DEF Min

(* The separators are found one after the other.                           *)
LEMMA SeparatorsAre ==
    ASSUME NEW msg
    PROVE  /\ Separators(msg)[0] = 0
           /\ \A i \in 1..14 : Separators(msg)[i] = strchr(msg, Separators(msg)[i - 1])
<1> DEFINE n == MAX_EMULATOR_MESSAGE_PARTS
           next(x) == strchr(msg, x)
           Step(f) == [i \in 0..n |-> IF i = 0 THEN 0 ELSE next(f[i - 1])]
           w == CHOOSE f : f = Step(f)
           Fits(f, k) == f[0] = 0 /\ \A i \in 1..k : f[i] = next(f[i - 1])
           P == {k \in Nat : \E f : Fits(f, k)}
<1>1. Separators(msg) = w
  BY DEF Separators
<1>2. n \in Nat /\ n = 14
  BY DEF MAX_EMULATOR_MESSAGE_PARTS
<1> HIDE DEF n, next
<1>3. 0 \in P
  <2>1. Fits([i \in {0} |-> 0], 0)
    OBVIOUS
  <2>2. \E f : Fits(f, 0)
    <3> HIDE DEF Fits
    <3>1. QED
      BY <2>1
  <2> HIDE DEF Fits
  <2>3. QED
    BY <2>2
<1>4. ASSUME NEW k \in P PROVE k + 1 \in P
  <2>1. k \in Nat /\ \E f : Fits(f, k)
    OBVIOUS
  <2>2. PICK f : Fits(f, k)
    BY <2>1
  <2> DEFINE g == [i \in 0..k + 1 |-> IF i = k + 1 THEN next(f[k]) ELSE f[i]]
  <2>3. g[0] = 0
    BY <2>1, <2>2
  <2>4. ASSUME NEW i \in 1..k + 1 PROVE g[i] = next(g[i - 1])
    <3>1. i - 1 \in 0..k /\ i - 1 # k + 1
      BY <2>1
    <3>2. g[i - 1] = f[i - 1]
      BY <2>1, <3>1
    <3>3. CASE i = k + 1
      <4>1. g[i] = next(f[k]) /\ i - 1 = k
        BY <2>1, <3>3
      <4>2. QED
        BY <3>2, <3>3, <4>1
    <3>4. CASE i # k + 1
      <4>1. i \in 1..k
        BY <2>1, <3>4
      <4>2. g[i] = f[i]
        BY <2>1, <3>4, <4>1
      <4>3. QED
        BY <2>2, <3>2, <4>1, <4>2
    <3>5. QED
      BY <3>3, <3>4
  <2>5. Fits(g, k + 1)
    BY <2>3, <2>4
  <2>6. \E x : Fits(x, k + 1)
    <3> HIDE DEF Fits, g
    <3>1. QED
      BY <2>5
  <2> HIDE DEF Fits
  <2>7. QED
    BY <2>1, <2>6
<1>5. P = Nat
  <2>1. P \subseteq Nat
    OBVIOUS
  <2> HIDE DEF P
  <2>2. QED
    BY <1>3, <1>4, <2>1, NatInduct
<1>6. \E f : f = Step(f)
  <2>1. PICK f : Fits(f, n)
    BY <1>2, <1>5
  <2> DEFINE g == [i \in 0..n |-> f[i]]
  <2>2. ASSUME NEW i \in 0..n PROVE g[i] = IF i = 0 THEN 0 ELSE next(g[i - 1])
    <3>1. CASE i = 0
      BY <1>2, <2>1, <3>1
    <3>2. CASE i # 0
      <4>1. i \in 1..n /\ i - 1 \in 0..n
        BY <1>2, <3>2
      <4>2. g[i] = f[i] /\ g[i - 1] = f[i - 1]
        BY <4>1
      <4>3. QED
        BY <2>1, <3>2, <4>1, <4>2
    <3>3. QED
      BY <3>1, <3>2
  <2>3. g = [i \in 0..n |-> g[i]]
    OBVIOUS
  <2>4. g = Step(g)
    <3> HIDE DEF g
    <3>1. QED
      BY <2>2, <2>3
  <2> HIDE DEF g, Step
  <2>5. QED
    BY <2>4
<1>7. w = Step(w)
  BY <1>6
<1> HIDE DEF w
<1>8. w[0] = 0 /\ \A i \in 1..n : w[i] = next(w[i - 1])
  BY <1>2, <1>7
<1>9. QED
  BY <1>1, <1>2, <1>8 DEF next

(* A separator is no printed number, and NUL is no separator.              *)
LEMMA TokensDiffer ==
    /\ \A n : Printed(n) # SEP
    /\ NUL # SEP
    /\ Len(SEP) = 8 /\ SEP[3] = 1
<1>1. Len(SEP) = 8 /\ SEP[3] = 1 /\ NUL[3] = 0
  BY DEF SEP, NUL
<1>2. ASSUME NEW n PROVE Len(Printed(n)) = 1
  BY DEF Printed
<1>3. QED
  BY <1>1, <1>2

(* A part that is one printed number reads as the number.                  *)
LEMMA PrintedReads ==
    ASSUME NEW X, NEW msg \in Seq(X), NEW k \in 1..Len(msg), NEW v, msg[k] = Printed(v)
    PROVE  atoi(SubSeq(msg, k, k)) = v
<1> DEFINE s == SubSeq(msg, k, k)
<1>1. s \in Seq(X) /\ Len(s) = 1 /\ s[1] = msg[k]
  BY SubSeqProperties
<1>2. s # <<>>
  BY <1>1
<1>3. Len(Printed(v)) = 1 /\ Printed(v)[1] = v
  BY DEF Printed
<1> HIDE DEF s
<1>4. QED
  BY <1>1, <1>2, <1>3 DEF atoi

(* The tokens of a text, and the packets that are printed.                 *)
Tokens == {SEP} \cup {Printed(n) : n \in Int} \cup Octets

Packets ==
    [id : Nat, sec : Nat, usec : Nat, forwarded : BOOLEAN, src : Nat, dst : Nat,
     len : Nat, p : Nat, flags : Octets, fragment : BOOLEAN, seq : Nat,
     sport : Int, dport : Int]

Port(n) == Printed(IF n = Unset THEN 0 ELSE n)

(* The part of a text that all protocols have.                             *)
Common(q, monitor) ==
    <<Printed(monitor), SEP, Printed(q.src), SEP, Printed(q.dst), SEP, Printed(q.len), SEP,
      Printed(q.sec), SEP, Printed(q.usec), SEP, Port(q.sport), SEP, Port(q.dport), SEP,
      Printed(AsOf[q.src]), SEP, Printed(AsOf[q.dst]), SEP, Printed(q.p)>>

(* The common part has a number and a separator in turn.                   *)
LEMMA CommonTokens ==
    ASSUME NEW q \in Packets, NEW m \in Nat, AsOf[q.src] \in Nat, AsOf[q.dst] \in Nat
    PROVE  /\ Common(q, m) \in Seq(Tokens) /\ Len(Common(q, m)) = 21
           /\ \A n \in 0..10 : Common(q, m)[n + n + 1] # SEP
           /\ \A n \in 1..10 : Common(q, m)[n + n] = SEP
           /\ Common(q, m)[3] = Printed(q.src) /\ Common(q, m)[5] = Printed(q.dst)
           /\ Common(q, m)[7] = Printed(q.len)
           /\ Common(q, m)[13] = Port(q.sport) /\ Common(q, m)[15] = Port(q.dport)
           /\ Common(q, m)[17] = Printed(AsOf[q.src])
           /\ Common(q, m)[19] = Printed(AsOf[q.dst])
           /\ Common(q, m)[21] = Printed(q.p)
<1> DEFINE c == Common(q, m)
<1>1. SEP \in Tokens /\ \A n \in Int : Printed(n) \in Tokens /\ Port(n) \in Tokens
  BY DEF Tokens, Port
<1>2. /\ c[1] = Printed(m) /\ c[3] = Printed(q.src) /\ c[5] = Printed(q.dst)
      /\ c[7] = Printed(q.len) /\ c[9] = Printed(q.sec) /\ c[11] = Printed(q.usec)
      /\ c[13] = Port(q.sport) /\ c[15] = Port(q.dport)
      /\ c[17] = Printed(AsOf[q.src]) /\ c[19] = Printed(AsOf[q.dst])
      /\ c[21] = Printed(q.p)
  BY DEF Common
<1>3. /\ c[2] = SEP /\ c[4] = SEP /\ c[6] = SEP /\ c[8] = SEP /\ c[10] = SEP
      /\ c[12] = SEP /\ c[14] = SEP /\ c[16] = SEP /\ c[18] = SEP /\ c[20] = SEP
  BY DEF Common
<1>4. Len(c) = 21 /\ DOMAIN c = 1..21
  BY DEF Common
<1>5. c = [i \in 1..21 |-> c[i]]
  BY DEF Common
<1>6. /\ m \in Int /\ q.src \in Int /\ q.dst \in Int /\ q.len \in Int /\ q.sec \in Int
      /\ q.usec \in Int /\ q.sport \in Int /\ q.dport \in Int /\ q.p \in Int
      /\ AsOf[q.src] \in Int /\ AsOf[q.dst] \in Int
  BY DEF Packets
<1> HIDE DEF c
<1>7. \A i \in 1..21 : \/ i = 1 \/ i = 2 \/ i = 3 \/ i = 4 \/ i = 5 \/ i = 6 \/ i = 7
                       \/ i = 8 \/ i = 9 \/ i = 10 \/ i = 11 \/ i = 12 \/ i = 13 \/ i = 14
                       \/ i = 15 \/ i = 16 \/ i = 17 \/ i = 18 \/ i = 19 \/ i = 20 \/ i = 21
  OBVIOUS
<1>8. \A i \in 1..21 : c[i] \in Tokens
  BY <1>1, <1>2, <1>3, <1>6, <1>7
<1>9. c \in Seq(Tokens)
  BY <1>4, <1>5, <1>8
<1>10. \A n : Printed(n) # SEP /\ Port(n) # SEP
  BY TokensDiffer DEF Port
<1>11. \A n \in 0..10 : c[n + n + 1] # SEP
  <2>1. \A n \in 0..10 : \/ n = 0 \/ n = 1 \/ n = 2 \/ n = 3 \/ n = 4 \/ n = 5 \/ n = 6
                         \/ n = 7 \/ n = 8 \/ n = 9 \/ n = 10
    OBVIOUS
  <2>2. QED
    BY <1>2, <1>10, <2>1
<1>12. \A n \in 1..10 : c[n + n] = SEP
  <2>1. \A n \in 1..10 : \/ n = 1 \/ n = 2 \/ n = 3 \/ n = 4 \/ n = 5 \/ n = 6
                         \/ n = 7 \/ n = 8 \/ n = 9 \/ n = 10
    OBVIOUS
  <2>2. QED
    BY <1>3, <2>1
<1>13. QED
  BY <1>2, <1>4, <1>9, <1>11, <1>12 DEF c

(* The text is the common part, the fields of the protocol and the mark.   *)
LEMMA MessageIs ==
    ASSUME NEW q, NEW m
    PROVE  GetPacketMessage(q, m) =
             Common(q, m) \o TransportFields(q) \o <<SEP, Printed(Bit(q.forwarded))>>
  BY DEF GetPacketMessage, Common, Port

(* A text that begins with what is printed of q for monitor m.             *)
Starts(msg, q, m) ==
    /\ q \in Packets /\ m \in Nat /\ AsOf[q.src] \in Nat /\ AsOf[q.dst] \in Nat
    /\ msg \in Seq(Tokens) /\ Len(msg) >= 22 /\ msg[22] = SEP
    /\ \A i \in 1..21 : msg[i] = Common(q, m)[i]

(* The parts that all protocols have are read as they were printed.        *)
LEMMA CommonRead ==
    ASSUME NEW msg, NEW q, NEW m, Starts(msg, q, m)
    PROVE  /\ \A n \in 0..11 : Separators(msg)[n] = n + n
           /\ Part(msg, 1) = q.src /\ Part(msg, 2) = q.dst /\ Part(msg, 3) = q.len
           /\ Part(msg, 6) = (IF q.sport = Unset THEN 0 ELSE q.sport)
           /\ Part(msg, 7) = (IF q.dport = Unset THEN 0 ELSE q.dport)
           /\ Part(msg, 8) = AsOf[q.src] /\ Part(msg, 9) = AsOf[q.dst]
           /\ Part(msg, 10) = q.p
<1> DEFINE at == Separators(msg)
           P == {n \in Nat : n <= 11 => at[n] = n + n}
<1>1. at[0] = 0 /\ \A i \in 1..14 : at[i] = strchr(msg, at[i - 1])
  BY SeparatorsAre
<1>2. Len(msg) \in Nat /\ Len(msg) >= 22 /\ msg[22] = SEP
  BY DEF Starts
<1>3. /\ \A n \in 0..10 : msg[n + n + 1] # SEP
      /\ \A n \in 1..10 : msg[n + n] = SEP
  <2>1. \A n \in 0..10 : n + n + 1 \in 1..21
    OBVIOUS
  <2>2. \A n \in 1..10 : n + n \in 1..21
    OBVIOUS
  <2>3. QED
    <3> DEFINE c == Common(q, m)
    <3>1. /\ \A n \in 0..10 : c[n + n + 1] # SEP
          /\ \A n \in 1..10 : c[n + n] = SEP
      BY CommonTokens DEF Starts
    <3>2. \A i \in 1..21 : msg[i] = c[i]
      BY DEF Starts
    <3> HIDE DEF c
    <3>3. QED
      BY <2>1, <2>2, <3>1, <3>2
<1> HIDE DEF at
<1>4. 0 \in P
  BY <1>1
<1>5. ASSUME NEW n \in P PROVE n + 1 \in P
  <2>1. CASE n + 1 > 11
    BY <2>1
  <2>2. CASE n + 1 <= 11
    <3>1. n \in 0..10 /\ at[n] = n + n /\ at[n + 1] = strchr(msg, at[n])
      <4>1. n \in 0..10 /\ at[n] = n + n
        BY <2>2
      <4>2. n + 1 \in 1..14 /\ (n + 1) - 1 = n
        BY <4>1
      <4>3. QED
        BY <1>1, <4>1, <4>2
    <3>2. msg[n + n + 2] = SEP
      <4>1. CASE n = 10
        BY <1>2, <4>1
      <4>2. CASE n # 10
        <5>1. n + 1 \in 1..10 /\ (n + 1) + (n + 1) = n + n + 2
          BY <3>1, <4>2
        <5>2. QED
          BY <1>3, <5>1
      <4>3. QED
        BY <4>1, <4>2
    <3>3. /\ n + n \in Nat /\ n + n + 2 \in n + n + 1 .. Len(msg)
          /\ \A k \in n + n + 1 .. (n + n + 2) - 1 : k = n + n + 1
      BY <1>2, <3>1
    <3>4. \A k \in n + n + 1 .. (n + n + 2) - 1 : msg[k] # SEP
      BY <1>3, <3>1, <3>3
    <3>5. strchr(msg, n + n) = n + n + 2
      BY <1>2, <3>2, <3>3, <3>4, StrchrNext
    <3>6. QED
      BY <3>1, <3>5
  <2>3. QED
    BY <2>1, <2>2
<1>6. \A n \in 0..11 : at[n] = n + n
  <2>1. P \subseteq Nat
    OBVIOUS
  <2>2. P = Nat
    <3> HIDE DEF P
    <3>1. QED
      BY <1>4, <1>5, <2>1, NatInduct
  <2>3. QED
    BY <2>2
<1>7. ASSUME NEW n \in 0..10, NEW v, msg[n + n + 1] = Printed(v)
      PROVE  Part(msg, n) = v
  <2>1. n + 1 \in 0..11 /\ n # MAX_EMULATOR_MESSAGE_PARTS
    BY DEF MAX_EMULATOR_MESSAGE_PARTS
  <2>2. at[n] + 1 = n + n + 1 /\ at[n + 1] - 1 = n + n + 1
    BY <1>6, <2>1
  <2>3. get_emulator_packet_part(msg, n) = SubSeq(msg, n + n + 1, n + n + 1)
    BY <2>1, <2>2 DEF get_emulator_packet_part, at
  <2>4. n + n + 1 \in 1..Len(msg)
    BY <1>2
  <2>5. QED
    BY <1>7, <2>3, <2>4, PrintedReads DEF Part, Starts
<1>8. /\ msg[3] = Printed(q.src) /\ msg[5] = Printed(q.dst) /\ msg[7] = Printed(q.len)
      /\ msg[13] = Port(q.sport) /\ msg[15] = Port(q.dport)
      /\ msg[17] = Printed(AsOf[q.src]) /\ msg[19] = Printed(AsOf[q.dst])
      /\ msg[21] = Printed(q.p)
  <2> DEFINE c == Common(q, m)
  <2>1. /\ c[3] = Printed(q.src) /\ c[5] = Printed(q.dst) /\ c[7] = Printed(q.len)
        /\ c[13] = Port(q.sport) /\ c[15] = Port(q.dport)
        /\ c[17] = Printed(AsOf[q.src]) /\ c[19] = Printed(AsOf[q.dst])
        /\ c[21] = Printed(q.p)
    BY CommonTokens DEF Starts
  <2>2. \A i \in 1..21 : msg[i] = c[i]
    BY DEF Starts
  <2>3. /\ msg[3] = c[3] /\ msg[5] = c[5] /\ msg[7] = c[7] /\ msg[13] = c[13]
        /\ msg[15] = c[15] /\ msg[17] = c[17] /\ msg[19] = c[19] /\ msg[21] = c[21]
    <3> HIDE DEF c
    <3>1. QED
      BY <2>2
  <2> HIDE DEF c
  <2>4. QED
    BY <2>1, <2>3
<1>9. Part(msg, 1) = q.src /\ Part(msg, 2) = q.dst /\ Part(msg, 3) = q.len
  <2>1. 1 + 1 + 1 = 3 /\ 2 + 2 + 1 = 5 /\ 3 + 3 + 1 = 7 /\ 1 \in 0..10 /\ 2 \in 0..10 /\ 3 \in 0..10
    OBVIOUS
  <2>2. QED
    BY <1>7, <1>8, <2>1
<1>10. /\ Part(msg, 6) = (IF q.sport = Unset THEN 0 ELSE q.sport)
       /\ Part(msg, 7) = (IF q.dport = Unset THEN 0 ELSE q.dport)
  <2>1. 6 + 6 + 1 = 13 /\ 7 + 7 + 1 = 15 /\ 6 \in 0..10 /\ 7 \in 0..10
    OBVIOUS
  <2>2. QED
    BY <1>7, <1>8, <2>1 DEF Port
<1>11. Part(msg, 8) = AsOf[q.src] /\ Part(msg, 9) = AsOf[q.dst] /\ Part(msg, 10) = q.p
  <2>1. /\ 8 + 8 + 1 = 17 /\ 9 + 9 + 1 = 19 /\ 10 + 10 + 1 = 21
        /\ 8 \in 0..10 /\ 9 \in 0..10 /\ 10 \in 0..10
    OBVIOUS
  <2>2. QED
    BY <1>7, <1>8, <2>1
<1>12. QED
  BY <1>6, <1>9, <1>10, <1>11 DEF at

(* The tokens of a concatenation.                                          *)
LEMMA ConcatTokens ==
    ASSUME NEW X, NEW s \in Seq(X), NEW t \in Seq(X)
    PROVE  /\ s \o t \in Seq(X) /\ Len(s \o t) = Len(s) + Len(t)
           /\ \A i \in 1..Len(s) : (s \o t)[i] = s[i]
           /\ \A i \in 1..Len(t) : (s \o t)[Len(s) + i] = t[i]
  BY ConcatProperties

(* The tokens of a text of three pieces.                                   *)
LEMMA ThreePieces ==
    ASSUME NEW X, NEW c \in Seq(X), NEW t \in Seq(X), NEW e \in Seq(X),
           NEW u, u = (c \o t) \o e
    PROVE  /\ u \in Seq(X)
           /\ Len(u) = Len(c) + Len(t) + Len(e)
           /\ \A i \in 1..Len(c) : u[i] = c[i]
           /\ \A i \in 1..Len(t) : u[Len(c) + i] = t[i]
           /\ \A i \in 1..Len(e) : u[Len(c) + Len(t) + i] = e[i]
<1> DEFINE d == c \o t
<1>1. Len(t) \in Nat /\ Len(c) \in Nat /\ Len(e) \in Nat
  OBVIOUS
<1>2. /\ d \in Seq(X) /\ Len(d) = Len(c) + Len(t)
      /\ \A i \in 1..Len(c) : d[i] = c[i]
      /\ \A i \in 1..Len(t) : d[Len(c) + i] = t[i]
  BY ConcatTokens
<1>3. u = d \o e
  OBVIOUS
<1> HIDE DEF d
<1>4. d \in Seq(X)
  BY <1>2
<1>5. /\ u \in Seq(X) /\ Len(u) = Len(d) + Len(e)
      /\ \A i \in 1..Len(d) : u[i] = d[i]
      /\ \A i \in 1..Len(e) : u[Len(d) + i] = e[i]
  BY <1>3, <1>4, ConcatTokens
<1>6. \A i \in 1..Len(c) : i \in 1..Len(d)
  BY <1>1, <1>2
<1>7. \A i \in 1..Len(t) : Len(c) + i \in 1..Len(d)
  BY <1>1, <1>2
<1>8. /\ \A i \in 1..Len(c) : u[i] = c[i]
      /\ \A i \in 1..Len(t) : u[Len(c) + i] = t[i]
  BY <1>2, <1>5, <1>6, <1>7
<1>9. QED
  BY <1>1, <1>2, <1>5, <1>8

(* What is known of the fields of a protocol.                              *)
Fields(q, t) == t = TransportFields(q) /\ t \in Seq(Tokens) /\ Len(t) >= 1 /\ t[1] = SEP

Printable(q) == q \in Packets /\ AsOf[q.src] \in Nat /\ AsOf[q.dst] \in Nat

(* After the common part come the fields of the protocol and the mark.     *)
LEMMA TailTokens ==
    ASSUME NEW q, Printable(q), NEW m \in Nat, NEW t, Fields(q, t)
    PROVE  /\ Starts(GetPacketMessage(q, m), q, m)
           /\ Len(GetPacketMessage(q, m)) = 23 + Len(t)
           /\ \A i \in 1..Len(t) : GetPacketMessage(q, m)[21 + i] = t[i]
           /\ GetPacketMessage(q, m)[22 + Len(t)] = SEP
           /\ GetPacketMessage(q, m)[23 + Len(t)] = Printed(Bit(q.forwarded))
<1> DEFINE c == Common(q, m)
           e == <<SEP, Printed(Bit(q.forwarded))>>
           msg == GetPacketMessage(q, m)
<1>1. c \in Seq(Tokens) /\ Len(c) = 21
  BY CommonTokens DEF Printable
<1>2. e \in Seq(Tokens) /\ Len(e) = 2 /\ e[1] = SEP /\ e[2] = Printed(Bit(q.forwarded))
  <2>1. SEP \in Tokens /\ Printed(Bit(q.forwarded)) \in Tokens
    BY DEF Tokens, Bit
  <2>2. QED
    BY <2>1
<1>3. msg = (c \o t) \o e
  BY MessageIs DEF Fields
<1>4. t \in Seq(Tokens) /\ Len(t) \in Nat /\ Len(t) >= 1 /\ t[1] = SEP
  BY DEF Fields
<1> HIDE DEF c, e
<1> HIDE DEF msg
<1>5. /\ msg \in Seq(Tokens)
      /\ Len(msg) = 23 + Len(t)
      /\ \A i \in 1..21 : msg[i] = c[i]
      /\ \A i \in 1..Len(t) : msg[21 + i] = t[i]
      /\ msg[22 + Len(t)] = e[1]
      /\ msg[23 + Len(t)] = e[2]
  <2>1. c \in Seq(Tokens) /\ e \in Seq(Tokens) /\ t \in Seq(Tokens)
    BY <1>1, <1>2, <1>4
  <2>2. /\ msg \in Seq(Tokens)
        /\ Len(msg) = Len(c) + Len(t) + Len(e)
        /\ \A i \in 1..Len(c) : msg[i] = c[i]
        /\ \A i \in 1..Len(t) : msg[Len(c) + i] = t[i]
        /\ \A i \in 1..Len(e) : msg[Len(c) + Len(t) + i] = e[i]
    BY <1>3, <2>1, ThreePieces
  <2>3. msg[21 + Len(t) + 1] = e[1] /\ msg[21 + Len(t) + 2] = e[2]
    BY <1>1, <1>2, <2>2
  <2>4. 21 + Len(t) + 1 = 22 + Len(t) /\ 21 + Len(t) + 2 = 23 + Len(t)
    BY <1>4
  <2>5. QED
    BY <1>1, <1>2, <2>2, <2>3, <2>4
<1>6. /\ msg \in Seq(Tokens)
      /\ Len(msg) = 23 + Len(t)
      /\ \A i \in 1..21 : msg[i] = c[i]
      /\ \A i \in 1..Len(t) : msg[21 + i] = t[i]
      /\ msg[22 + Len(t)] = SEP
      /\ msg[23 + Len(t)] = Printed(Bit(q.forwarded))
  BY <1>2, <1>5
<1>7. msg[22] = SEP
  <2>1. 1 \in 1..Len(t) /\ 21 + 1 = 22
    BY <1>4
  <2>2. QED
    BY <1>4, <1>6, <2>1
<1>8. Len(msg) >= 22
  BY <1>4, <1>6
<1>9. Starts(msg, q, m)
  BY <1>6, <1>7, <1>8 DEF Starts, c, Printable
<1>10. QED
  BY <1>6, <1>9 DEF msg

(* One token more.                                                         *)
LEMMA NextPart ==
    ASSUME NEW X, NEW s \in Seq(X), NEW x \in X, NEW u, u = s \o <<x>>
    PROVE  /\ u \in Seq(X) /\ Len(u) = Len(s) + 1
           /\ \A i \in 1..Len(s) : u[i] = s[i]
           /\ u[Len(s) + 1] = x
<1>1. u = Append(s, x)
  OBVIOUS
<1>2. QED
  BY <1>1, AppendProperties

(* The fields of TCP: the fragment bit, its place and the flags.           *)
TcpShape(q, t) ==
    /\ t[1] = SEP /\ t[2] = Printed(Bit(q.fragment)) /\ t[3] = SEP
    /\ q.fragment => /\ t[4] = Printed(q.seq) /\ t[5] = SEP
                     /\ Len(t) = IF q.flags = NUL THEN 5 ELSE 6
                     /\ q.flags # NUL => t[6] = q.flags
    /\ ~q.fragment => /\ t[4] = SEP
                      /\ Len(t) = IF q.flags = NUL THEN 4 ELSE 5
                      /\ q.flags # NUL => t[5] = q.flags

LEMMA TcpFields ==
    ASSUME NEW q, Printable(q), q.p = TCP
    PROVE  Fields(q, TransportFields(q)) /\ TcpShape(q, TransportFields(q))
<1> DEFINE a == <<SEP, Printed(Bit(q.fragment)), SEP>>
           b == a \o (IF q.fragment THEN <<Printed(q.seq)>> ELSE <<>>)
           c == b \o <<SEP>>
           t == c \o (IF q.flags = NUL THEN <<>> ELSE <<q.flags>>)
<1>1. TransportFields(q) = t
  BY DEF TransportFields
<1>2. /\ SEP \in Tokens /\ Printed(Bit(q.fragment)) \in Tokens
      /\ Printed(q.seq) \in Tokens /\ q.flags \in Tokens
  <2>1. q.seq \in Int /\ q.flags \in Octets /\ Bit(q.fragment) \in Int
    BY DEF Packets, Bit, Printable
  <2>2. QED
    BY <2>1 DEF Tokens
<1>3. a \in Seq(Tokens) /\ Len(a) = 3 /\ a[1] = SEP /\ a[2] = Printed(Bit(q.fragment)) /\ a[3] = SEP
  BY <1>2
<1>4. \A s \in Seq(Tokens) : s \o <<>> = s
  OBVIOUS
<1> HIDE DEF a
<1>5. /\ b \in Seq(Tokens) /\ b[1] = a[1] /\ b[2] = a[2] /\ b[3] = a[3]
      /\ q.fragment => Len(b) = 4 /\ b[4] = Printed(q.seq)
      /\ ~q.fragment => Len(b) = 3
  <2>1. CASE q.fragment
    <3>1. b = a \o <<Printed(q.seq)>>
      BY <2>1
    <3> HIDE DEF b
    <3>2. /\ b \in Seq(Tokens) /\ Len(b) = 3 + 1
          /\ \A i \in 1..3 : b[i] = a[i]
          /\ b[3 + 1] = Printed(q.seq)
      <4>1. a \in Seq(Tokens)
        BY <1>3
      <4>2. /\ b \in Seq(Tokens) /\ Len(b) = Len(a) + 1
            /\ \A i \in 1..Len(a) : b[i] = a[i]
            /\ b[Len(a) + 1] = Printed(q.seq)
        BY <1>2, <3>1, <4>1, NextPart
      <4>3. QED
        BY <1>3, <4>2
    <3>3. QED
      BY <2>1, <3>2
  <2>2. CASE ~q.fragment
    <3>1. b = a \o <<>>
      BY <2>2
    <3> HIDE DEF b
    <3>2. b = a
      BY <1>3, <1>4, <3>1
    <3>3. QED
      BY <1>3, <2>2, <3>2
  <2>3. QED
    BY <2>1, <2>2
<1> HIDE DEF b
<1>6. /\ c \in Seq(Tokens) /\ Len(c) = Len(b) + 1
      /\ \A i \in 1..Len(b) : c[i] = b[i]
      /\ c[Len(b) + 1] = SEP
  <2>1. Len(b) \in Nat /\ c = b \o <<SEP>>
    BY <1>5
  <2> HIDE DEF c
  <2>2. QED
    BY <1>2, <1>5, <2>1, NextPart
<1> HIDE DEF c
<1>7. Len(b) = 3 \/ Len(b) = 4
  BY <1>5
<1>8. c[1] = a[1] /\ c[2] = a[2] /\ c[3] = a[3]
  BY <1>5, <1>6, <1>7
<1>9. /\ q.fragment => Len(c) = 5 /\ c[4] = Printed(q.seq) /\ c[5] = SEP
      /\ ~q.fragment => Len(c) = 4 /\ c[4] = SEP
  BY <1>5, <1>6
<1>10. /\ t \in Seq(Tokens)
       /\ \A i \in 1..Len(c) : t[i] = c[i]
       /\ q.flags = NUL => Len(t) = Len(c)
       /\ q.flags # NUL => Len(t) = Len(c) + 1 /\ t[Len(c) + 1] = q.flags
  <2>1. CASE q.flags # NUL
    <3>1. t = c \o <<q.flags>>
      BY <2>1
    <3> HIDE DEF t
    <3>2. QED
      <4>1. Len(c) \in Nat
        BY <1>6
      <4>2. QED
        BY <1>2, <1>6, <2>1, <3>1, <4>1, NextPart
  <2>2. CASE q.flags = NUL
    <3>1. t = c \o <<>>
      BY <2>2
    <3> HIDE DEF t
    <3>2. t = c
      BY <1>4, <1>6, <3>1
    <3>3. QED
      BY <1>6, <2>2, <3>2
  <2>3. QED
    BY <2>1, <2>2
<1> HIDE DEF t
<1>11. Len(c) = 4 \/ Len(c) = 5
  BY <1>9
<1>12. t[1] = SEP /\ t[2] = Printed(Bit(q.fragment)) /\ t[3] = SEP
  BY <1>3, <1>8, <1>10, <1>11
<1>13. TcpShape(q, t)
  <2>1. CASE q.fragment
    <3>1. Len(c) = 5 /\ t[4] = Printed(q.seq) /\ t[5] = SEP
      <4>1. Len(c) = 5 /\ \A i \in 1..5 : t[i] = c[i]
        BY <1>9, <1>10, <2>1
      <4>2. t[4] = c[4] /\ t[5] = c[5]
        BY <4>1
      <4>3. QED
        BY <1>9, <2>1, <4>1, <4>2
    <3>2. QED
      BY <1>10, <1>12, <2>1, <3>1 DEF TcpShape
  <2>2. CASE ~q.fragment
    <3>1. Len(c) = 4 /\ t[4] = SEP
      BY <1>9, <1>10, <2>2
    <3>2. QED
      BY <1>10, <1>12, <2>2, <3>1 DEF TcpShape
  <2>3. QED
    BY <2>1, <2>2
<1>14. Len(t) >= 1
  <2>1. CASE Len(t) = Len(c)
    BY <1>11, <2>1
  <2>2. CASE Len(t) = Len(c) + 1
    BY <1>11, <2>2
  <2>3. QED
    BY <1>10, <2>1, <2>2
<1>15. QED
  BY <1>1, <1>10, <1>12, <1>13, <1>14 DEF Fields

(* The end of a text of TCP, after the separator at a before the flags.    *)
TcpEnd(msg, q, a) ==
    /\ a \in Nat /\ msg \in Seq(Tokens) /\ q.flags \in Octets
    /\ q.flags = NUL => /\ Len(msg) = a + 2 /\ msg[a + 1] = SEP
                        /\ msg[a + 2] = Printed(Bit(q.forwarded))
    /\ q.flags # NUL => /\ Len(msg) = a + 3 /\ msg[a + 1] = q.flags /\ msg[a + 2] = SEP
                        /\ msg[a + 3] = Printed(Bit(q.forwarded))

(* The parts of a text of TCP before its end.                              *)
LEMMA TcpMiddle ==
    ASSUME NEW q, Printable(q), q.p = TCP, NEW m \in Nat, NEW msg, msg = GetPacketMessage(q, m)
    PROVE  /\ Starts(msg, q, m)
           /\ Part(msg, 11) = Bit(q.fragment)
           /\ q.fragment => Part(msg, 12) = q.seq
           /\ \E a \in Nat : Separators(msg)[13] = a /\ TcpEnd(msg, q, a)
<1> DEFINE t == TransportFields(q)
           at == Separators(msg)
<1>1. Fields(q, t) /\ TcpShape(q, t)
  BY TcpFields
<1> HIDE DEF t
<1>2. /\ Starts(msg, q, m)
      /\ Len(msg) = 23 + Len(t)
      /\ \A i \in 1..Len(t) : msg[21 + i] = t[i]
      /\ msg[22 + Len(t)] = SEP
      /\ msg[23 + Len(t)] = Printed(Bit(q.forwarded))
  BY <1>1, TailTokens
<1>3. Len(t) \in {4, 5, 6} /\ q.fragment \in BOOLEAN /\ q.flags \in Octets
  BY <1>1 DEF TcpShape, Printable, Packets
<1>4. msg \in Seq(Tokens) /\ Len(msg) \in Nat /\ Len(msg) >= 27
  <2>1. msg \in Seq(Tokens)
    BY <1>2 DEF Starts
  <2>2. Len(msg) = 23 + Len(t)
    BY <1>2
  <2>3. Len(t) \in {4, 5, 6}
    BY <1>3
  <2>4. Len(msg) >= 27
    <3> DEFINE n == Len(t)
    <3>1. Len(msg) = 23 + n /\ n \in {4, 5, 6}
      BY <2>2, <2>3
    <3> HIDE DEF n
    <3>2. Len(msg) = 27 \/ Len(msg) = 28 \/ Len(msg) = 29
      BY <3>1
    <3> DEFINE k == Len(msg)
    <3>3. k = 27 \/ k = 28 \/ k = 29
      BY <3>2
    <3> HIDE DEF k
    <3>4. k >= 27
      BY <3>3
    <3>5. QED
      BY <3>4 DEF k
  <2>5. Len(msg) \in Nat
    BY <2>1
  <2>6. QED
    BY <2>1, <2>4, <2>5
<1>5. /\ msg[22] = SEP /\ msg[23] = Printed(Bit(q.fragment)) /\ msg[24] = SEP
      /\ msg[25] = t[4]
  <2>1. msg[21 + 1] = t[1] /\ msg[21 + 2] = t[2] /\ msg[21 + 3] = t[3] /\ msg[21 + 4] = t[4]
    BY <1>2, <1>3
  <2>2. QED
    BY <1>1, <2>1 DEF TcpShape
<1>6. at[0] = 0 /\ \A i \in 1..14 : at[i] = strchr(msg, at[i - 1])
  BY SeparatorsAre
<1>7. at[11] = 22
  <2>1. \A n \in 0..11 : at[n] = n + n
    BY <1>2, CommonRead
  <2> HIDE DEF at
  <2>2. QED
    BY <2>1
<1> HIDE DEF at
<1>8. at[12] = 24
  <2>1. at[12] = strchr(msg, 22)
    BY <1>6, <1>7
  <2>2. \A k \in 22 + 1 .. 24 - 1 : k = 23
    OBVIOUS
  <2>3. \A k \in 22 + 1 .. 24 - 1 : msg[k] # SEP
    BY <1>5, <2>2, TokensDiffer
  <2>4. 22 \in Nat /\ 24 \in 22 + 1 .. Len(msg)
    BY <1>4
  <2>5. strchr(msg, 22) = 24
    BY <1>4, <1>5, <2>3, <2>4, StrchrNext
  <2>6. QED
    BY <2>1, <2>5
<1>9. Part(msg, 11) = Bit(q.fragment)
  <2>1. get_emulator_packet_part(msg, 11) = SubSeq(msg, 23, 23)
    <3>1. at[11] + 1 = 23 /\ at[11 + 1] - 1 = 23
      BY <1>7, <1>8
    <3>2. QED
      BY <3>1 DEF get_emulator_packet_part, MAX_EMULATOR_MESSAGE_PARTS, at
  <2>2. 23 \in 1..Len(msg)
    BY <1>4
  <2>3. msg[23] = Printed(Bit(q.fragment)) /\ msg \in Seq(Tokens)
    BY <1>4, <1>5
  <2>4. atoi(SubSeq(msg, 23, 23)) = Bit(q.fragment)
    BY <2>2, <2>3, PrintedReads
  <2>5. QED
    BY <2>1, <2>4 DEF Part
<1>10. at[13] = strchr(msg, 24)
  BY <1>6, <1>8
<1>11. CASE q.fragment
  <2>1. msg[25] = Printed(q.seq) /\ msg[26] = SEP
    <3>1. msg[21 + 5] = t[5]
      BY <1>1, <1>2, <1>11 DEF TcpShape
    <3>2. QED
      BY <1>1, <1>5, <1>11, <3>1 DEF TcpShape
  <2>2. \A k \in 24 + 1 .. 26 - 1 : k = 25
    OBVIOUS
  <2>3. \A k \in 24 + 1 .. 26 - 1 : msg[k] # SEP
    BY <2>1, <2>2, TokensDiffer
  <2>4. 24 \in Nat /\ 26 \in 24 + 1 .. Len(msg)
    BY <1>4
  <2>5. strchr(msg, 24) = 26
    BY <1>4, <2>1, <2>3, <2>4, StrchrNext
  <2>6. Part(msg, 12) = q.seq
    <3>1. get_emulator_packet_part(msg, 12) = SubSeq(msg, 25, 25)
      <4>1. at[12] + 1 = 25 /\ at[12 + 1] - 1 = 25
        BY <1>8, <1>10, <2>5
      <4>2. QED
        BY <4>1 DEF get_emulator_packet_part, MAX_EMULATOR_MESSAGE_PARTS, at
    <3>2. 25 \in 1..Len(msg)
      BY <1>4
    <3>3. QED
      <4>1. atoi(SubSeq(msg, 25, 25)) = q.seq
        BY <1>4, <2>1, <3>2, PrintedReads
      <4>2. QED
        BY <3>1, <4>1 DEF Part
  <2>7. TcpEnd(msg, q, 26)
    <3>1. CASE q.flags = NUL
      <4>1. Len(t) = 5
        BY <1>1, <1>11, <3>1 DEF TcpShape
      <4>2. Len(msg) = 28 /\ msg[27] = SEP /\ msg[28] = Printed(Bit(q.forwarded))
        BY <1>2, <4>1
      <4>3. QED
        BY <1>3, <1>4, <3>1, <4>2 DEF TcpEnd
    <3>2. CASE q.flags # NUL
      <4>1. Len(t) = 6 /\ t[6] = q.flags
        BY <1>1, <1>11, <3>2 DEF TcpShape
      <4>2. Len(msg) = 29 /\ msg[28] = SEP /\ msg[29] = Printed(Bit(q.forwarded))
        BY <1>2, <4>1
      <4>3. msg[21 + 6] = q.flags
        BY <1>2, <4>1
      <4>4. QED
        BY <1>3, <1>4, <3>2, <4>2, <4>3 DEF TcpEnd
    <3>3. QED
      BY <3>1, <3>2
  <2>8. QED
    BY <1>2, <1>9, <1>10, <2>4, <2>5, <2>6, <2>7 DEF at
<1>12. CASE ~q.fragment
  <2>1. msg[25] = SEP
    BY <1>1, <1>5, <1>12 DEF TcpShape
  <2>2. \A k \in 24 + 1 .. 25 - 1 : msg[k] # SEP
    OBVIOUS
  <2>3. 24 \in Nat /\ 25 \in 24 + 1 .. Len(msg)
    BY <1>4
  <2>4. strchr(msg, 24) = 25
    BY <1>4, <2>1, <2>2, <2>3, StrchrNext
  <2>5. TcpEnd(msg, q, 25)
    <3>1. CASE q.flags = NUL
      <4>1. Len(t) = 4
        BY <1>1, <1>12, <3>1 DEF TcpShape
      <4>2. Len(msg) = 27 /\ msg[26] = SEP /\ msg[27] = Printed(Bit(q.forwarded))
        BY <1>2, <4>1
      <4>3. QED
        BY <1>3, <1>4, <3>1, <4>2 DEF TcpEnd
    <3>2. CASE q.flags # NUL
      <4>1. Len(t) = 5 /\ t[5] = q.flags
        BY <1>1, <1>12, <3>2 DEF TcpShape
      <4>2. Len(msg) = 28 /\ msg[27] = SEP /\ msg[28] = Printed(Bit(q.forwarded))
        BY <1>2, <4>1
      <4>3. msg[21 + 5] = q.flags
        BY <1>2, <4>1
      <4>4. QED
        BY <1>3, <1>4, <3>2, <4>2, <4>3 DEF TcpEnd
    <3>3. QED
      BY <3>1, <3>2
  <2>6. 25 \in Nat
    OBVIOUS
  <2>7. QED
    BY <1>2, <1>9, <1>10, <1>12, <2>4, <2>5, <2>6 DEF at
<1>13. QED
  BY <1>3, <1>11, <1>12

(* The flags and the mark of a text of TCP.                                *)
LEMMA TcpEndRead ==
    ASSUME NEW q, NEW msg, NEW a, Separators(msg)[13] = a, TcpEnd(msg, q, a)
    PROVE  /\ Parses(msg)
           /\ FlagByte(get_emulator_packet_part(msg, 13)) \in Octets
           /\ q.flags # SEP =>
                /\ FlagByte(get_emulator_packet_part(msg, 13)) = q.flags
                /\ Part(msg, 14) = Bit(q.forwarded)
<1> DEFINE at == Separators(msg)
           part == get_emulator_packet_part(msg, 13)
<1>1. at[0] = 0 /\ \A i \in 1..14 : at[i] = strchr(msg, at[i - 1])
  BY SeparatorsAre
<1>2. at[14] = strchr(msg, a)
  <2> HIDE DEF at
  <2>1. at[13] = a
    BY DEF at
  <2>2. QED
    BY <1>1, <2>1
<1>3. a \in Nat /\ msg \in Seq(Tokens) /\ Len(msg) \in Nat /\ q.flags \in Octets
  BY DEF TcpEnd
<1>4. part = SubSeq(msg, a + 1, at[14] - 1)
  BY DEF get_emulator_packet_part, MAX_EMULATOR_MESSAGE_PARTS
<1>5. get_emulator_packet_part(msg, 14) = SubSeq(msg, at[14] + 1, Len(msg))
  BY DEF get_emulator_packet_part, MAX_EMULATOR_MESSAGE_PARTS
<1>6. Parses(msg) <=> at[14] <= Len(msg)
  BY DEF Parses, MAX_EMULATOR_MESSAGE_PARTS
<1> HIDE DEF at, part
<1>7. NUL \in Octets
  <2>1. \A i \in 1..8 : NUL[i] = 0
    <3>1. \A i \in 1..8 : i = 1 \/ i = 2 \/ i = 3 \/ i = 4 \/ i = 5 \/ i = 6 \/ i = 7 \/ i = 8
      OBVIOUS
    <3>2. QED
      BY <3>1 DEF NUL
  <2>2. NUL = [i \in 1..8 |-> NUL[i]]
    BY DEF NUL
  <2>3. QED
    BY <2>1, <2>2 DEF Octets
<1>8. CASE q.flags = NUL \/ q.flags = SEP
  <2>1. msg[a + 1] = SEP /\ a + 1 \in a + 1 .. Len(msg)
    BY <1>3, <1>8, TokensDiffer DEF TcpEnd
  <2>2. \A k \in a + 1 .. (a + 1) - 1 : msg[k] # SEP
    BY <1>3
  <2>3. at[14] = a + 1
    BY <1>2, <1>3, <2>1, <2>2, StrchrNext
  <2>4. part = SubSeq(msg, a + 1, a)
    BY <1>3, <1>4, <2>3
  <2>5. part = <<>>
    BY <1>3, <2>4
  <2>6. FlagByte(part) = NUL
    BY <2>5 DEF FlagByte
  <2>7. Parses(msg)
    BY <1>3, <1>6, <2>1, <2>3
  <2>8. ASSUME q.flags = NUL PROVE Part(msg, 14) = Bit(q.forwarded)
    <3>1. Len(msg) = a + 2 /\ msg[a + 2] = Printed(Bit(q.forwarded)) /\ at[14] + 1 = a + 2
      BY <1>3, <2>3, <2>8 DEF TcpEnd
    <3>2. get_emulator_packet_part(msg, 14) = SubSeq(msg, a + 2, a + 2)
      BY <1>5, <3>1
    <3>3. a + 2 \in 1..Len(msg)
      BY <1>3, <3>1
    <3>4. QED
      BY <1>3, <3>1, <3>2, <3>3, PrintedReads DEF Part
  <2>9. QED
    BY <1>7, <1>8, <2>6, <2>7, <2>8 DEF part
<1>9. CASE q.flags # NUL /\ q.flags # SEP
  <2>1. /\ Len(msg) = a + 3 /\ msg[a + 1] = q.flags /\ msg[a + 2] = SEP
        /\ msg[a + 3] = Printed(Bit(q.forwarded))
    BY <1>9 DEF TcpEnd
  <2>2. \A k \in a + 1 .. (a + 2) - 1 : k = a + 1
    BY <1>3
  <2>3. \A k \in a + 1 .. (a + 2) - 1 : msg[k] # SEP
    BY <1>9, <2>1, <2>2
  <2>4. a + 2 \in a + 1 .. Len(msg)
    BY <1>3, <2>1
  <2>5. at[14] = a + 2
    BY <1>2, <1>3, <2>1, <2>3, <2>4, StrchrNext
  <2>6. at[14] - 1 = a + 1 /\ at[14] + 1 = a + 3
    BY <1>3, <2>5
  <2>7. part = SubSeq(msg, a + 1, a + 1) /\ a + 1 \in 1..Len(msg)
    <3>1. part = SubSeq(msg, a + 1, a + 1)
      BY <1>4, <2>6
    <3>2. a + 1 \in 1..Len(msg)
      BY <1>3, <2>4
    <3>3. QED
      BY <3>1, <3>2
  <2>8. part \in Seq(Tokens) /\ Len(part) = 1 /\ part[1] = msg[a + 1]
    BY <1>3, <2>7, SubSeqProperties
  <2>9. FlagByte(part) = q.flags
    <3>1. Len(part) = 1
      BY <2>8
    <3>2. part # <<>>
      BY <3>1
    <3>3. QED
      BY <2>1, <2>8, <3>2 DEF FlagByte
  <2>10. Part(msg, 14) = Bit(q.forwarded)
    <3>1. get_emulator_packet_part(msg, 14) = SubSeq(msg, a + 3, a + 3)
      BY <1>5, <2>1, <2>6
    <3>2. a + 3 \in 1..Len(msg)
      BY <1>3, <2>1
    <3>3. QED
      BY <1>3, <2>1, <3>1, <3>2, PrintedReads DEF Part
  <2>11. Parses(msg)
    BY <1>3, <1>6, <2>1, <2>5
  <2>12. QED
    BY <1>3, <2>9, <2>10, <2>11 DEF part
<1>10. QED
  BY <1>8, <1>9

(* A text of UDP or ICMP parses.                                           *)
LEMMA OtherRead ==
    ASSUME NEW q, Printable(q), q.p # TCP, NEW m \in Nat, NEW msg, msg = GetPacketMessage(q, m)
    PROVE  Starts(msg, q, m) /\ Parses(msg)
<1> DEFINE t == <<SEP, SEP, SEP>>
           at == Separators(msg)
<1>1. t = TransportFields(q)
  BY DEF TransportFields
<1>2. t \in Seq(Tokens) /\ Len(t) = 3 /\ t[1] = SEP /\ t[2] = SEP /\ t[3] = SEP
  BY DEF Tokens
<1> HIDE DEF t
<1>3. Fields(q, t)
  BY <1>1, <1>2 DEF Fields
<1>4. /\ Starts(msg, q, m)
      /\ Len(msg) = 23 + Len(t)
      /\ \A i \in 1..Len(t) : msg[21 + i] = t[i]
      /\ msg[22 + Len(t)] = SEP
  BY <1>3, TailTokens
<1>5. /\ Len(msg) = 26 /\ msg[21 + 2] = SEP /\ msg[21 + 3] = SEP /\ msg[25] = SEP
  BY <1>2, <1>4
<1>6. at[0] = 0 /\ \A i \in 1..14 : at[i] = strchr(msg, at[i - 1])
  BY SeparatorsAre
<1>7. at[11] = 22
  <2>1. \A n \in 0..11 : at[n] = n + n
    BY <1>4, CommonRead
  <2> HIDE DEF at
  <2>2. QED
    BY <2>1
<1> HIDE DEF at
<1>8. ASSUME NEW i \in 22..24, msg[i + 1] = SEP PROVE strchr(msg, i) = i + 1
  <2>1. i \in Nat /\ i + 1 \in i + 1 .. Len(msg) /\ Len(msg) \in Nat
    BY <1>5
  <2>2. \A k \in i + 1 .. (i + 1) - 1 : msg[k] # SEP
    OBVIOUS
  <2>3. QED
    BY <1>8, <2>1, <2>2, StrchrNext
<1>9. strchr(msg, 22) = 23 /\ strchr(msg, 23) = 24 /\ strchr(msg, 24) = 25
  BY <1>5, <1>8
<1>10. at[12] = 23 /\ at[13] = 24 /\ at[14] = 25
  BY <1>6, <1>7, <1>9
<1>11. Parses(msg)
  <2>1. at[14] <= Len(msg)
    BY <1>5, <1>10
  <2>2. QED
    BY <2>1 DEF Parses, MAX_EMULATOR_MESSAGE_PARTS, at
<1>12. QED
  BY <1>4, <1>11

-----------------------------------------------------------------------------
(* From the frame to the record                                            *)

(* Swapping the bytes of a number twice gives it back.                     *)
LEMMA SwapTwice ==
    ASSUME NEW n \in Under(65536)
    PROVE  Swap16(n) \in Under(65536) /\ Swap16(Swap16(n)) = n
<1> DEFINE a == n \div 256
           b == n % 256
<1>1. n \in Nat /\ n < 65536
  BY DEF Under
<1>2. a \in Nat /\ a < 256 /\ b \in Nat /\ b < 256 /\ n = a * 256 + b
  BY <1>1
<1>3. Swap16(n) = b * 256 + (a % 256)
  BY DEF Swap16
<1> HIDE DEF a, b
<1>4. a % 256 = a /\ b % 256 = b
  BY <1>2
<1>5. (b * 256 + a) % 256 = a /\ (b * 256 + a) \div 256 = b
  BY <1>2
<1>6. Swap16(b * 256 + a) = a * 256 + b
  BY <1>4, <1>5 DEF Swap16
<1>7. b * 256 + a \in Nat /\ b * 256 + a < 65536
  BY <1>2
<1>8. Swap16(n) = b * 256 + a
  BY <1>3, <1>4
<1>9. Swap16(n) \in Under(65536)
  BY <1>7, <1>8 DEF Under
<1>10. QED
  BY <1>2, <1>6, <1>8, <1>9

(* The packet that NSP makes of a frame, once it is or is not reported.    *)
PacketOf(f, i, fwd) == [Ipv4ToUpLevel(f, i) EXCEPT !.forwarded = fwd]

Transports == {TCP, UDP, ICMP}

(* What the packet of a frame has.                                         *)
LEMMA PacketIs ==
    ASSUME NEW f \in Frames, NEW i \in Nat, NEW fwd \in BOOLEAN,
           NEW q, q = PacketOf(f, i, fwd)
    PROVE  /\ Printable(q) /\ q.id = i /\ q.forwarded = fwd
           /\ q.src = f.src /\ q.dst = f.dst /\ q.len = f.len /\ q.p = f.p
           /\ q.flags = f.flags
           /\ f.off # 0 => q.fragment /\ q.seq # 0
           /\ f.off = 0 => q.seq = 0
           /\ q.sport = (IF f.p \in {TCP, UDP} THEN Swap16(f.sport) ELSE Unset)
           /\ q.dport = (IF f.p \in {TCP, UDP} THEN Swap16(f.dport) ELSE Unset)
<1>1. /\ f.src \in Nat /\ f.dst \in Nat /\ f.len \in Nat /\ f.p \in Nat /\ f.flags \in Octets
      /\ f.off \in Nat /\ f.mf \in BOOLEAN /\ f.sport \in Under(65536) /\ f.dport \in Under(65536)
      /\ AsOf[f.src] \in Nat /\ AsOf[f.dst] \in Nat
  BY FramesAssumption DEF CapturedFrames, Under
<1> DEFINE sp == TransportToUpLevel(f).sport
           dp == TransportToUpLevel(f).dport
           sq == IF f.off # 0 THEN f.off + (IF f.mf THEN 8192 ELSE 0) ELSE 0
           fr == f.off # 0 \/ f.mf
<1>2. /\ sp = (IF f.p \in {TCP, UDP} THEN Swap16(f.sport) ELSE Unset)
      /\ dp = (IF f.p \in {TCP, UDP} THEN Swap16(f.dport) ELSE Unset)
  BY DEF TransportToUpLevel
<1>3. sp \in Int /\ dp \in Int
  <2>1. Swap16(f.sport) \in Int /\ Swap16(f.dport) \in Int
    BY <1>1, SwapTwice DEF Under
  <2>2. QED
    BY <1>2, <2>1 DEF Unset
<1>4. /\ sq \in Nat /\ fr \in BOOLEAN
      /\ f.off # 0 => fr /\ sq # 0
      /\ f.off = 0 => sq = 0
  BY <1>1
<1>5. q = [id |-> i, sec |-> 0, usec |-> i, forwarded |-> fwd,
           src |-> f.src, dst |-> f.dst, len |-> f.len, p |-> f.p, flags |-> f.flags,
           fragment |-> fr, seq |-> sq, sport |-> sp, dport |-> dp]
  BY DEF PacketOf, Ipv4ToUpLevel
<1> HIDE DEF sp, dp, sq, fr
<1>6. q \in Packets
  BY <1>1, <1>3, <1>4, <1>5 DEF Packets
<1>7. /\ q.id = i /\ q.forwarded = fwd
      /\ q.src = f.src /\ q.dst = f.dst /\ q.len = f.len /\ q.p = f.p
      /\ q.flags = f.flags /\ q.fragment = fr /\ q.seq = sq /\ q.sport = sp /\ q.dport = dp
  BY <1>5
<1>8. Printable(q)
  BY <1>1, <1>6, <1>7 DEF Printable
<1>9. QED
  BY <1>2, <1>4, <1>7, <1>8

(* Pairs of the two sides of a flow.                                       *)
LEMMA SidesType ==
    ASSUME NEW S, NEW x \in S, NEW y \in S, NEW d
    PROVE  Sides(d, x, y) \in S \X S
  BY DEF Sides

Records ==
    [addr : Nat \X Nat, protocol : Nat, port : Nat \X Nat, tcp_flags : Octets \X Octets,
     octets : Nat \X Nat, packets : Nat \X Nat, as_src : Nat \X Nat, as_dst : Nat \X Nat]

(* The side of softflowd's records that a frame was sent from.             *)
SideOf(f) == Ndx(f.src, f.dst)

(* What makes a TCP packet part of a flow, in the byte order of the text.  *)
EmulatedIdentity(f) ==
    <<Sides(SideOf(f), f.src, f.dst), f.p,
      IF f.off # 0 THEN <<0, 0>> ELSE Sides(SideOf(f), f.sport, f.dport)>>

(* The flags of a frame, where its transport header is looked at.          *)
Shown(f) == IF f.off = 0 THEN f.flags ELSE NUL

(* The record that the text of a TCP frame is read as.                     *)
RecordOf(rec, f) ==
    /\ Identity(rec) = EmulatedIdentity(f)
    /\ rec.octets = Sides(SideOf(f), f.len, 0)
    /\ rec.packets = Sides(SideOf(f), 1, 0)
    /\ rec.as_src = Sides(SideOf(f), AsOf[f.src], 0)
    /\ rec.as_dst = Sides(SideOf(f), 0, AsOf[f.dst])
    /\ f.flags # SEP =>
         rec.tcp_flags = Sides(SideOf(f), Shown(f), NUL)

LEMMA NulOctet == NUL \in Octets /\ \A b \in 1..8 : NUL[b] = 0
<1>1. \A i \in 1..8 : NUL[i] = 0
  <2>1. \A i \in 1..8 : i = 1 \/ i = 2 \/ i = 3 \/ i = 4 \/ i = 5 \/ i = 6 \/ i = 7 \/ i = 8
    OBVIOUS
  <2>2. QED
    BY <2>1 DEF NUL
<1>2. NUL = [i \in 1..8 |-> NUL[i]]
  BY DEF NUL
<1>3. QED
  BY <1>1, <1>2 DEF Octets

(* Every text parses and is read as a record; that of a TCP frame as what  *)
(* the frame said, and its mark too unless the flags are a separator.      *)
LEMMA TextRead ==
    ASSUME NEW f \in Frames, f.p \in Transports, NEW i \in Nat, NEW fwd \in BOOLEAN,
           NEW m \in Nat, NEW msg, msg = GetPacketMessage(PacketOf(f, i, fwd), m)
    PROVE  /\ Parses(msg) /\ msg \in Seq(Tokens)
           /\ Ndx(Part(msg, 1), Part(msg, 2)) = SideOf(f)
           /\ f.p = TCP /\ f.flags # SEP => Part(msg, 14) = Bit(fwd)
           /\ \A rec \in emulator_ipv4_to_flowrec(msg) :
                /\ rec \in Records /\ rec.protocol = f.p
                /\ f.p = TCP => RecordOf(rec, f)
<1> DEFINE q == PacketOf(f, i, fwd)
<1>1. /\ Printable(q) /\ q.forwarded = fwd
      /\ q.src = f.src /\ q.dst = f.dst /\ q.len = f.len /\ q.p = f.p
      /\ q.flags = f.flags
      /\ f.off # 0 => q.fragment /\ q.seq # 0
      /\ f.off = 0 => q.seq = 0
      /\ q.sport = (IF f.p \in {TCP, UDP} THEN Swap16(f.sport) ELSE Unset)
      /\ q.dport = (IF f.p \in {TCP, UDP} THEN Swap16(f.dport) ELSE Unset)
  BY PacketIs
<1>2. msg = GetPacketMessage(q, m)
  OBVIOUS
<1>3. /\ f.src \in Nat /\ f.dst \in Nat /\ f.len \in Nat /\ f.p \in Nat /\ f.flags \in Octets
      /\ f.off \in Nat /\ f.sport \in Under(65536) /\ f.dport \in Under(65536)
      /\ AsOf[f.src] \in Nat /\ AsOf[f.dst] \in Nat
  BY FramesAssumption DEF CapturedFrames, Under
<1> HIDE DEF q
<1>4. Starts(msg, q, m) /\ Parses(msg)
  <2>1. CASE f.p = TCP
    <3>1. PICK a \in Nat : Separators(msg)[13] = a /\ TcpEnd(msg, q, a)
      BY <1>1, <1>2, <2>1, TcpMiddle
    <3>2. QED
      BY <1>1, <1>2, <2>1, <3>1, TcpMiddle, TcpEndRead
  <2>2. CASE f.p # TCP
    BY <1>1, <1>2, <2>2, OtherRead
  <2>3. QED
    BY <2>1, <2>2
<1>5. /\ Part(msg, 1) = f.src /\ Part(msg, 2) = f.dst /\ Part(msg, 3) = f.len
      /\ Part(msg, 6) = (IF q.sport = Unset THEN 0 ELSE q.sport)
      /\ Part(msg, 7) = (IF q.dport = Unset THEN 0 ELSE q.dport)
      /\ Part(msg, 8) = AsOf[f.src] /\ Part(msg, 9) = AsOf[f.dst]
      /\ Part(msg, 10) = f.p
  BY <1>1, <1>4, CommonRead
<1>6. /\ Swap16(f.sport) \in Under(65536) /\ Swap16(Swap16(f.sport)) = f.sport
      /\ Swap16(f.dport) \in Under(65536) /\ Swap16(Swap16(f.dport)) = f.dport
  BY <1>3, SwapTwice
<1>7. Swap16(0) = 0
  BY DEF Swap16
<1> DEFINE d == SideOf(f)
           ports == Sides(d, Swap16(Part(msg, 6)), Swap16(Part(msg, 7)))
           later == Part(msg, 11) = 1 /\ Part(msg, 12) # 0
<1>8. Ndx(Part(msg, 1), Part(msg, 2)) = d
  BY <1>5 DEF SideOf
<1>9. ports \in Nat \X Nat /\ (f.p = TCP => ports = Sides(d, f.sport, f.dport))
  <2>1. CASE f.p \in {TCP, UDP}
    <3>1. Part(msg, 6) = Swap16(f.sport) /\ Part(msg, 7) = Swap16(f.dport)
      <4>1. Swap16(f.sport) # Unset /\ Swap16(f.dport) # Unset
        BY <1>6 DEF Unset, Under
      <4>2. q.sport = Swap16(f.sport) /\ q.dport = Swap16(f.dport)
        BY <1>1, <2>1
      <4>3. QED
        BY <1>5, <4>1, <4>2
    <3>2. ports = Sides(d, f.sport, f.dport)
      BY <1>6, <3>1
    <3> HIDE DEF ports, d
    <3>3. f.sport \in Nat /\ f.dport \in Nat
      BY <1>3 DEF Under
    <3>4. QED
      BY <3>2, <3>3, SidesType
  <2>2. CASE f.p \notin {TCP, UDP}
    <3>1. Part(msg, 6) = 0 /\ Part(msg, 7) = 0
      BY <1>1, <1>5, <2>2
    <3>2. ports = Sides(d, 0, 0)
      BY <1>7, <3>1
    <3> HIDE DEF ports, d
    <3>3. QED
      BY <2>2, <3>2, SidesType
  <2>3. QED
    BY <2>1, <2>2
<1>10. f.p = TCP => /\ later <=> f.off # 0
                    /\ FlagByte(get_emulator_packet_part(msg, 13)) \in Octets
                    /\ f.flags # SEP =>
                         /\ FlagByte(get_emulator_packet_part(msg, 13)) = f.flags
                         /\ Part(msg, 14) = Bit(fwd)
  <2>1. SUFFICES ASSUME f.p = TCP
                 PROVE  /\ later <=> f.off # 0
                        /\ FlagByte(get_emulator_packet_part(msg, 13)) \in Octets
                        /\ f.flags # SEP =>
                             /\ FlagByte(get_emulator_packet_part(msg, 13)) = f.flags
                             /\ Part(msg, 14) = Bit(fwd)
    OBVIOUS
  <2>2. /\ Part(msg, 11) = Bit(q.fragment)
        /\ q.fragment => Part(msg, 12) = q.seq
        /\ \E a \in Nat : Separators(msg)[13] = a /\ TcpEnd(msg, q, a)
    BY <1>1, <1>2, <2>1, TcpMiddle
  <2>3. PICK a \in Nat : Separators(msg)[13] = a /\ TcpEnd(msg, q, a)
    BY <2>2
  <2>4. /\ FlagByte(get_emulator_packet_part(msg, 13)) \in Octets
        /\ q.flags # SEP =>
             /\ FlagByte(get_emulator_packet_part(msg, 13)) = q.flags
             /\ Part(msg, 14) = Bit(q.forwarded)
    BY <2>3, TcpEndRead
  <2>5. later <=> f.off # 0
    BY <1>1, <2>2 DEF Bit
  <2>6. QED
    BY <1>1, <2>4, <2>5
<1> HIDE DEF ports, d, later
<1>11. \A pp \in Ports(msg, d) : /\ pp \in Nat \X Nat
                                 /\ f.p = TCP => pp = IF f.off # 0 THEN <<0, 0>>
                                                      ELSE Sides(d, f.sport, f.dport)
  <2>1. CASE f.p = TCP
    <3>1. Ports(msg, d) = {IF later THEN <<0, 0>> ELSE ports}
      BY <1>5, <2>1 DEF Ports, ports, later, TCP, UDP, ICMP
    <3>2. QED
      BY <1>9, <1>10, <2>1, <3>1
  <2>2. CASE f.p = UDP
    <3>1. Ports(msg, d) = {<<0, 0>>, ports}
      BY <1>5, <2>2 DEF Ports, ports, TCP, UDP, ICMP
    <3>2. f.p # TCP
      BY <2>2 DEF TCP, UDP
    <3>3. QED
      BY <1>9, <3>1, <3>2
  <2>3. CASE f.p = ICMP
    <3>1. Ports(msg, d) = {<<0, 0>>} \cup {Sides(d, 0, g) : g \in Garbage}
      BY <1>5, <2>3 DEF Ports, TCP, UDP, ICMP
    <3>2. f.p # TCP
      BY <2>3 DEF TCP, ICMP
    <3>3. \A g \in Garbage : Sides(d, 0, g) \in Nat \X Nat
      <4>1. \A g \in Garbage : g \in Nat
        BY GarbageAssumption DEF Under
      <4>2. QED
        BY <4>1, SidesType
    <3>4. QED
      BY <3>1, <3>2, <3>3
  <2>4. QED
    BY <2>1, <2>2, <2>3 DEF Transports
<1>12. /\ Flags(msg) \in Octets
       /\ f.p = TCP /\ f.flags # SEP => Flags(msg) = IF f.off = 0 THEN f.flags ELSE NUL
  <2>1. CASE f.p = TCP
    <3>1. Flags(msg) = IF ~later THEN FlagByte(get_emulator_packet_part(msg, 13)) ELSE NUL
      BY <1>5, <2>1 DEF Flags, later
    <3>2. QED
      BY <1>10, <2>1, <3>1, NulOctet
  <2>2. CASE f.p # TCP
    <3>1. Flags(msg) = NUL
      BY <1>5, <2>2 DEF Flags
    <3>2. QED
      BY <2>2, <3>1, NulOctet
  <2>3. QED
    BY <2>1, <2>2
<1>13. ASSUME NEW rec \in emulator_ipv4_to_flowrec(msg)
       PROVE  /\ rec \in Records /\ rec.protocol = f.p
              /\ f.p = TCP => RecordOf(rec, f)
  <2>1. PICK pp \in Ports(msg, d) :
          rec = [addr |-> Sides(d, f.src, f.dst), protocol |-> f.p, port |-> pp,
                 tcp_flags |-> Sides(d, Flags(msg), NUL),
                 octets |-> Sides(d, f.len, 0), packets |-> Sides(d, 1, 0),
                 as_src |-> Sides(d, AsOf[f.src], 0), as_dst |-> Sides(d, 0, AsOf[f.dst])]
    BY <1>5, <1>8 DEF emulator_ipv4_to_flowrec, AsDst
  <2>2. /\ Sides(d, f.src, f.dst) \in Nat \X Nat /\ Sides(d, f.len, 0) \in Nat \X Nat
        /\ Sides(d, 1, 0) \in Nat \X Nat /\ Sides(d, AsOf[f.src], 0) \in Nat \X Nat
        /\ Sides(d, 0, AsOf[f.dst]) \in Nat \X Nat
    <3>1. \A x, y \in Nat : Sides(d, x, y) \in Nat \X Nat
      BY SidesType
    <3>2. /\ f.src \in Nat /\ f.dst \in Nat /\ f.len \in Nat /\ AsOf[f.src] \in Nat
          /\ AsOf[f.dst] \in Nat
      BY <1>3
    <3>3. 0 \in Nat /\ 1 \in Nat
      OBVIOUS
    <3>4. QED
      BY <3>1, <3>2, <3>3, Zenon
  <2>3. Sides(d, Flags(msg), NUL) \in Octets \X Octets
    BY <1>12, NulOctet, SidesType
  <2>4. rec \in Records
    BY <1>3, <1>11, <2>1, <2>2, <2>3 DEF Records
  <2>5. /\ rec.addr = Sides(d, f.src, f.dst) /\ rec.protocol = f.p /\ rec.port = pp
        /\ rec.tcp_flags = Sides(d, Flags(msg), NUL)
        /\ rec.octets = Sides(d, f.len, 0) /\ rec.packets = Sides(d, 1, 0)
        /\ rec.as_src = Sides(d, AsOf[f.src], 0) /\ rec.as_dst = Sides(d, 0, AsOf[f.dst])
    BY <2>1
  <2>6. ASSUME f.p = TCP PROVE RecordOf(rec, f)
    <3>1. pp = IF f.off # 0 THEN <<0, 0>> ELSE Sides(d, f.sport, f.dport)
      BY <1>11, <2>6
    <3>2. Identity(rec) = EmulatedIdentity(f)
      BY <2>5, <3>1 DEF Identity, EmulatedIdentity, d
    <3>3. f.flags # SEP =>
            rec.tcp_flags = Sides(d, Shown(f), NUL)
      BY <1>12, <2>5, <2>6 DEF Shown
    <3>4. QED
      BY <2>5, <3>2, <3>3 DEF RecordOf, d
  <2>7. QED
    BY <2>4, <2>5, <2>6
<1>14. msg \in Seq(Tokens)
  BY <1>4 DEF Starts
<1>15. QED
  BY <1>4, <1>8, <1>10, <1>13, <1>14 DEF d

-----------------------------------------------------------------------------
(* What a flow has counted, p being the frames played                      *)

FlowRecs ==
    [addr : Nat \X Nat, protocol : Nat, port : Nat \X Nat, tcp_flags : Octets \X Octets,
     octets : Nat \X Nat, packets : Nat \X Nat, as_src : Nat \X Nat, as_dst : Nat \X Nat,
     ids : Seq(Nat)]

CountedFrom(ids, p, d) == {i \in Range(ids) : SideOf(p[i]) = d}

LengthOf(I, p) == Total([i \in I |-> p[i].len])

BitsOf(I, p) ==
    [b \in 1..8 |-> IF \E i \in I : p[i].off = 0 /\ p[i].flags[b] = 1 THEN 1 ELSE 0]

NoHash(x, p) == \A i \in Range(x.ids) : p[i].flags # SEP

Counts(x, p, d) ==
    /\ x.packets[d] = Cardinality(CountedFrom(x.ids, p, d))
    /\ x.octets[d] = LengthOf(CountedFrom(x.ids, p, d), p)
    /\ x.tcp_flags[d] = BitsOf(CountedFrom(x.ids, p, d), p)

AsRight(x, d) ==
    /\ x.as_src[d] \in {0, AsOf[x.addr[d]]}
    /\ x.as_dst[d] \in {0, AsOf[x.addr[d]]}

FlowGood(x, p) ==
    /\ x \in FlowRecs
    /\ \A i \in Range(x.ids) : i \in 1..Len(p)
    /\ x.protocol = TCP =>
         /\ \A i \in Range(x.ids) : EmulatedIdentity(p[i]) = Identity(x)
         /\ NoHash(x, p) => IsInjective(x.ids) /\ \A d \in {1, 2} : Counts(x, p, d)
         /\ \A d \in {1, 2} : AsRight(x, d)

(* The pair of two sides, side by side.                                    *)
LEMMA SidesAt ==
    ASSUME NEW n \in {1, 2}, NEW d \in {1, 2}, NEW x, NEW y
    PROVE  Sides(n, x, y)[d] = IF d = n THEN x ELSE y
  BY DEF Sides

LEMMA SideIs == ASSUME NEW f PROVE SideOf(f) \in {1, 2}
  BY DEF SideOf, Ndx

(* The packets a sequence holds when one more is counted.                  *)
LEMMA RangeGrows ==
    ASSUME NEW ids \in Seq(Nat), NEW i \in Nat
    PROVE  /\ Range(Append(ids, i)) = Range(ids) \cup {i}
           /\ Range(<<i>>) = {i}
           /\ Append(ids, i) \in Seq(Nat) /\ <<i>> \in Seq(Nat)
           /\ IsInjective(<<i>>)
           /\ IsInjective(ids) /\ i \notin Range(ids) => IsInjective(Append(ids, i))
<1> DEFINE a == Append(ids, i)
<1>1. /\ a \in Seq(Nat) /\ Len(a) = Len(ids) + 1 /\ a[Len(a)] = i
      /\ \A k \in 1..Len(ids) : a[k] = ids[k]
      /\ DOMAIN a = 1..Len(a) /\ DOMAIN ids = 1..Len(ids) /\ Len(ids) \in Nat
  OBVIOUS
<1>2. \A k \in 1..Len(a) : k \in 1..Len(ids) \/ k = Len(a)
  BY <1>1
<1> HIDE DEF a
<1>3. Range(a) = Range(ids) \cup {i}
  BY <1>1, <1>2 DEF Range
<1>4. Range(<<i>>) = {i} /\ <<i>> \in Seq(Nat) /\ IsInjective(<<i>>)
  BY DEF Range, IsInjective
<1>5. ASSUME IsInjective(ids), i \notin Range(ids) PROVE IsInjective(a)
  <2>1. \A k \in 1..Len(ids) : ids[k] # i
    BY <1>1, <1>5 DEF Range
  <2>2. \A k, l \in 1..Len(ids) : ids[k] = ids[l] => k = l
    BY <1>1, <1>5 DEF IsInjective
  <2>3. \A k, l \in 1..Len(a) : a[k] = a[l] => k = l
    BY <1>1, <1>2, <2>1, <2>2
  <2>4. QED
    BY <1>1, <2>3 DEF IsInjective
<1>6. QED
  BY <1>1, <1>3, <1>4, <1>5 DEF a

(* The frames played, as what is counted needs them.                       *)
LEMMA PlayedHas ==
    ASSUME NEW p \in Seq(Frames)
    PROVE  /\ Len(p) \in Nat
           /\ \A i \in 1..Len(p) : p[i] \in Frames /\ p[i].len \in Nat /\ p[i].flags \in Octets
<1>1. Len(p) \in Nat /\ \A i \in 1..Len(p) : p[i] \in Frames
  OBVIOUS
<1>2. \A f \in Frames : f.len \in Nat /\ f.flags \in Octets
  BY FramesAssumption DEF CapturedFrames, Under
<1>3. QED
  BY <1>1, <1>2

(* What the frames played say is counted of one more packet, i.            *)
LEMMA CountsGrow ==
    ASSUME NEW p \in Seq(Frames), NEW I, I \subseteq 1..Len(p),
           NEW i \in 1..Len(p), i \notin I
    PROVE  /\ Cardinality(I) \in Nat /\ Cardinality(I \cup {i}) = Cardinality(I) + 1
           /\ LengthOf(I, p) \in Nat /\ LengthOf(I \cup {i}, p) = LengthOf(I, p) + p[i].len
           /\ BitsOf(I \cup {i}, p) =
                OrBits(BitsOf(I, p), Shown(p[i]))
<1> DEFINE n == Len(p)
<1>0. n \in Nat /\ \A k \in 1..n : p[k].len \in Nat /\ p[k].flags \in Octets
  BY PlayedHas
<1>1. IsFiniteSet(1..n)
  BY <1>0, FS_Interval
<1>2. IsFiniteSet(I)
  BY <1>1, FS_Subset
<1>3. /\ Cardinality(I) \in Nat /\ Cardinality(I \cup {i}) = Cardinality(I) + 1
      /\ IsFiniteSet(I \cup {i})
  BY <1>2, FS_CardinalityType, FS_AddElement
<1> DEFINE J == I \cup {i}
           f == [k \in J |-> p[k].len]
<1>4. f \in [J -> Int] /\ [k \in I |-> p[k].len] \in [I -> Nat] /\ IsFiniteSet(J)
  <2>1. \A k \in J : p[k].len \in Int
    <3>1. \A k \in J : k \in 1..n
      OBVIOUS
    <3> HIDE DEF J
    <3>2. QED
      BY <1>0, <3>1
  <2>2. \A k \in I : p[k].len \in Nat
    BY <1>0
  <2>3. IsFiniteSet(J)
    BY <1>3
  <2>4. QED
    BY <2>1, <2>2, <2>3
<1>5. [k \in J \ {i} |-> f[k]] = [k \in I |-> p[k].len]
  OBVIOUS
<1>6. f[i] = p[i].len /\ i \in J
  OBVIOUS
<1>7. LengthOf(I, p) \in Nat
  BY <1>2, <1>4, TotalNat DEF LengthOf
<1>8. LengthOf(J, p) = LengthOf(I, p) + p[i].len
  <2>1. LengthOf(J, p) = Total(f)
    BY DEF LengthOf
  <2>2. LengthOf(I, p) = Total([k \in J \ {i} |-> f[k]])
    BY <1>5 DEF LengthOf
  <2>3. p[i].len \in Nat
    BY <1>0
  <2> HIDE DEF f, J
  <2>4. Total(f) = f[i] + Total([k \in J \ {i} |-> f[k]])
    <3>1. IsFiniteSet(J) /\ f \in [J -> Int] /\ i \in J
      BY <1>4, <1>6
    <3>2. QED
      BY <3>1, TotalStep, ZenonT(60)
  <2>5. QED
    BY <1>6, <1>7, <2>1, <2>2, <2>3, <2>4
<1>9. ASSUME NEW b \in 1..8
      PROVE  BitsOf(J, p)[b] =
               OrBits(BitsOf(I, p), Shown(p[i]))[b]
  <2>1. NUL[b] = 0
    BY NulOctet
  <2>2. p[i].flags[b] \in 0..1
    BY <1>0 DEF Octets
  <2> DEFINE A == \E k \in I : p[k].off = 0 /\ p[k].flags[b] = 1
             B == p[i].off = 0 /\ p[i].flags[b] = 1
  <2>3. BitsOf(I, p)[b] = IF A THEN 1 ELSE 0
    BY DEF BitsOf
  <2>4. BitsOf(J, p)[b] = IF A \/ B THEN 1 ELSE 0
    BY DEF BitsOf
  <2>5. Shown(p[i])[b] = 1 <=> B
    BY <2>1 DEF Shown
  <2>6. \A u, v : OrBits(u, v)[b] = IF u[b] = 1 \/ v[b] = 1 THEN 1 ELSE 0
    BY DEF OrBits
  <2> HIDE DEF A, B, J
  <2>7. QED
    BY <2>3, <2>4, <2>5, <2>6
<1>10. BitsOf(J, p) = OrBits(BitsOf(I, p), Shown(p[i]))
  BY <1>9 DEF BitsOf, OrBits
<1>11. QED
  BY <1>3, <1>7, <1>8, <1>10

(* Nothing is counted of no packets.                                       *)
LEMMA CountsNone ==
    ASSUME NEW p
    PROVE  Cardinality({}) = 0 /\ LengthOf({}, p) = 0 /\ BitsOf({}, p) = NUL
<1>1. Cardinality({}) = 0
  BY FS_EmptySet
<1>2. LengthOf({}, p) = 0
  <2>1. IsFiniteSet({}) /\ [i \in {} |-> p[i].len] \in [{} -> Int]
    BY FS_EmptySet
  <2>2. QED
    BY <2>1, TotalType DEF LengthOf
<1>3. BitsOf({}, p) = NUL
  <2>1. NUL \in [1..8 -> 0..1] /\ \A b \in 1..8 : NUL[b] = 0
    BY NulOctet DEF Octets
  <2>2. BitsOf({}, p) = [b \in 1..8 |-> 0]
    BY DEF BitsOf
  <2>3. QED
    BY <2>1, <2>2
<1>4. QED
  BY <1>1, <1>2, <1>3

(* What a flow has counted is not changed by the frames played later.      *)
LEMMA GoodLasts ==
    ASSUME NEW x, NEW p \in Seq(Frames), FlowGood(x, p), NEW f \in Frames
    PROVE  FlowGood(x, Append(p, f))
<1> DEFINE q == Append(p, f)
           R == Range(x.ids)
<1>1. Len(p) \in Nat /\ Len(q) = Len(p) + 1 /\ \A i \in 1..Len(p) : q[i] = p[i]
  OBVIOUS
<1>2. x \in FlowRecs /\ \A i \in R : i \in 1..Len(p)
  BY DEF FlowGood
<1> HIDE DEF q, R
<1>3. \A i \in R : q[i] = p[i] /\ i \in 1..Len(q)
  BY <1>1, <1>2
<1>4. ASSUME NEW d PROVE Counts(x, p, d) => Counts(x, q, d)
  <2> DEFINE I == CountedFrom(x.ids, p, d)
  <2>1. CountedFrom(x.ids, q, d) = I
    BY <1>3 DEF CountedFrom, R
  <2>2. \A i \in I : q[i] = p[i]
    BY <1>3 DEF CountedFrom, R
  <2> HIDE DEF I
  <2>3. [i \in I |-> q[i].len] = [i \in I |-> p[i].len]
    BY <2>2
  <2>4. LengthOf(I, q) = LengthOf(I, p)
    BY <2>3 DEF LengthOf
  <2>5. BitsOf(I, q) = BitsOf(I, p)
    BY <2>2 DEF BitsOf
  <2>6. QED
    BY <2>1, <2>4, <2>5 DEF Counts, I
<1>5. NoHash(x, q) <=> NoHash(x, p)
  BY <1>3 DEF NoHash, R
<1>6. ASSUME NEW i \in R PROVE EmulatedIdentity(q[i]) = EmulatedIdentity(p[i])
  BY <1>3
<1>7. QED
  BY <1>2, <1>3, <1>4, <1>5, <1>6 DEF FlowGood, R, q

(* A record that a report of packet i is read as.                          *)
Reads(rec, p, i) ==
    /\ i \in 1..Len(p) /\ rec \in Records /\ rec.protocol = p[i].p
    /\ p[i].p = TCP => RecordOf(rec, p[i])

(* The side that a packet leaves has its AS as a source, the other as a    *)
(* destination.                                                            *)
LEMMA AsOfRecord ==
    ASSUME NEW rec, NEW f, RecordOf(rec, f), NEW d \in {1, 2}
    PROVE  /\ rec.addr[d] = IF d = SideOf(f) THEN f.src ELSE f.dst
           /\ rec.as_src[d] = IF d = SideOf(f) THEN AsOf[f.src] ELSE 0
           /\ rec.as_dst[d] = IF d = SideOf(f) THEN 0 ELSE AsOf[f.dst]
           /\ AsRight(rec, d)
<1>1. SideOf(f) \in {1, 2}
  BY SideIs
<1>2. /\ rec.addr = Sides(SideOf(f), f.src, f.dst)
      /\ rec.as_src = Sides(SideOf(f), AsOf[f.src], 0)
      /\ rec.as_dst = Sides(SideOf(f), 0, AsOf[f.dst])
  BY DEF RecordOf, Identity, EmulatedIdentity
<1>3. /\ rec.addr[d] = IF d = SideOf(f) THEN f.src ELSE f.dst
      /\ rec.as_src[d] = IF d = SideOf(f) THEN AsOf[f.src] ELSE 0
      /\ rec.as_dst[d] = IF d = SideOf(f) THEN 0 ELSE AsOf[f.dst]
  BY <1>1, <1>2, SidesAt
<1>4. QED
  BY <1>3 DEF AsRight

(* A flow that is opened has counted its packet.                           *)
LEMMA OpenedGood ==
    ASSUME NEW p \in Seq(Frames), NEW i, NEW rec, Reads(rec, p, i)
    PROVE  FlowGood(Opened(rec, i), p)
<1> DEFINE x == Opened(rec, i)
           n == SideOf(p[i])
<1>1. /\ Len(p) \in Nat
      /\ \A k \in 1..Len(p) : p[k] \in Frames /\ p[k].len \in Nat /\ p[k].flags \in Octets
  BY PlayedHas
<1>2. i \in 1..Len(p) /\ i \in Nat /\ rec \in Records /\ rec.protocol = p[i].p
  BY <1>1 DEF Reads
<1>3. /\ x.addr = rec.addr /\ x.protocol = rec.protocol /\ x.port = rec.port
      /\ x.tcp_flags = rec.tcp_flags /\ x.octets = rec.octets /\ x.packets = rec.packets
      /\ x.as_src = rec.as_src /\ x.as_dst = rec.as_dst /\ x.ids = <<i>>
  BY DEF Opened
<1>4. x \in FlowRecs
  BY <1>2, RangeGrows, SMTT(20) DEF Opened, Records, FlowRecs
<1>5. Range(x.ids) = {i} /\ IsInjective(x.ids)
  <2>1. <<>> \in Seq(Nat)
    OBVIOUS
  <2>2. QED
    BY <1>2, <1>3, <2>1, RangeGrows
<1>6. Identity(x) = Identity(rec)
  BY <1>3 DEF Identity
<1> HIDE DEF x, n
<1>7. ASSUME x.protocol = TCP
      PROVE  /\ \A k \in Range(x.ids) : EmulatedIdentity(p[k]) = Identity(x)
             /\ NoHash(x, p) => IsInjective(x.ids) /\ \A d \in {1, 2} : Counts(x, p, d)
             /\ \A d \in {1, 2} : AsRight(x, d)
  <2>1. RecordOf(rec, p[i])
    BY <1>2, <1>3, <1>7 DEF Reads
  <2>2. \A k \in Range(x.ids) : EmulatedIdentity(p[k]) = Identity(x)
    BY <1>5, <1>6, <2>1 DEF RecordOf
  <2>3. ASSUME NEW d \in {1, 2} PROVE AsRight(x, d)
    BY <1>3, <2>1, AsOfRecord DEF AsRight
  <2>4. ASSUME NoHash(x, p), NEW d \in {1, 2} PROVE Counts(x, p, d)
    <3>1. p[i].flags # SEP
      BY <1>5, <2>4 DEF NoHash
    <3>2. n \in {1, 2}
      BY SideIs DEF n
    <3>3. /\ x.packets[d] = IF d = n THEN 1 ELSE 0
          /\ x.octets[d] = IF d = n THEN p[i].len ELSE 0
          /\ x.tcp_flags[d] = IF d = n THEN Shown(p[i]) ELSE NUL
      <4>1. /\ x.packets = Sides(n, 1, 0) /\ x.octets = Sides(n, p[i].len, 0)
            /\ x.tcp_flags = Sides(n, Shown(p[i]), NUL)
        BY <1>3, <2>1, <3>1 DEF RecordOf, n
      <4>2. QED
        BY <3>2, <4>1, SidesAt
    <3>4. CountedFrom(x.ids, p, d) = IF d = n THEN {i} ELSE {}
      BY <1>5 DEF CountedFrom, n
    <3>5. Cardinality({}) = 0 /\ LengthOf({}, p) = 0 /\ BitsOf({}, p) = NUL
      BY CountsNone
    <3>6. CASE d # n
      BY <3>3, <3>4, <3>5, <3>6 DEF Counts
    <3>7. CASE d = n
      <4>1. /\ Cardinality({} \cup {i}) = 0 + 1
            /\ LengthOf({} \cup {i}, p) = 0 + p[i].len
            /\ BitsOf({} \cup {i}, p) =
                 OrBits(BitsOf({}, p), Shown(p[i]))
        <5> DEFINE I == {}
        <5>1. I \subseteq 1..Len(p) /\ i \notin I
          OBVIOUS
        <5>2. Cardinality(I) = 0 /\ LengthOf(I, p) = 0
          BY <3>5
        <5> HIDE DEF I
        <5>3. /\ Cardinality(I \cup {i}) = Cardinality(I) + 1
              /\ LengthOf(I \cup {i}, p) = LengthOf(I, p) + p[i].len
              /\ BitsOf(I \cup {i}, p) =
                   OrBits(BitsOf(I, p), Shown(p[i]))
          BY <1>2, <5>1, CountsGrow
        <5>4. QED
          BY <5>2, <5>3 DEF I
      <4>2. {} \cup {i} = {i} /\ 0 + 1 = 1 /\ 0 + p[i].len = p[i].len
        BY <1>1, <1>2
      <4> DEFINE g == Shown(p[i])
      <4>3. OrBits(NUL, g) = g
        <5>1. g \in [1..8 -> 0..1]
          BY <1>1, <1>2, NulOctet DEF Octets, Shown
        <5>2. \A b \in 1..8 : NUL[b] = 0
          BY NulOctet
        <5> HIDE DEF g
        <5>3. \A b \in 1..8 : OrBits(NUL, g)[b] = g[b]
          BY <5>1, <5>2 DEF OrBits
        <5>4. OrBits(NUL, g) = [b \in 1..8 |-> OrBits(NUL, g)[b]]
          BY DEF OrBits
        <5>5. QED
          BY <5>1, <5>3, <5>4
      <4>4. /\ Cardinality({i}) = 1 /\ LengthOf({i}, p) = p[i].len /\ BitsOf({i}, p) = g
        BY <3>5, <4>1, <4>2, <4>3
      <4>5. QED
        BY <3>3, <3>4, <3>7, <4>4 DEF Counts
    <3>8. QED
      BY <3>6, <3>7
  <2>5. QED
    BY <1>5, <2>2, <2>3, <2>4
<1>8. QED
  BY <1>2, <1>4, <1>5, <1>7 DEF FlowGood, x

(* Flow y is flow x with record rec, of packet i from side n, counted.     *)
Counted(y, x, rec, n, i) ==
    /\ y.addr = x.addr /\ y.protocol = x.protocol /\ y.port = x.port
    /\ y.packets = Add(x.packets, rec.packets)
    /\ y.octets = Add(x.octets, rec.octets)
    /\ y.tcp_flags = OrSides(x.tcp_flags, rec.tcp_flags)
    /\ y.as_src = SetSide(x.as_src, n, rec.as_src[n])
    /\ y.as_dst = SetSide(x.as_dst, 3 - n, rec.as_dst[3 - n])
    /\ y.ids = Append(x.ids, i)
    /\ y \in FlowRecs

(* What Updated changes, one field after the other.                        *)
LEMMA UpdatedIs ==
    ASSUME NEW x \in FlowRecs, NEW rec \in Records, NEW n \in {1, 2}, NEW i \in Nat
    PROVE  Counted(Updated(x, rec, n, i), x, rec, n, i)
<1> DEFINE y == Updated(x, rec, n, i)
           tf == OrSides(x.tcp_flags, rec.tcp_flags)
           sa == SetSide(x.as_src, n, rec.as_src[n])
           ad == SetSide(x.as_dst, 3 - n, rec.as_dst[3 - n])
<1>1. x = [addr |-> x.addr, protocol |-> x.protocol, port |-> x.port,
           tcp_flags |-> x.tcp_flags, octets |-> x.octets, packets |-> x.packets,
           as_src |-> x.as_src, as_dst |-> x.as_dst, ids |-> x.ids]
  BY DEF FlowRecs
<1>2. /\ x.addr \in Nat \X Nat /\ x.protocol \in Nat /\ x.port \in Nat \X Nat
      /\ x.octets \in Nat \X Nat /\ x.packets \in Nat \X Nat
      /\ x.as_src \in Nat \X Nat /\ x.as_dst \in Nat \X Nat /\ x.ids \in Seq(Nat)
  BY DEF FlowRecs
<1>3. /\ rec.octets \in Nat \X Nat /\ rec.packets \in Nat \X Nat
      /\ rec.as_src \in Nat \X Nat /\ rec.as_dst \in Nat \X Nat
  BY DEF Records
<1>4. \A u, v : OrBits(u, v) \in Octets
  BY DEF OrBits, Octets
<1>5. tf \in Octets \X Octets
  BY <1>4 DEF OrSides
<1>6. \A u, v \in Nat \X Nat : Add(u, v) \in Nat \X Nat
  BY DEF Add
<1>7. sa \in Nat \X Nat /\ ad \in Nat \X Nat
  <2>1. ASSUME NEW u \in Nat \X Nat, NEW v \in Nat, NEW k \in {1, 2}
        PROVE  SetSide(u, k, v) \in Nat \X Nat
    <3>1. u = <<u[1], u[2]>> /\ u[1] \in Nat /\ u[2] \in Nat
      OBVIOUS
    <3>2. CASE k = 1
      <4>1. SetSide(u, 1, v) = <<v, u[2]>>
        BY <3>1 DEF SetSide
      <4>2. QED
        BY <3>1, <3>2, <4>1
    <3>3. CASE k = 2
      <4>1. SetSide(u, 2, v) = <<u[1], v>>
        BY <3>1 DEF SetSide
      <4>2. QED
        BY <3>1, <3>3, <4>1
    <3>4. QED
      BY <3>2, <3>3
  <2>2. n \in {1, 2} /\ 3 - n \in {1, 2}
    OBVIOUS
  <2>3. rec.as_src[n] \in Nat /\ rec.as_dst[3 - n] \in Nat
    BY <1>3, <2>2
  <2>4. QED
    BY <1>2, <2>1, <2>2, <2>3
<1>8. Append(x.ids, i) \in Seq(Nat)
  BY <1>2
<1> DEFINE y1 == [x EXCEPT !.packets = Add(x.packets, rec.packets)]
           y2 == [y1 EXCEPT !.octets = Add(x.octets, rec.octets)]
           y3 == [y2 EXCEPT !.tcp_flags = tf]
           y4 == [y3 EXCEPT !.as_src = sa]
           y5 == [y4 EXCEPT !.as_dst = ad]
           y6 == [y5 EXCEPT !.ids = Append(x.ids, i)]
<1>9. y = y6
  BY DEF Updated
<1> HIDE DEF y, tf, sa, ad, y1, y2, y3, y4, y5, y6
<1>10. y1 = [addr |-> x.addr, protocol |-> x.protocol, port |-> x.port,
           tcp_flags |-> x.tcp_flags, octets |-> x.octets,
           packets |-> Add(x.packets, rec.packets),
           as_src |-> x.as_src, as_dst |-> x.as_dst, ids |-> x.ids]
  BY <1>1 DEF y1
<1>11. y2 = [addr |-> x.addr, protocol |-> x.protocol, port |-> x.port,
           tcp_flags |-> x.tcp_flags, octets |-> Add(x.octets, rec.octets),
           packets |-> Add(x.packets, rec.packets),
           as_src |-> x.as_src, as_dst |-> x.as_dst, ids |-> x.ids]
  BY <1>10 DEF y2
<1>12. y3 = [addr |-> x.addr, protocol |-> x.protocol, port |-> x.port,
           tcp_flags |-> tf, octets |-> Add(x.octets, rec.octets),
           packets |-> Add(x.packets, rec.packets),
           as_src |-> x.as_src, as_dst |-> x.as_dst, ids |-> x.ids]
  BY <1>11 DEF y3
<1>13. y4 = [addr |-> x.addr, protocol |-> x.protocol, port |-> x.port,
           tcp_flags |-> tf, octets |-> Add(x.octets, rec.octets),
           packets |-> Add(x.packets, rec.packets),
           as_src |-> sa, as_dst |-> x.as_dst, ids |-> x.ids]
  BY <1>12 DEF y4
<1>14. y5 = [addr |-> x.addr, protocol |-> x.protocol, port |-> x.port,
           tcp_flags |-> tf, octets |-> Add(x.octets, rec.octets),
           packets |-> Add(x.packets, rec.packets),
           as_src |-> sa, as_dst |-> ad, ids |-> x.ids]
  BY <1>13 DEF y5
<1>15. y = [addr |-> x.addr, protocol |-> x.protocol, port |-> x.port,
           tcp_flags |-> tf, octets |-> Add(x.octets, rec.octets),
           packets |-> Add(x.packets, rec.packets),
           as_src |-> sa, as_dst |-> ad, ids |-> Append(x.ids, i)]
  <2>1. y = [y5 EXCEPT !.ids = Append(x.ids, i)]
    BY <1>9 DEF y6
  <2>2. QED
    BY <1>14, <2>1
<1>16. y \in FlowRecs
  BY <1>2, <1>3, <1>5, <1>6, <1>7, <1>8, <1>15 DEF FlowRecs
<1>17. QED
  BY <1>15, <1>16 DEF Counted, y, tf, sa, ad

(* What a flow that has counted its packets counts of one more.            *)
LEMMA UpdatedCounts ==
    ASSUME NEW p \in Seq(Frames), NEW x \in FlowRecs, \A k \in Range(x.ids) : k \in 1..Len(p),
           NEW i, i \notin Range(x.ids), NEW rec, Reads(rec, p, i), RecordOf(rec, p[i]),
           p[i].flags # SEP, NEW d \in {1, 2}, Counts(x, p, d)
    PROVE  Counts(Updated(x, rec, SideOf(p[i]), i), p, d)
<1> DEFINE n == SideOf(p[i])
           y == Updated(x, rec, n, i)
           I == CountedFrom(x.ids, p, d)
           J == CountedFrom(y.ids, p, d)
<1>1. /\ Len(p) \in Nat
      /\ \A k \in 1..Len(p) : p[k] \in Frames /\ p[k].len \in Nat /\ p[k].flags \in Octets
  BY PlayedHas
<1>2. n \in {1, 2} /\ i \in 1..Len(p) /\ i \in Nat /\ rec \in Records
  BY <1>1, SideIs DEF Reads
<1>3. /\ y.packets = Add(x.packets, rec.packets)
      /\ y.octets = Add(x.octets, rec.octets)
      /\ y.tcp_flags = OrSides(x.tcp_flags, rec.tcp_flags)
      /\ y.ids = Append(x.ids, i)
  <2>1. Counted(y, x, rec, n, i)
    BY <1>2, UpdatedIs
  <2> HIDE DEF y, n
  <2>2. QED
    BY <2>1 DEF Counted
<1>4. /\ rec.packets[d] = IF d = n THEN 1 ELSE 0
      /\ rec.octets[d] = IF d = n THEN p[i].len ELSE 0
      /\ rec.tcp_flags[d] = IF d = n THEN Shown(p[i]) ELSE NUL
  <2>1. /\ rec.packets = Sides(n, 1, 0) /\ rec.octets = Sides(n, p[i].len, 0)
        /\ rec.tcp_flags = Sides(n, Shown(p[i]), NUL)
    BY DEF RecordOf
  <2>2. QED
    BY <1>2, <2>1, SidesAt
<1>5. x.ids \in Seq(Nat)
  BY DEF FlowRecs
<1>6. Range(y.ids) = Range(x.ids) \cup {i}
  BY <1>2, <1>3, <1>5, RangeGrows
<1> HIDE DEF y, n
<1>7. /\ y.packets[d] = x.packets[d] + rec.packets[d]
      /\ y.octets[d] = x.octets[d] + rec.octets[d]
      /\ y.tcp_flags[d] = OrBits(x.tcp_flags[d], rec.tcp_flags[d])
  <2>1. d = 1 \/ d = 2
    OBVIOUS
  <2>2. QED
    BY <1>3, <2>1 DEF Add, OrSides
<1>8. J = IF d = n THEN I \cup {i} ELSE I
  BY <1>6 DEF CountedFrom, n
<1>9. I \subseteq 1..Len(p) /\ i \notin I
  BY DEF CountedFrom
<1>10. /\ x.packets[d] = Cardinality(I) /\ x.octets[d] = LengthOf(I, p)
       /\ x.tcp_flags[d] = BitsOf(I, p)
  BY DEF Counts
<1> HIDE DEF I, J
<1>11. /\ Cardinality(I) \in Nat /\ Cardinality(I \cup {i}) = Cardinality(I) + 1
       /\ LengthOf(I, p) \in Nat /\ LengthOf(I \cup {i}, p) = LengthOf(I, p) + p[i].len
       /\ BitsOf(I \cup {i}, p) = OrBits(BitsOf(I, p), Shown(p[i]))
  BY <1>2, <1>9, CountsGrow
<1>12. OrBits(BitsOf(I, p), NUL) = BitsOf(I, p)
  <2>1. \A b \in 1..8 : NUL[b] = 0
    BY NulOctet
  <2>2. \A b \in 1..8 : BitsOf(I, p)[b] \in {0, 1}
    BY DEF BitsOf
  <2>3. BitsOf(I, p) = [b \in 1..8 |-> BitsOf(I, p)[b]]
    BY DEF BitsOf
  <2> DEFINE g == BitsOf(I, p)
  <2> HIDE DEF g
  <2>4. \A b \in 1..8 : g[b] = 1 \/ NUL[b] = 1 <=> g[b] = 1
    BY <2>1
  <2>5. OrBits(g, NUL) = [b \in 1..8 |-> IF g[b] = 1 THEN 1 ELSE 0]
    BY <2>4 DEF OrBits
  <2>6. \A b \in 1..8 : (IF g[b] = 1 THEN 1 ELSE 0) = g[b]
    BY <2>2 DEF g
  <2>7. OrBits(g, NUL) = [b \in 1..8 |-> g[b]]
    BY <2>5, <2>6
  <2>8. QED
    BY <2>3, <2>7 DEF g
<1>13. /\ y.packets[d] = Cardinality(J) /\ y.octets[d] = LengthOf(J, p)
       /\ y.tcp_flags[d] = BitsOf(J, p)
  <2>1. CASE d = n
    BY <1>4, <1>7, <1>8, <1>10, <1>11, <2>1
  <2>2. CASE d # n
    BY <1>4, <1>7, <1>8, <1>10, <1>11, <1>12, <2>2
  <2>3. QED
    BY <2>1, <2>2
<1>14. QED
  BY <1>13 DEF Counts, J, y, n

(* The AS numbers of a flow that is found are set on the sides of their    *)
(* addresses.                                                              *)
LEMMA UpdatedAs ==
    ASSUME NEW x \in FlowRecs, NEW rec \in Records, NEW f, NEW i \in Nat, RecordOf(rec, f),
           Identity(x) = Identity(rec), NEW d \in {1, 2}, AsRight(x, d)
    PROVE  AsRight(Updated(x, rec, SideOf(f), i), d)
<1> DEFINE n == SideOf(f)
           y == Updated(x, rec, n, i)
<1>1. n \in {1, 2} /\ 3 - n \in {1, 2}
  BY SideIs
<1>2. /\ y.addr = x.addr
      /\ y.as_src = SetSide(x.as_src, n, rec.as_src[n])
      /\ y.as_dst = SetSide(x.as_dst, 3 - n, rec.as_dst[3 - n])
  <2>1. Counted(y, x, rec, n, i)
    BY <1>1, UpdatedIs
  <2> HIDE DEF y, n
  <2>2. QED
    BY <2>1 DEF Counted
<1>3. x.as_src \in Nat \X Nat /\ x.as_dst \in Nat \X Nat
  BY DEF FlowRecs
<1>4. x.addr = rec.addr
  BY DEF Identity
<1>5. AsRight(rec, d)
  BY AsOfRecord
<1> HIDE DEF y, n
<1>6. y.as_src[d] = x.as_src[d] \/ y.as_src[d] = rec.as_src[d]
  <2>1. d \in DOMAIN x.as_src
    BY <1>3
  <2>2. CASE d = n
    BY <1>2, <2>1, <2>2 DEF SetSide
  <2>3. CASE d # n
    BY <1>2, <2>1, <2>3 DEF SetSide
  <2>4. QED
    BY <2>2, <2>3
<1>7. y.as_dst[d] = x.as_dst[d] \/ y.as_dst[d] = rec.as_dst[d]
  <2> DEFINE o == 3 - n
  <2>1. d \in DOMAIN x.as_dst
    BY <1>3
  <2>2. y.as_dst = SetSide(x.as_dst, o, rec.as_dst[o])
    BY <1>2
  <2> HIDE DEF o
  <2>3. CASE d = o
    BY <2>1, <2>2, <2>3 DEF SetSide
  <2>4. CASE d # o
    BY <2>1, <2>2, <2>4 DEF SetSide
  <2>5. QED
    BY <2>3, <2>4
<1>8. QED
  BY <1>2, <1>4, <1>5, <1>6, <1>7 DEF AsRight, y, n

(* A flow that is found counts the report right.                           *)
LEMMA UpdatedGood ==
    ASSUME NEW p \in Seq(Frames), NEW x, FlowGood(x, p), NEW i, NEW rec, Reads(rec, p, i),
           Identity(x) = Identity(rec),
           p[i].p = TCP /\ p[i].flags # SEP => i \notin Range(x.ids)
    PROVE  FlowGood(Updated(x, rec, SideOf(p[i]), i), p)
<1> DEFINE n == SideOf(p[i])
           y == Updated(x, rec, n, i)
<1>1. Len(p) \in Nat
  OBVIOUS
<1>2. n \in {1, 2} /\ i \in 1..Len(p) /\ i \in Nat /\ rec \in Records
  BY <1>1, SideIs DEF Reads
<1>3. x \in FlowRecs /\ \A k \in Range(x.ids) : k \in 1..Len(p)
  BY DEF FlowGood
<1>4. /\ y.addr = x.addr /\ y.protocol = x.protocol /\ y.port = x.port
      /\ y.ids = Append(x.ids, i) /\ y \in FlowRecs
  <2>1. Counted(y, x, rec, n, i)
    BY <1>2, <1>3, UpdatedIs
  <2> HIDE DEF y, n
  <2>2. QED
    BY <2>1 DEF Counted
<1>5. x.ids \in Seq(Nat)
  BY <1>3 DEF FlowRecs
<1>6. /\ Range(y.ids) = Range(x.ids) \cup {i}
      /\ IsInjective(x.ids) /\ i \notin Range(x.ids) => IsInjective(y.ids)
  BY <1>2, <1>4, <1>5, RangeGrows
<1>7. Identity(y) = Identity(x)
  BY <1>4 DEF Identity
<1>8. ASSUME y.protocol = TCP
      PROVE  /\ \A k \in Range(y.ids) : EmulatedIdentity(p[k]) = Identity(y)
             /\ NoHash(y, p) => IsInjective(y.ids) /\ \A d \in {1, 2} : Counts(y, p, d)
             /\ \A d \in {1, 2} : AsRight(y, d)
  <2>1. x.protocol = TCP
    BY <1>4, <1>8
  <2>2. p[i].p = TCP
    BY <2>1 DEF Reads, Identity
  <2>3. RecordOf(rec, p[i])
    BY <2>2 DEF Reads
  <2>4. /\ \A k \in Range(x.ids) : EmulatedIdentity(p[k]) = Identity(x)
        /\ NoHash(x, p) => IsInjective(x.ids) /\ \A d \in {1, 2} : Counts(x, p, d)
        /\ \A d \in {1, 2} : AsRight(x, d)
    BY <2>1 DEF FlowGood
  <2>5. EmulatedIdentity(p[i]) = Identity(y)
    BY <1>7, <2>3 DEF RecordOf
  <2> HIDE DEF y
  <2>6. \A k \in Range(y.ids) : EmulatedIdentity(p[k]) = Identity(y)
    BY <1>6, <1>7, <2>4, <2>5
  <2>7. ASSUME NoHash(y, p)
        PROVE  IsInjective(y.ids) /\ \A d \in {1, 2} : Counts(y, p, d)
    <3>1. NoHash(x, p) /\ p[i].flags # SEP
      BY <1>6, <2>7 DEF NoHash
    <3>2. i \notin Range(x.ids)
      BY <2>2, <3>1
    <3>3. IsInjective(y.ids)
      BY <1>6, <2>4, <3>1, <3>2
    <3>4. ASSUME NEW d \in {1, 2} PROVE Counts(y, p, d)
      <4>1. Counts(x, p, d)
        BY <2>4, <3>1
      <4>2. QED
        BY <1>3, <2>3, <3>1, <3>2, <4>1, UpdatedCounts DEF y
    <3>5. QED
      BY <3>3, <3>4
  <2>8. ASSUME NEW d \in {1, 2} PROVE AsRight(y, d)
    <3>1. AsRight(x, d)
      BY <2>4
    <3>2. QED
      BY <1>2, <1>3, <2>3, <3>1, UpdatedAs DEF y
  <2>9. QED
    BY <2>6, <2>7, <2>8
<1>9. QED
  BY <1>2, <1>3, <1>4, <1>6, <1>8 DEF FlowGood

(* The packet of a frame before and after it is marked.                    *)
LEMMA PacketMarked ==
    ASSUME NEW f, NEW i, NEW fwd
    PROVE  /\ Ipv4ToUpLevel(f, i) = PacketOf(f, i, FALSE)
           /\ [PacketOf(f, i, fwd) EXCEPT !.forwarded = TRUE] = PacketOf(f, i, TRUE)
<1> DEFINE sp == TransportToUpLevel(f).sport
           dp == TransportToUpLevel(f).dport
           sq == IF f.off # 0 THEN f.off + (IF f.mf THEN 8192 ELSE 0) ELSE 0
           fr == f.off # 0 \/ f.mf
           Q(w) == [id |-> i, sec |-> 0, usec |-> i, forwarded |-> w,
                    src |-> f.src, dst |-> f.dst, len |-> f.len, p |-> f.p, flags |-> f.flags,
                    fragment |-> fr, seq |-> sq, sport |-> sp, dport |-> dp]
<1>1. Ipv4ToUpLevel(f, i) = Q(FALSE)
  BY DEF Ipv4ToUpLevel
<1>2. \A w : PacketOf(f, i, w) = [Q(FALSE) EXCEPT !.forwarded = w]
  BY DEF PacketOf, Ipv4ToUpLevel
<1> HIDE DEF sp, dp, sq, fr
<1>3. \A v, w : [Q(v) EXCEPT !.forwarded = w] = Q(w)
  OBVIOUS
<1>4. ASSUME NEW w PROVE PacketOf(f, i, w) = Q(w)
  <2>1. PacketOf(f, i, w) = [Q(FALSE) EXCEPT !.forwarded = w]
    BY <1>2
  <2>2. [Q(FALSE) EXCEPT !.forwarded = w] = Q(w)
    BY <1>3
  <2> HIDE DEF Q
  <2>3. QED
    BY <2>1, <2>2
<1>5. [Q(fwd) EXCEPT !.forwarded = TRUE] = Q(TRUE)
  BY <1>3
<1> HIDE DEF Q
<1>6. QED
  BY <1>1, <1>4, <1>5

(* A frame whose packet is valid is of one of three protocols.             *)
LEMMA ValidProtocol ==
    ASSUME NEW f \in Frames, NEW i \in Nat, AmIValid(Ipv4ToUpLevel(f, i))
    PROVE  f.p \in Transports
<1> DEFINE q == PacketOf(f, i, FALSE)
<1>1. Ipv4ToUpLevel(f, i) = q
  BY PacketMarked
<1>2. /\ q.p = f.p
      /\ q.sport = (IF f.p \in {TCP, UDP} THEN Swap16(f.sport) ELSE Unset)
  <2>1. ASSUME NEW fwd \in BOOLEAN
        PROVE  /\ PacketOf(f, i, fwd).p = f.p
               /\ PacketOf(f, i, fwd).sport =
                    (IF f.p \in {TCP, UDP} THEN Swap16(f.sport) ELSE Unset)
    BY PacketIs
  <2>2. QED
    BY <2>1
<1> HIDE DEF q
<1>3. q.p = ICMP \/ (q.sport # Unset /\ q.dport # Unset)
  BY <1>1 DEF AmIValid
<1>4. QED
  BY <1>2, <1>3 DEF Transports

-----------------------------------------------------------------------------
(* The inductive invariant                                                 *)

Reports == [id : Nat, txt : Seq(Tokens)]

(* A report is the text of a frame that was played.                        *)
ReportGood(r, p) ==
    /\ r.id \in 1..Len(p) /\ p[r.id].p \in Transports
    /\ \E fwd \in BOOLEAN, m \in Nat :
         r = [id |-> r.id, txt |-> GetPacketMessage(PacketOf(p[r.id], r.id, fwd), m)]

(* Packet i has been counted in a flow.                                    *)
InFlow(i, fl) == \E x \in fl : i \in Range(x.ids)

(* A TCP report that reads as the first of its packet is the first: no     *)
(* report before it in the queue and no flow is of the packet.             *)
Fresh(k, nt, fl, p) ==
    p[nt[k].id].p = TCP /\ p[nt[k].id].flags # SEP /\ Part(nt[k].txt, 14) = 0 =>
      /\ \A j \in 1..(k - 1) : nt[j].id # nt[k].id
      /\ ~InFlow(nt[k].id, fl)

(* The packet on its way is that of the last frame, and nothing is of it   *)
(* before it is marked.                                                    *)
HeldGood(h, nt, fl, p) ==
    h # NoPacket =>
      /\ Len(p) > 0 /\ p[Len(p)].p \in Transports
      /\ \E fwd \in BOOLEAN :
           /\ h = PacketOf(p[Len(p)], Len(p), fwd)
           /\ ~fwd => /\ \A k \in 1..Len(nt) : nt[k].id # Len(p)
                      /\ ~InFlow(Len(p), fl)

(* No two flows of the table have one identity.                            *)
Apart(fl) == \A x, y \in fl : Identity(x) = Identity(y) => x = y

WireType == played \in Seq(Frames) /\ hop \in Nat /\ bad = 0
NetInv ==
    /\ net \in Seq(Reports)
    /\ \A k \in 1..Len(net) : ReportGood(net[k], played) /\ Fresh(k, net, flows, played)
FlowInv ==
    /\ \A x \in flows : FlowGood(x, played)
    /\ Apart(flows)
    /\ exported \in Seq(FlowRecs)
    /\ \A k \in 1..Len(exported) : FlowGood(exported[k], played)
WireInd == WireType /\ NetInv /\ FlowInv /\ HeldGood(held, net, flows, played)

LEMMA WireStart == WireInit => WireInd
<1> SUFFICES ASSUME WireInit PROVE WireInd
  OBVIOUS
<1>1. /\ played = <<>> /\ held = NoPacket /\ hop = 0
      /\ net = <<>> /\ flows = {} /\ exported = <<>> /\ bad = 0
  BY DEF WireInit
<1>2. \A S : <<>> \in Seq(S)
  OBVIOUS
<1>3. 1..Len(<<>>) = {}
  OBVIOUS
<1>4. WireType /\ NetInv /\ FlowInv
  BY <1>1, <1>2, <1>3 DEF WireType, NetInv, FlowInv, Apart
<1>5. QED
  BY <1>1, <1>4 DEF WireInd, HeldGood

(* A frame is played.                                                      *)
LEMMA PlayStep ==
    ASSUME WireInd, NEW f \in Frames, PlayFrame(f)
    PROVE  WireInd'
<1> DEFINE q == Append(played, f)
           n == Len(played)
           packet == Ipv4ToUpLevel(f, n + 1)
<1>1. /\ played' = q /\ hop' = 0
      /\ UNCHANGED <<net, flows, exported, bad>>
      /\ held' # NoPacket => held' = packet /\ AmIValid(packet)
  BY DEF PlayFrame
<1>2. /\ q \in Seq(Frames) /\ n \in Nat /\ Len(q) = n + 1 /\ q[n + 1] = f
      /\ \A i \in 1..n : q[i] = played[i]
  BY DEF WireInd, WireType
<1> HIDE DEF q, n, packet
<1>3. WireType'
  BY <1>1, <1>2 DEF WireInd, WireType
<1>4. FlowInv'
  <2>1. \A x : FlowGood(x, played) => FlowGood(x, q)
    BY GoodLasts DEF q, WireInd, WireType
  <2>2. QED
    BY <1>1, <2>1 DEF WireInd, FlowInv
<1>5. \A k \in 1..Len(net) : net[k].id \in 1..n
  BY DEF WireInd, NetInv, ReportGood, n
<1>6. NetInv'
  <2>1. ASSUME NEW k \in 1..Len(net) PROVE ReportGood(net[k], q) /\ Fresh(k, net, flows, q)
    <3>1. q[net[k].id] = played[net[k].id] /\ net[k].id \in 1..Len(q)
      BY <1>2, <1>5
    <3>2. ReportGood(net[k], played) /\ Fresh(k, net, flows, played)
      BY DEF WireInd, NetInv
    <3>3. ReportGood(net[k], q)
      BY <3>1, <3>2 DEF ReportGood
    <3>4. Fresh(k, net, flows, q)
      BY <3>1, <3>2 DEF Fresh
    <3>5. QED
      BY <3>3, <3>4
  <2>2. QED
    BY <1>1, <2>1 DEF WireInd, NetInv
<1>7. HeldGood(held', net, flows, q)
  <2>1. SUFFICES ASSUME held' # NoPacket
                 PROVE  /\ Len(q) > 0 /\ q[Len(q)].p \in Transports
                        /\ \E fwd \in BOOLEAN :
                             /\ held' = PacketOf(q[Len(q)], Len(q), fwd)
                             /\ ~fwd => /\ \A k \in 1..Len(net) : net[k].id # Len(q)
                                        /\ ~InFlow(Len(q), flows)
    BY DEF HeldGood
  <2>2. n + 1 \in Nat /\ n + 1 > 0 /\ Len(q) = n + 1 /\ q[n + 1] = f
    BY <1>2
  <2>3. f.p \in Transports
    BY <1>1, <2>1, <2>2, ValidProtocol DEF packet
  <2>4. held' = PacketOf(f, n + 1, FALSE)
    BY <1>1, <2>1, PacketMarked DEF packet
  <2>5. \A k \in 1..Len(net) : net[k].id # n + 1
    BY <1>2, <1>5
  <2>6. ~InFlow(n + 1, flows)
    <3>1. \A x \in flows : \A i \in Range(x.ids) : i \in 1..n
      BY DEF WireInd, FlowInv, FlowGood, n
    <3>2. n + 1 \notin 1..n
      BY <1>2
    <3>3. QED
      BY <3>1, <3>2 DEF InFlow
  <2>7. QED
    BY <2>2, <2>3, <2>4, <2>5, <2>6
<1>8. QED
  BY <1>1, <1>3, <1>4, <1>6, <1>7 DEF WireInd

(* Every report parses and is read as what its frame said.                 *)
LEMMA ReportRead ==
    ASSUME NEW p \in Seq(Frames), NEW r, ReportGood(r, p)
    PROVE  /\ Parses(r.txt)
           /\ Ndx(Part(r.txt, 1), Part(r.txt, 2)) = SideOf(p[r.id])
           /\ \A rec \in emulator_ipv4_to_flowrec(r.txt) : Reads(rec, p, r.id)
<1>1. r.id \in 1..Len(p) /\ r.id \in Nat /\ p[r.id] \in Frames /\ p[r.id].p \in Transports
  BY DEF ReportGood
<1> DEFINE f == p[r.id]
           i == r.id
           msg == r.txt
<1>2. PICK fwd \in BOOLEAN, m \in Nat :
        r = [id |-> i, txt |-> GetPacketMessage(PacketOf(f, i, fwd), m)]
  BY DEF ReportGood
<1>3. msg = GetPacketMessage(PacketOf(f, i, fwd), m)
  BY <1>2
<1> HIDE DEF f, i, msg
<1>4. f \in Frames /\ f.p \in Transports /\ i \in Nat
  BY <1>1 DEF f, i
<1>5. /\ Parses(msg)
      /\ Ndx(Part(msg, 1), Part(msg, 2)) = SideOf(f)
      /\ \A rec \in emulator_ipv4_to_flowrec(msg) :
           /\ rec \in Records /\ rec.protocol = f.p
           /\ f.p = TCP => RecordOf(rec, f)
  BY <1>3, <1>4, TextRead
<1>6. QED
  BY <1>1, <1>5 DEF Reads, f, i, msg

(* A monitor reports the packet.                                           *)
LEMMA ReportStep ==
    ASSUME WireInd, Report
    PROVE  WireInd'
<1> DEFINE n == Len(played)
           f == played[n]
           m == Path[hop + 1]
           L == Len(net)
<1>1. /\ held # NoPacket /\ hop < Len(Path)
      /\ net' = Append(net, [id |-> held.id, txt |-> GetPacketMessage(held, m)])
      /\ held' = [held EXCEPT !.forwarded = TRUE]
      /\ hop' = hop + 1
      /\ UNCHANGED <<played, flows, exported, bad>>
  BY DEF Report
<1>2. /\ n \in Nat /\ n > 0 /\ f.p \in Transports /\ played \in Seq(Frames) /\ hop \in Nat
      /\ net \in Seq(Reports) /\ L \in Nat
  BY <1>1 DEF WireInd, WireType, NetInv, HeldGood
<1>3. f \in Frames /\ n \in 1..Len(played)
  BY <1>2
<1>4. PICK fwd \in BOOLEAN :
        /\ held = PacketOf(f, n, fwd)
        /\ ~fwd => /\ \A k \in 1..L : net[k].id # n
                   /\ ~InFlow(n, flows)
  BY <1>1 DEF WireInd, HeldGood
<1>5. m \in Nat
  <2>1. hop + 1 \in 1..Len(Path) /\ Path \in Seq(Nat)
    BY <1>1, <1>2, PathAssumption
  <2>2. QED
    BY <2>1
<1> HIDE DEF f, n, m, L
<1>6. held.id = n
  <2>1. \A w \in BOOLEAN : PacketOf(f, n, w).id = n
    BY <1>2, <1>3, PacketIs
  <2>2. QED
    BY <1>4, <2>1
<1> DEFINE msg == GetPacketMessage(PacketOf(f, n, fwd), m)
           r == [id |-> n, txt |-> msg]
<1>7. net' = Append(net, r)
  BY <1>1, <1>4, <1>6
<1>8. /\ msg \in Seq(Tokens)
      /\ f.p = TCP /\ f.flags # SEP => Part(msg, 14) = Bit(fwd)
  <2>1. msg = GetPacketMessage(PacketOf(f, n, fwd), m)
    OBVIOUS
  <2> HIDE DEF msg
  <2>2. QED
    BY <1>2, <1>3, <1>5, <2>1, TextRead
<1>9. held' = PacketOf(f, n, TRUE)
  BY <1>1, <1>4, PacketMarked
<1>10. r.id = n /\ r.txt = msg /\ r \in Reports
  BY <1>2, <1>8 DEF Reports
<1>11. ReportGood(r, played)
  BY <1>2, <1>3, <1>5, <1>10 DEF ReportGood, f
<1> HIDE DEF msg, r
<1>12. /\ net' \in Seq(Reports) /\ Len(net') = L + 1 /\ net'[L + 1] = r
       /\ \A k \in 1..L : net'[k] = net[k]
  BY <1>2, <1>7, <1>10 DEF L
<1>13. ASSUME NEW k \in 1..L PROVE ReportGood(net'[k], played) /\ Fresh(k, net', flows, played)
  <2>1. ReportGood(net[k], played) /\ Fresh(k, net, flows, played)
    BY DEF WireInd, NetInv, L
  <2>2. net'[k] = net[k] /\ \A j \in 1..(k - 1) : net'[j] = net[j]
    BY <1>2, <1>12
  <2>3. QED
    BY <2>1, <2>2 DEF Fresh
<1>14. Fresh(L + 1, net', flows, played)
  <2>1. SUFFICES ASSUME f.p = TCP, f.flags # SEP, Part(msg, 14) = 0
                 PROVE  (\A j \in 1..L : net[j].id # n) /\ ~InFlow(n, flows)
    <3>1. net'[L + 1].id = n /\ net'[L + 1].txt = msg /\ (L + 1) - 1 = L
      BY <1>2, <1>10, <1>12
    <3>2. QED
      BY <1>12, <3>1 DEF Fresh, f
  <2>2. ~fwd
    BY <1>8, <2>1 DEF Bit
  <2>3. QED
    BY <1>4, <2>2
<1>15. NetInv'
  <2>1. \A k \in 1..(L + 1) : k \in 1..L \/ k = L + 1
    BY <1>2
  <2>2. ASSUME NEW k \in 1..Len(net')
        PROVE  ReportGood(net'[k], played) /\ Fresh(k, net', flows, played)
    BY <1>11, <1>12, <1>13, <1>14, <2>1
  <2>3. QED
    BY <1>1, <1>12, <2>2 DEF NetInv
<1>16. HeldGood(held', net', flows, played)
  <2>1. TRUE \in BOOLEAN
    OBVIOUS
  <2>2. QED
    BY <1>2, <1>9, <2>1 DEF HeldGood, f, n
<1>17. QED
  BY <1>1, <1>2, <1>15, <1>16 DEF WireInd, WireType, FlowInv

(* What is left of the queue when its head is taken out, with flows fl     *)
(* that have counted no more than it.                                      *)
LEMMA TakenStep ==
    ASSUME WireInd, net # <<>>, net' = Tail(net), UNCHANGED <<played, held>>,
           \A y \in flows' : \A i \in Range(y.ids) : i = net[1].id \/ InFlow(i, flows)
    PROVE  NetInv' /\ HeldGood(held, net', flows', played)
<1> DEFINE L == Len(net)
<1>1. net \in Seq(Reports) /\ L \in Nat /\ L >= 1 /\ Len(net') = L - 1 /\ net' \in Seq(Reports)
  BY DEF WireInd, NetInv
<1>2. \A k \in 1..(L - 1) : net'[k] = net[k + 1] /\ k + 1 \in 1..L
  BY <1>1
<1>3. \A k \in 1..L : ReportGood(net[k], played) /\ Fresh(k, net, flows, played)
  BY DEF WireInd, NetInv
<1> HIDE DEF L
<1>4. \A i : i # net[1].id /\ ~InFlow(i, flows) => ~InFlow(i, flows')
  BY DEF InFlow
<1>5. ASSUME NEW k \in 1..(L - 1)
      PROVE  ReportGood(net'[k], played) /\ Fresh(k, net', flows', played)
  <2>1. ReportGood(net[k + 1], played) /\ Fresh(k + 1, net, flows, played) /\ net'[k] = net[k + 1]
    BY <1>2, <1>3
  <2>2. ASSUME played[net'[k].id].p = TCP, played[net'[k].id].flags # SEP,
               Part(net'[k].txt, 14) = 0
        PROVE  /\ \A j \in 1..(k - 1) : net'[j].id # net'[k].id
               /\ ~InFlow(net'[k].id, flows')
    <3>1. /\ \A j \in 1..((k + 1) - 1) : net[j].id # net[k + 1].id
          /\ ~InFlow(net[k + 1].id, flows)
      BY <2>1, <2>2 DEF Fresh
    <3>2. /\ 1 \in 1..((k + 1) - 1)
          /\ \A j \in 1..(k - 1) : j \in 1..(L - 1) /\ j + 1 \in 1..((k + 1) - 1)
      BY <1>1
    <3>3. \A j \in 1..(k - 1) : net'[j].id # net'[k].id
      BY <1>2, <2>1, <3>1, <3>2
    <3>4. net[k + 1].id # net[1].id
      BY <3>1, <3>2
    <3>5. QED
      BY <1>4, <2>1, <3>1, <3>3, <3>4
  <2>3. QED
    BY <2>1, <2>2 DEF Fresh
<1>6. NetInv'
  BY <1>1, <1>5 DEF NetInv
<1>7. HeldGood(held, net', flows', played)
  <2>1. SUFFICES ASSUME held # NoPacket
                 PROVE  /\ Len(played) > 0 /\ played[Len(played)].p \in Transports
                        /\ \E fwd \in BOOLEAN :
                             /\ held = PacketOf(played[Len(played)], Len(played), fwd)
                             /\ ~fwd => /\ \A k \in 1..Len(net') : net'[k].id # Len(played)
                                        /\ ~InFlow(Len(played), flows')
    BY DEF HeldGood
  <2>2. Len(played) > 0 /\ played[Len(played)].p \in Transports
    BY <2>1 DEF WireInd, HeldGood
  <2>3. PICK fwd \in BOOLEAN :
          /\ held = PacketOf(played[Len(played)], Len(played), fwd)
          /\ ~fwd => /\ \A k \in 1..L : net[k].id # Len(played)
                     /\ ~InFlow(Len(played), flows)
    BY <2>1 DEF WireInd, HeldGood, L
  <2>4. ASSUME ~fwd
        PROVE  /\ \A k \in 1..Len(net') : net'[k].id # Len(played)
               /\ ~InFlow(Len(played), flows')
    <3>1. 1 \in 1..L
      BY <1>1
    <3>2. QED
      BY <1>1, <1>2, <1>4, <2>3, <2>4, <3>1
  <2>5. QED
    BY <2>2, <2>3, <2>4
<1>8. QED
  BY <1>6, <1>7

(* A report is taken: the flows it is counted in stay good, and no other   *)
(* packet is counted.                                                      *)
LEMMA ProcessedGood ==
    ASSUME NEW p \in Seq(Frames), NEW r, ReportGood(r, p), \A x \in flows : FlowGood(x, p),
           Apart(flows),
           p[r.id].p = TCP /\ p[r.id].flags # SEP /\ Part(r.txt, 14) = 0
             => ~InFlow(r.id, flows),
           NEW rec \in emulator_ipv4_to_flowrec(r.txt),
           process_emulator_packet(r.txt, rec, r.id)
    PROVE  /\ \A y \in flows' : FlowGood(y, p)
           /\ \A y \in flows' : \A i \in Range(y.ids) : i = r.id \/ InFlow(i, flows)
           /\ Apart(flows')
<1> DEFINE i == r.id
           n == Ndx(Part(r.txt, 1), Part(r.txt, 2))
           found == {x \in flows : Identity(x) = Identity(rec)}
<1>1. n = SideOf(p[i]) /\ Reads(rec, p, i) /\ i \in 1..Len(p) /\ i \in Nat
  <2>1. /\ n = SideOf(p[r.id])
        /\ \A y \in emulator_ipv4_to_flowrec(r.txt) : Reads(y, p, r.id)
    BY ReportRead
  <2>2. Reads(rec, p, i)
    BY <2>1
  <2>3. i \in 1..Len(p)
    BY <2>2 DEF Reads
  <2>4. QED
    BY <2>1, <2>2, <2>3
<1>2. \A x \in flows : FlowGood(x, p) /\ \A k \in Range(x.ids) : InFlow(k, flows)
  BY DEF InFlow
<1>3. CASE found = {}
  <2>1. flows' = flows \cup {Opened(rec, i)}
    BY <1>3 DEF process_emulator_packet
  <2>2. FlowGood(Opened(rec, i), p)
    BY <1>1, OpenedGood
  <2>3. Range(Opened(rec, i).ids) = {i}
    <3>1. Opened(rec, i).ids = <<i>>
      BY DEF Opened
    <3>2. <<>> \in Seq(Nat)
      OBVIOUS
    <3>3. QED
      BY <1>1, <3>1, <3>2, RangeGrows
  <2>4. Identity(Opened(rec, i)) = Identity(rec)
    BY DEF Opened, Identity
  <2>5. Apart(flows')
    BY <1>3, <2>1, <2>4 DEF Apart
  <2> HIDE DEF i
  <2>6. QED
    BY <1>2, <2>1, <2>2, <2>3, <2>5 DEF i
<1>4. CASE found # {} /\ Part(r.txt, 14) # 0
  <2>1. flows' = flows
    BY <1>4 DEF process_emulator_packet
  <2>2. QED
    BY <1>2, <2>1
<1>5. CASE found # {} /\ Part(r.txt, 14) = 0
  <2>1. flows' = (flows \ found) \cup {Updated(x, rec, n, i) : x \in found}
    BY <1>5 DEF process_emulator_packet
  <2>2. ASSUME NEW x \in found
        PROVE  /\ FlowGood(Updated(x, rec, n, i), p)
               /\ Range(Updated(x, rec, n, i).ids) = Range(x.ids) \cup {i}
               /\ Identity(Updated(x, rec, n, i)) = Identity(rec)
    <3>1. x \in flows /\ FlowGood(x, p) /\ Identity(x) = Identity(rec)
      OBVIOUS
    <3>2. p[i].p = TCP /\ p[i].flags # SEP => i \notin Range(x.ids)
      BY <1>5, <3>1 DEF InFlow
    <3> HIDE DEF i, n
    <3>3. FlowGood(Updated(x, rec, n, i), p)
      BY <1>1, <3>1, <3>2, UpdatedGood
    <3>4. x \in FlowRecs /\ rec \in Records /\ n \in {1, 2} /\ x.ids \in Seq(Nat)
      BY <1>1, <3>1, SideIs DEF FlowGood, FlowRecs, Reads
    <3>5. Counted(Updated(x, rec, n, i), x, rec, n, i)
      BY <1>1, <3>4, UpdatedIs
    <3>6. Updated(x, rec, n, i).ids = Append(x.ids, i)
      BY <3>5 DEF Counted
    <3>7. Identity(Updated(x, rec, n, i)) = Identity(rec)
      BY <3>1, <3>5 DEF Counted, Identity
    <3>8. QED
      BY <1>1, <3>3, <3>4, <3>6, <3>7, RangeGrows
  <2>3. ASSUME NEW y \in flows'
        PROVE  FlowGood(y, p) /\ \A k \in Range(y.ids) : k = i \/ InFlow(k, flows)
    <3>1. CASE y \in flows
      BY <1>2, <3>1
    <3>2. CASE y \notin flows
      <4>1. PICK x \in found : y = Updated(x, rec, n, i)
        BY <2>1, <3>2
      <4>2. x \in flows
        OBVIOUS
      <4> HIDE DEF i, n, found
      <4>3. QED
        BY <1>2, <2>2, <4>1, <4>2
    <3>3. QED
      BY <3>1, <3>2
  <2>4. Apart(flows')
    <3>1. \A x, y \in found : x = y
      BY DEF Apart
    <3>2. \A y \in flows' : \/ y \in flows /\ Identity(y) # Identity(rec)
                           \/ \E x \in found : y = Updated(x, rec, n, i)
      BY <2>1
    <3> HIDE DEF i, n, found
    <3>3. QED
      BY <2>2, <3>1, <3>2 DEF Apart
  <2>5. QED
    BY <2>3, <2>4
<1>6. QED
  BY <1>3, <1>4, <1>5

(* softflowd takes a report.                                               *)
LEMMA AcceptStep ==
    ASSUME WireInd, Accept
    PROVE  WireInd'
<1> DEFINE r == net[1]
<1>1. /\ net # <<>> /\ net' = Tail(net) /\ UNCHANGED <<played, held, hop, exported>>
      /\ IF Parses(Head(net).txt)
         THEN /\ \E rec \in emulator_ipv4_to_flowrec(Head(net).txt) :
                   process_emulator_packet(Head(net).txt, rec, Head(net).id)
              /\ UNCHANGED bad
         ELSE bad' = bad + 1 /\ UNCHANGED flows
  BY DEF Accept
<1>2. /\ played \in Seq(Frames) /\ 1 \in 1..Len(net) /\ Head(net) = r
      /\ \A x \in flows : FlowGood(x, played)
      /\ Apart(flows)
  BY <1>1 DEF WireInd, WireType, NetInv, FlowInv
<1>3. ReportGood(r, played) /\ Fresh(1, net, flows, played)
  BY <1>2 DEF WireInd, NetInv
<1>4. Parses(r.txt)
  BY <1>2, <1>3, ReportRead
<1>5. /\ bad' = bad
      /\ \E rec \in emulator_ipv4_to_flowrec(r.txt) : process_emulator_packet(r.txt, rec, r.id)
  BY <1>1, <1>2, <1>4
<1>6. PICK rec \in emulator_ipv4_to_flowrec(r.txt) : process_emulator_packet(r.txt, rec, r.id)
  BY <1>5
<1>7. played[r.id].p = TCP /\ played[r.id].flags # SEP /\ Part(r.txt, 14) = 0
        => ~InFlow(r.id, flows)
  BY <1>3 DEF Fresh
<1> HIDE DEF r
<1>8. /\ \A y \in flows' : FlowGood(y, played)
      /\ \A y \in flows' : \A i \in Range(y.ids) : i = r.id \/ InFlow(i, flows)
      /\ Apart(flows')
  BY <1>2, <1>3, <1>6, <1>7, ProcessedGood
<1>9. NetInv' /\ HeldGood(held, net', flows', played)
  BY <1>1, <1>8, TakenStep DEF r
<1>10. FlowInv' /\ WireType'
  BY <1>1, <1>5, <1>8 DEF WireInd, FlowInv, WireType
<1>11. QED
  BY <1>1, <1>9, <1>10 DEF WireInd

(* A report is lost or passed over.                                        *)
LEMMA DiscardStep ==
    ASSUME WireInd, Discard
    PROVE  WireInd'
<1>1. /\ net # <<>> /\ net' = Tail(net)
      /\ UNCHANGED <<played, held, hop, flows, exported, bad>>
  BY DEF Discard
<1>2. \A y \in flows' : \A i \in Range(y.ids) : i = net[1].id \/ InFlow(i, flows)
  BY <1>1 DEF InFlow
<1>3. NetInv' /\ HeldGood(held, net', flows', played)
  BY <1>1, <1>2, TakenStep
<1>4. FlowInv' /\ WireType'
  BY <1>1 DEF WireInd, FlowInv, WireType
<1>5. QED
  BY <1>1, <1>3, <1>4 DEF WireInd

(* A flow expires.                                                         *)
LEMMA ExpireStep ==
    ASSUME WireInd, NEW x \in flows, Expire(x)
    PROVE  WireInd'
<1>1. /\ flows' = flows \ {x} /\ exported' = Append(exported, x)
      /\ UNCHANGED <<played, held, hop, net, bad>>
  BY DEF Expire
<1>2. FlowGood(x, played) /\ x \in FlowRecs /\ exported \in Seq(FlowRecs)
  BY DEF WireInd, FlowInv, FlowGood
<1>3. FlowInv'
  <2> DEFINE L == Len(exported)
  <2>1. /\ exported' \in Seq(FlowRecs) /\ L \in Nat /\ Len(exported') = L + 1
        /\ exported'[L + 1] = x /\ \A k \in 1..L : exported'[k] = exported[k]
    BY <1>1, <1>2
  <2>2. \A k \in 1..L : FlowGood(exported[k], played)
    BY DEF WireInd, FlowInv
  <2> HIDE DEF L
  <2>3. \A k \in 1..(L + 1) : k \in 1..L \/ k = L + 1
    BY <2>1
  <2>4. \A k \in 1..Len(exported') : FlowGood(exported'[k], played)
    BY <1>2, <2>1, <2>2, <2>3
  <2>5. QED
    BY <1>1, <2>1, <2>4 DEF WireInd, FlowInv, Apart
<1>4. \A i : ~InFlow(i, flows) => ~InFlow(i, flows')
  BY <1>1 DEF InFlow
<1>5. NetInv'
  <2>1. ASSUME NEW k \in 1..Len(net)
        PROVE  ReportGood(net[k], played) /\ Fresh(k, net, flows', played)
    <3>1. ReportGood(net[k], played) /\ Fresh(k, net, flows, played)
      BY DEF WireInd, NetInv
    <3>2. QED
      BY <1>4, <3>1 DEF Fresh
  <2>2. QED
    BY <1>1, <2>1 DEF WireInd, NetInv
<1>6. HeldGood(held, net, flows', played)
  BY <1>4 DEF WireInd, HeldGood
<1>7. QED
  BY <1>1, <1>3, <1>5, <1>6 DEF WireInd, WireType

(* Every step keeps the invariant.                                         *)
LEMMA WireStep == WireInd /\ [WireNext]_wireVars => WireInd'
<1> SUFFICES ASSUME WireInd, [WireNext]_wireVars PROVE WireInd'
  OBVIOUS
<1>1. ASSUME NEW f \in Frames, PlayFrame(f) PROVE WireInd'
  BY <1>1, PlayStep
<1>2. CASE Report
  BY <1>2, ReportStep
<1>3. CASE PassOver
  <2>1. hop' = hop + 1 /\ UNCHANGED <<played, held, net, flows, exported, bad>>
    BY <1>3 DEF PassOver
  <2>2. QED
    BY <2>1 DEF WireInd, WireType, NetInv, FlowInv
<1>4. CASE Arrive
  <2>1. held' = NoPacket /\ UNCHANGED <<played, hop, net, flows, exported, bad>>
    BY <1>4 DEF Arrive
  <2>2. HeldGood(held', net, flows, played)
    BY <2>1 DEF HeldGood
  <2>3. QED
    BY <2>1, <2>2 DEF WireInd, WireType, NetInv, FlowInv
<1>5. CASE Accept
  BY <1>5, AcceptStep
<1>6. CASE Discard
  BY <1>6, DiscardStep
<1>7. ASSUME NEW x \in flows, Expire(x) PROVE WireInd'
  BY <1>7, ExpireStep
<1>8. CASE UNCHANGED wireVars
  BY <1>8 DEF wireVars, WireInd, WireType, NetInv, FlowInv
<1>9. QED
  BY <1>1, <1>2, <1>3, <1>4, <1>5, <1>6, <1>7, <1>8 DEF WireNext

(* The flow of softflowd's own capture of a whole TCP frame, and that of   *)
(* the text, which has the two bytes of a port the other way round.        *)
LEMMA CapturedIdentity ==
    ASSUME NEW f \in Frames, f.p = TCP, Whole(f)
    PROVE  LET own == ipv4_to_flowrec(f) IN
           EmulatedIdentity(f) = <<own.addr, own.protocol, <<Swap16(own.port[1]), Swap16(own.port[2])>>>>
<1> DEFINE n == SideOf(f)
           a == Sides(n, f.src, f.dst)
           own == ipv4_to_flowrec(f)
           t == transport_to_flowrec(f, n)
<1>1. own.addr = a /\ own.protocol = f.p /\ own.port = t
  BY DEF ipv4_to_flowrec, SideOf
<1>2. n \in {1, 2}
  BY SideIs
<1>3. t = IF f.off = 0 THEN Sides(n, Swap16(f.sport), Swap16(f.dport)) ELSE <<0, 0>>
  BY DEF transport_to_flowrec, TransportSeen, Whole
<1>4. f.sport \in Under(65536) /\ f.dport \in Under(65536)
  BY FramesAssumption DEF CapturedFrames
<1>5. Swap16(Swap16(f.sport)) = f.sport /\ Swap16(Swap16(f.dport)) = f.dport
  BY <1>4, SwapTwice
<1>6. Swap16(0) = 0
  BY DEF Swap16
<1> DEFINE s == <<Swap16(t[1]), Swap16(t[2])>>
<1>7. s = IF f.off # 0 THEN <<0, 0>> ELSE Sides(n, f.sport, f.dport)
  <2> HIDE DEF t, n
  <2>1. CASE f.off # 0
    BY <1>3, <1>6, <2>1
  <2>2. CASE f.off = 0
    <3>1. n = 1 \/ n = 2
      BY <1>2
    <3>2. QED
      BY <1>3, <1>5, <2>2, <3>1 DEF Sides
  <2>3. QED
    BY <2>1, <2>2
<1> HIDE DEF own, a, t
<1>8. <<Swap16(own.port[1]), Swap16(own.port[2])>> = s
  BY <1>1
<1> HIDE DEF s
<1>9. EmulatedIdentity(f) = <<a, f.p, s>>
  BY <1>7 DEF EmulatedIdentity, a
<1>10. QED
  BY <1>1, <1>8, <1>9 DEF own

(* Whole TCP frames are of one flow of the capture when they are of one    *)
(* flow of the text, and only then.                                        *)
LEMMA SameFlow ==
    ASSUME NEW f \in Frames, NEW g \in Frames, f.p = TCP, g.p = TCP, Whole(f), Whole(g)
    PROVE  Identity(ipv4_to_flowrec(f)) = Identity(ipv4_to_flowrec(g))
             <=> EmulatedIdentity(f) = EmulatedIdentity(g)
<1> DEFINE own(h) == ipv4_to_flowrec(h)
           swap(q) == <<Swap16(q[1]), Swap16(q[2])>>
<1>1. ASSUME NEW h \in {f, g}
      PROVE  /\ Identity(own(h)) = <<own(h).addr, own(h).protocol, own(h).port>>
             /\ EmulatedIdentity(h) = <<own(h).addr, own(h).protocol, swap(own(h).port)>>
             /\ own(h).port \in Under(65536) \X Under(65536)
  <2>1. h \in Frames /\ h.p = TCP /\ Whole(h)
    OBVIOUS
  <2>2. own(h).port = transport_to_flowrec(h, SideOf(h))
    BY DEF ipv4_to_flowrec, SideOf
  <2>3. Swap16(h.sport) \in Under(65536) /\ Swap16(h.dport) \in Under(65536)
    BY <2>1, FramesAssumption, SwapTwice DEF CapturedFrames
  <2>4. 0 \in Under(65536)
    BY DEF Under
  <2>5. own(h).port \in Under(65536) \X Under(65536)
    BY <2>2, <2>3, <2>4 DEF transport_to_flowrec, Sides
  <2>6. Identity(own(h)) = <<own(h).addr, own(h).protocol, own(h).port>>
    BY DEF Identity
  <2>7. QED
    BY <2>1, <2>5, <2>6, CapturedIdentity
<1>2. ASSUME NEW q \in Under(65536) \X Under(65536), NEW r \in Under(65536) \X Under(65536),
             swap(q) = swap(r)
      PROVE  q = r
  <2>1. /\ q[1] \in Under(65536) /\ q[2] \in Under(65536) /\ q = <<q[1], q[2]>>
        /\ r[1] \in Under(65536) /\ r[2] \in Under(65536) /\ r = <<r[1], r[2]>>
    OBVIOUS
  <2>2. Swap16(q[1]) = Swap16(r[1]) /\ Swap16(q[2]) = Swap16(r[2])
    BY <1>2
  <2>3. q[1] = r[1] /\ q[2] = r[2]
    BY <2>1, <2>2, SwapTwice
  <2>4. QED
    BY <2>1, <2>3
<1>3. f \in {f, g} /\ g \in {f, g}
  OBVIOUS
<1> HIDE DEF own, swap
<1>4. own(f).port = own(g).port <=> swap(own(f).port) = swap(own(g).port)
  BY <1>1, <1>2, <1>3
<1>5. QED
  BY <1>1, <1>3, <1>4 DEF own

(* Folding the sum over a function is its Total.                           *)
LEMMA FoldIsTotal ==
    ASSUME NEW S, NEW f \in [S -> Int]
    PROVE  FoldFunction(+, 0, f) = Total(f)
<1>1. DOMAIN f = S
  OBVIOUS
<1>2. QED
  BY <1>1 DEF Total, IsSum, Some, FoldFunction, FoldFunctionOnSet, MapThenFoldSet

(* The invariant says that the flows are as captured.                      *)
LEMMA IndCaptured == WireInd => FlowAsCaptured
<1> SUFFICES ASSUME WireInd PROVE FlowAsCaptured
  OBVIOUS
<1>1. ASSUME NEW x \in AllFlows PROVE FlowGood(x, played)
  <2>1. CASE x \in flows
    BY <2>1 DEF WireInd, FlowInv
  <2>2. CASE x \notin flows
    <3>1. exported \in Seq(FlowRecs) /\ \A k \in 1..Len(exported) : FlowGood(exported[k], played)
      BY DEF WireInd, FlowInv
    <3>2. x \in Range(exported)
      BY <2>2 DEF AllFlows
    <3>3. PICK k \in 1..Len(exported) : x = exported[k]
      BY <3>1, <3>2 DEF Range
    <3>4. QED
      BY <3>1, <3>3
  <2>3. QED
    BY <2>1, <2>2
<1>2. bad = 0 /\ played \in Seq(Frames)
  BY DEF WireInd, WireType
<1>3. \A i \in 1..Len(played) : played[i] \in Frames /\ played[i].len \in Nat
  BY <1>2, PlayedHas
<1>4. ASSUME NEW x \in TcpFlows, NEW i \in Range(x.ids)
      PROVE  /\ played[i] \in Frames /\ played[i].p = TCP
             /\ EmulatedIdentity(played[i]) = Identity(x)
             /\ x.addr = ipv4_to_flowrec(played[i]).addr
  <2>1. x \in AllFlows /\ x.protocol = TCP
    BY DEF TcpFlows
  <2>2. i \in 1..Len(played) /\ EmulatedIdentity(played[i]) = Identity(x)
    BY <1>1, <2>1 DEF FlowGood
  <2>3. played[i].p = TCP /\ x.addr = Sides(SideOf(played[i]), played[i].src, played[i].dst)
    BY <2>1, <2>2 DEF EmulatedIdentity, Identity
  <2>4. QED
    BY <1>3, <2>2, <2>3 DEF ipv4_to_flowrec, SideOf
<1>5. ASSUME NEW x \in TcpFlows, NEW y \in TcpFlows, NEW i \in WholeIds(x), NEW j \in WholeIds(y)
      PROVE  Captured(i) = Captured(j) <=> Identity(x) = Identity(y)
  <2>1. i \in Range(x.ids) /\ j \in Range(y.ids) /\ Whole(played[i]) /\ Whole(played[j])
    BY DEF WholeIds
  <2>2. QED
    BY <1>4, <2>1, SameFlow DEF Captured
<1>6. ASSUME NEW x \in TcpFlows \cap flows, NEW y \in TcpFlows \cap flows,
             NEW i \in WholeIds(x), NEW j \in WholeIds(y), Captured(i) = Captured(j)
      PROVE  x = y
  BY <1>5, <1>6 DEF WireInd, FlowInv, Apart
<1>7. ASSUME NEW x \in TcpFlows
      PROVE  /\ ~Hash(x) =>
                  /\ IsInjective(x.ids)
                  /\ \A d \in 1..2 : /\ x.packets[d] = Cardinality(From(x, d))
                                     /\ x.octets[d] = SumOfLengths(From(x, d))
                                     /\ x.tcp_flags[d] = FlagsOf(From(x, d))
             /\ \A d \in 1..2 : /\ x.as_src[d] \in {0, AsOf[x.addr[d]]}
                                /\ x.as_dst[d] \in {0, AsOf[x.addr[d]]}
  <2>1. /\ \A i \in Range(x.ids) : i \in 1..Len(played)
        /\ NoHash(x, played) =>
             IsInjective(x.ids) /\ \A d \in {1, 2} : Counts(x, played, d)
        /\ \A d \in {1, 2} : AsRight(x, d)
    BY <1>1 DEF FlowGood, TcpFlows
  <2>2. ~Hash(x) => NoHash(x, played)
    BY DEF Hash, NoHash
  <2>3. \A d \in 1..2 : d \in {1, 2}
    OBVIOUS
  <2>4. ASSUME NEW d \in 1..2, Counts(x, played, d)
        PROVE  /\ x.packets[d] = Cardinality(From(x, d))
               /\ x.octets[d] = SumOfLengths(From(x, d))
               /\ x.tcp_flags[d] = FlagsOf(From(x, d))
    <3> DEFINE I == From(x, d)
               g == [i \in I |-> played[i].len]
    <3>1. I = CountedFrom(x.ids, played, d)
      BY DEF From, CountedFrom, SideOf
    <3>2. \A i \in I : i \in 1..Len(played)
      BY <2>1 DEF From
    <3> HIDE DEF I
    <3>3. g \in [I -> Int]
      BY <1>3, <3>2
    <3>4. SumOfLengths(I) = FoldFunction(+, 0, g)
      BY DEF SumOfLengths
    <3>5. LengthOf(I, played) = Total(g)
      BY DEF LengthOf
    <3> HIDE DEF g
    <3>6. FoldFunction(+, 0, g) = Total(g)
      BY <3>3, FoldIsTotal
    <3>7. FlagsOf(I) = BitsOf(I, played)
      BY DEF FlagsOf, BitsOf
    <3>8. /\ x.packets[d] = Cardinality(I) /\ x.octets[d] = LengthOf(I, played)
          /\ x.tcp_flags[d] = BitsOf(I, played)
      BY <2>4, <3>1 DEF Counts
    <3>9. QED
      BY <3>4, <3>5, <3>6, <3>7, <3>8 DEF I
  <2>5. \A d \in 1..2 : /\ x.as_src[d] \in {0, AsOf[x.addr[d]]}
                        /\ x.as_dst[d] \in {0, AsOf[x.addr[d]]}
    BY <2>1, <2>3 DEF AsRight
  <2>6. QED
    BY <2>1, <2>2, <2>3, <2>4, <2>5
<1>8. QED
  BY <1>2, <1>4, <1>5, <1>6, <1>7 DEF FlowAsCaptured

(***************************************************************************)
(* Whatever frames are played, monitors report, reports are lost and flows *)
(* expire, the text keeps the TCP packets in the flows that a capture      *)
(* would put them in, up to the value of the ports, and a flow counts      *)
(* every one of its packets once; a flow that is opened anew after the     *)
(* first has expired may count a packet of that one again.                 *)
(***************************************************************************)
THEOREM CapturedCorrect == WireSpec => []FlowAsCaptured
<1>1. WireInit => WireInd
  BY WireStart
<1>2. WireInd /\ [WireNext]_wireVars => WireInd'
  BY WireStep
<1>3. WireInd => FlowAsCaptured
  BY IndCaptured
<1>4. QED
  BY <1>1, <1>2, <1>3, PTL DEF WireSpec

=============================================================================
