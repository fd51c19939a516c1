------------------------------ MODULE Sampling ------------------------------
(***************************************************************************)
(* The packet sampler of softflowd (SamplingModule.c), which NSP's Router  *)
(* repeats almost line for line (Router.cpp).  Every monitor has a         *)
(* SamplingNode: a rate P1/P2, a table of P2 random bits, an axis into     *)
(* that table and a semaphore.  Two threads meet in it:                    *)
(*                                                                         *)
(*   - the packet thread calls RandomPeriodicNodeSampling for every packet *)
(*     and takes the semaphore up to three times for one decision;         *)
(*   - the control thread (ControlServer.c, SamplingManager.cpp) answers   *)
(*     one TCP request at a time and may replace the rate in between.      *)
(*                                                                         *)
(* What a thread does between sem_wait and sem_post of one node is one     *)
(* action here: every field of a finished node is only accessed there.     *)
(* The exception is AddNode, which links a node into the list before it is *)
(* filled in; a thread that meets such a node has undefined behaviour, and *)
(* the model records it in ub and stops.                                   *)
(***************************************************************************)
EXTENDS Integers, Sequences, FiniteSets

CONSTANTS
    Monitors,     \* the interface addresses packets and requests may name
    Rates,        \* the pairs <<p1, p2>> a control packet may carry
    InitialP1,    \* the rate of a new node: 100/100 in softflowd,
    InitialP2,    \* 1/100 in NSP
    Distinct      \* TRUE: the draw of Router.cpp, without replacement

(* ControlServer.c passes atoi of the request on unchecked; the client     *)
(* (ClientController.c, ValidateSamplingRate) sends no negative number.    *)
ASSUME SamplingAssumption ==
    /\ Monitors # {}
    /\ Rates # {}
    /\ Rates \subseteq Nat \X Nat
    /\ InitialP1 \in Nat
    /\ InitialP2 \in Nat
    /\ Distinct \in BOOLEAN

(* samplingTab = NULL *)
Null == [i \in {} |-> 0]

(* what RandomPeriodicNodeSampling returns when control runs off its end   *)
Undefined == 2

VARIABLES
    listNodes,             \* the linked list of nodes, in list order
    built,                 \* how much of the node exists: see AddNode
    samplingRateP1,
    samplingRateP2,
    samplingRateChanged,
    samplingRateAxis,
    samplingTab,           \* a function on 0 .. size-1
    sem,
    pkt,                   \* the packet thread: where it is, for which node
    ret,                   \* its last decision
    ctl,                   \* the control thread and its request
    ack,                   \* the last answer of the control thread
    ub,                    \* a half-built node was read
    taken                  \* history: packets taken since the table was drawn

rateVars == <<samplingRateP1, samplingRateP2, samplingRateChanged>>
tabVars == <<samplingRateAxis, samplingTab, taken>>
listVars == <<listNodes, built>>
vars == <<listVars, rateVars, tabVars, sem, pkt, ret, ctl, ack, ub>>

PktPc == {"idle", "linked", "named", "status", "init", "decide"}
CtlPc == {"idle", "find", "change"}
Stages == {"absent", "linked", "named", "ready"}

(* A thread that waits for its next packet or request; ip, pos and rate    *)
(* mean nothing then.                                                      *)
PktIdle == [pc |-> "idle", ip |-> CHOOSE m \in Monitors : TRUE]
CtlIdle == [pc |-> "idle", ip |-> CHOOSE m \in Monitors : TRUE, pos |-> 1,
            rate |-> CHOOSE r \in Rates : TRUE]

Init ==
    /\ listNodes = <<>>
    /\ built = [m \in Monitors |-> "absent"]
    /\ samplingRateP1 = [m \in Monitors |-> InitialP1]
    /\ samplingRateP2 = [m \in Monitors |-> InitialP2]
    /\ samplingRateChanged = [m \in Monitors |-> 1]
    /\ samplingRateAxis = [m \in Monitors |-> 0]
    /\ samplingTab = [m \in Monitors |-> Null]
    /\ sem = [m \in Monitors |-> 1]
    /\ pkt = PktIdle
    /\ ret = 0
    /\ ctl = CtlIdle
    /\ ack = "none"
    /\ ub = FALSE
    /\ taken = [m \in Monitors |-> 0]

-----------------------------------------------------------------------------
(* The packet thread *)

(* GetSamplingNode finds the node.  The packet thread is the only one that *)
(* adds nodes, so its own walk meets none that is half built.              *)
GetSamplingNode(m) ==
    /\ ~ub
    /\ pkt.pc = "idle"
    /\ built[m] = "ready"
    /\ pkt' = [pc |-> "status", ip |-> m]
    /\ ret' = 0
    /\ UNCHANGED <<listVars, rateVars, tabVars, sem, ctl, ack, ub>>

(* GetSamplingNode finds none and AddNode allocates one.  The address of   *)
(* the node is stored into the list before any of its fields.              *)
AddNodeLink(m) ==
    /\ ~ub
    /\ pkt.pc = "idle"
    /\ built[m] = "absent"
    /\ listNodes' = Append(listNodes, m)
    /\ built' = [built EXCEPT ![m] = "linked"]
    /\ pkt' = [pc |-> "linked", ip |-> m]
    /\ ret' = 0
    /\ UNCHANGED <<rateVars, tabVars, sem, ctl, ack, ub>>

(* ... the fields up to and including ipAddr ...                           *)
AddNodeName ==
    /\ ~ub
    /\ pkt.pc = "linked"
    /\ LET m == pkt.ip IN
        /\ built' = [built EXCEPT ![m] = "named"]
        /\ samplingRateP1' = [samplingRateP1 EXCEPT ![m] = InitialP1]
        /\ samplingRateP2' = [samplingRateP2 EXCEPT ![m] = InitialP2]
        /\ samplingRateChanged' = [samplingRateChanged EXCEPT ![m] = 1]
        /\ samplingRateAxis' = [samplingRateAxis EXCEPT ![m] = 0]
        /\ samplingTab' = [samplingTab EXCEPT ![m] = Null]
    /\ pkt' = [pkt EXCEPT !.pc = "named"]
    /\ UNCHANGED <<listNodes, taken, sem, ret, ctl, ack, ub>>

(* ... then sem_init and, except in the first node of the list, next.      *)
AddNodeReady ==
    /\ ~ub
    /\ pkt.pc = "named"
    /\ built' = [built EXCEPT ![pkt.ip] = "ready"]
    /\ sem' = [sem EXCEPT ![pkt.ip] = 1]
    /\ pkt' = [pkt EXCEPT !.pc = "status"]
    /\ UNCHANGED <<listNodes, rateVars, tabVars, ret, ctl, ack, ub>>

(* First critical section: has the rate changed?                           *)
GetNodeSamplingRateStatus ==
    /\ ~ub
    /\ pkt.pc = "status"
    /\ sem[pkt.ip] = 1
    /\ pkt' = [pkt EXCEPT !.pc = IF samplingRateChanged[pkt.ip] = 1
                                 THEN "init" ELSE "decide"]
    /\ UNCHANGED <<listVars, rateVars, tabVars, sem, ret, ctl, ack, ub>>

(* Second critical section: start a new window.                            *)
InitNodeSamplingRateStatus ==
    /\ ~ub
    /\ pkt.pc = "init"
    /\ sem[pkt.ip] = 1
    /\ samplingRateAxis' = [samplingRateAxis EXCEPT ![pkt.ip] = 0]
    /\ pkt' = [pkt EXCEPT !.pc = "decide"]
    /\ UNCHANGED <<listVars, rateVars, samplingTab, taken, sem, ret, ctl, ack, ub>>

(* Third critical section: one action per branch of the decision.  Every   *)
(* branch but the last of RandomPeriodicNodeSampling ends with sem_post.   *)
Decide(d) ==
    /\ ~ub
    /\ pkt.pc = "decide"
    /\ sem[pkt.ip] = 1
    /\ pkt' = PktIdle
    /\ ret' = d
    /\ UNCHANGED <<listVars, ctl, ack, ub>>

(* Mutated form: this branch forgets sem_post.                             *)
TakeNone_NoPost ==
    /\ samplingRateP1[pkt.ip] = 0
    /\ Decide(0)
    /\ sem' = [sem EXCEPT ![pkt.ip] = 0]
    /\ UNCHANGED <<rateVars, tabVars>>

TakeNone ==
    /\ samplingRateP1[pkt.ip] = 0
    /\ Decide(0)
    /\ UNCHANGED <<rateVars, tabVars, sem>>

TakeAll ==
    /\ samplingRateP1[pkt.ip] # 0
    /\ samplingRateP1[pkt.ip] = samplingRateP2[pkt.ip]
    /\ Decide(1)
    /\ UNCHANGED <<rateVars, tabVars, sem>>

InvalidRate ==
    /\ samplingRateP1[pkt.ip] > samplingRateP2[pkt.ip]
    /\ Decide(0)
    /\ UNCHANGED <<rateVars, tabVars, sem>>

(* 0 < P1 < P2: the decision comes from the table                          *)
Periodic ==
    /\ samplingRateP1[pkt.ip] # 0
    /\ samplingRateP1[pkt.ip] < samplingRateP2[pkt.ip]

(* Mutated form: the loop draws once more than P1.                         *)
Draws_OneMore(p1, p2) ==
    {S \in SUBSET (0 .. p2 - 1) : Cardinality(S) \in 1 .. p1 + 1}

(* Mutated form: an index drawn twice is not drawn again.                  *)
Draws_Repeated(p1, p2) ==
    {S \in SUBSET (0 .. p2 - 1) : Cardinality(S) \in 1 .. p1}

(* The sets of indexes p1 calls of rand() % p2 can set.  softflowd may hit *)
(* an index twice, Router.cpp draws again until the index is a new one.    *)
Draws(p1, p2) ==
    {S \in SUBSET (0 .. p2 - 1) :
        Cardinality(S) \in IF Distinct THEN {p1} ELSE 1 .. p1}

(* GenerateRandomChoicesForNode(sn) when the draw is S: a new table when   *)
(* the rate has changed, the old one cleared and refilled otherwise.       *)
Generate(m, S) ==
    /\ samplingTab' = [samplingTab EXCEPT ![m] =
            [i \in IF samplingRateChanged[m] = 1
                   THEN 0 .. samplingRateP2[m] - 1 ELSE DOMAIN @
                |-> IF i \in S THEN 1 ELSE 0]]
    /\ samplingRateChanged' = [samplingRateChanged EXCEPT ![m] = 0]

(* axis = 0: draw a table and use its first entry                          *)
StartWindow ==
    LET m == pkt.ip IN
    /\ Periodic
    /\ samplingRateAxis[m] = 0
    /\ \E S \in Draws(samplingRateP1[m], samplingRateP2[m]) :
        /\ Generate(m, S)
        /\ Decide(samplingTab'[m][0])
        /\ taken' = [taken EXCEPT ![m] = samplingTab'[m][0]]
    /\ samplingRateAxis' = [samplingRateAxis EXCEPT ![m] = 1]
    /\ UNCHANGED <<samplingRateP1, samplingRateP2, sem>>

(* 0 < axis < P2 - 1: use the next entry                                   *)
InWindow ==
    LET m == pkt.ip IN
    /\ Periodic
    /\ samplingRateAxis[m] # 0
    /\ samplingRateAxis[m] < samplingRateP2[m] - 1
    /\ Decide(samplingTab[m][samplingRateAxis[m]])
    /\ taken' = [taken EXCEPT ![m] = @ + samplingTab[m][samplingRateAxis[m]]]
    /\ samplingRateAxis' = [samplingRateAxis EXCEPT ![m] = @ + 1]
    /\ UNCHANGED <<rateVars, samplingTab, sem>>

(* Mutated form: the axis is not reset.                                    *)
EndWindow_NoReset ==
    LET m == pkt.ip IN
    /\ Periodic
    /\ samplingRateAxis[m] # 0
    /\ samplingRateAxis[m] = samplingRateP2[m] - 1
    /\ Decide(samplingTab[m][samplingRateAxis[m]])
    /\ taken' = [taken EXCEPT ![m] = @ + samplingTab[m][samplingRateAxis[m]]]
    /\ samplingRateAxis' = [samplingRateAxis EXCEPT ![m] = @ + 1]
    /\ UNCHANGED <<rateVars, samplingTab, sem>>

(* axis = P2 - 1: use the last entry and wrap around                       *)
EndWindow ==
    LET m == pkt.ip IN
    /\ Periodic
    /\ samplingRateAxis[m] # 0
    /\ samplingRateAxis[m] = samplingRateP2[m] - 1
    /\ Decide(samplingTab[m][samplingRateAxis[m]])
    /\ taken' = [taken EXCEPT ![m] = @ + samplingTab[m][samplingRateAxis[m]]]
    /\ samplingRateAxis' = [samplingRateAxis EXCEPT ![m] = 0]
    /\ UNCHANGED <<rateVars, samplingTab, sem>>

(* axis > P2 - 1: no branch applies.  The function ends without sem_post   *)
(* and without a return value.                                             *)
PastWindow ==
    LET m == pkt.ip IN
    /\ Periodic
    /\ samplingRateAxis[m] > samplingRateP2[m] - 1
    /\ Decide(Undefined)
    /\ sem' = [sem EXCEPT ![m] = 0]
    /\ UNCHANGED <<rateVars, tabVars>>

RandomPeriodicNodeSampling ==
    \/ TakeNone \/ TakeAll \/ InvalidRate
    \/ StartWindow \/ InWindow \/ EndWindow \/ PastWindow

PacketThread ==
    \/ AddNodeName \/ AddNodeReady
    \/ GetNodeSamplingRateStatus \/ InitNodeSamplingRateStatus
    \/ RandomPeriodicNodeSampling

-----------------------------------------------------------------------------
(* The control thread *)

(* HandleTCPClient reads a request P1#P2#ip.                               *)
HandleTCPClient(m, rate) ==
    /\ ~ub
    /\ ctl.pc = "idle"
    /\ ctl' = [pc |-> "find", ip |-> m, pos |-> 1, rate |-> rate]
    /\ ack' = "none"
    /\ UNCHANGED <<listVars, rateVars, tabVars, sem, pkt, ret, ub>>

(* One round of the loop of FindSamplingNode looks at the node at pos.     *)
AtNode == ctl.pos <= Len(listNodes)
Stage == built[listNodes[ctl.pos]]
Match == Stage # "linked" /\ listNodes[ctl.pos] = ctl.ip

(* next is written last, and first only in the head of the list            *)
NextUnset == Stage = "linked" \/ (Stage = "named" /\ ctl.pos # 1)

FindMatch ==
    /\ ~ub
    /\ ctl.pc = "find"
    /\ AtNode /\ Match /\ Stage = "ready"
    /\ ctl' = [ctl EXCEPT !.pc = "change"]
    /\ UNCHANGED <<listVars, rateVars, tabVars, sem, pkt, ret, ack, ub>>

FindNext ==
    /\ ~ub
    /\ ctl.pc = "find"
    /\ AtNode /\ ~Match /\ ~NextUnset
    /\ ctl' = [ctl EXCEPT !.pos = @ + 1]
    /\ UNCHANGED <<listVars, rateVars, tabVars, sem, pkt, ret, ack, ub>>

(* The walk ends at a NULL pointer: the end of the list, or what happens   *)
(* to stand in the unset next of a half-built node.                        *)
FindNone ==
    /\ ~ub
    /\ ctl.pc = "find"
    /\ \/ ~AtNode
       \/ AtNode /\ ~Match /\ NextUnset
    /\ ctl' = CtlIdle
    /\ ack' = "error"
    /\ UNCHANGED <<listVars, rateVars, tabVars, sem, pkt, ret, ub>>

(* The walk follows a wild pointer, or waits on a semaphore before         *)
(* sem_init has run on it.                                                 *)
FindHalfBuilt ==
    /\ ~ub
    /\ ctl.pc = "find"
    /\ AtNode
    /\ \/ ~Match /\ NextUnset
       \/ Match /\ Stage = "named"
    /\ ub' = TRUE
    /\ UNCHANGED <<listVars, rateVars, tabVars, sem, pkt, ret, ctl, ack>>

(* Mutated form: the flag is counted up instead of set.                    *)
ChangeSamplingRateInNode_Count ==
    /\ ~ub
    /\ ctl.pc = "change"
    /\ sem[ctl.ip] = 1
    /\ samplingRateP1' = [samplingRateP1 EXCEPT ![ctl.ip] = ctl.rate[1]]
    /\ samplingRateP2' = [samplingRateP2 EXCEPT ![ctl.ip] = ctl.rate[2]]
    /\ samplingRateChanged' = [samplingRateChanged EXCEPT ![ctl.ip] = @ + 1]
    /\ ctl' = CtlIdle
    /\ ack' = "updated"
    /\ UNCHANGED <<listVars, tabVars, sem, pkt, ret, ub>>

(* Mutated form: samplingRateChanged is not raised.                        *)
ChangeSamplingRateInNode_Silent ==
    /\ ~ub
    /\ ctl.pc = "change"
    /\ sem[ctl.ip] = 1
    /\ samplingRateP1' = [samplingRateP1 EXCEPT ![ctl.ip] = ctl.rate[1]]
    /\ samplingRateP2' = [samplingRateP2 EXCEPT ![ctl.ip] = ctl.rate[2]]
    /\ ctl' = CtlIdle
    /\ ack' = "updated"
    /\ UNCHANGED <<listVars, samplingRateChanged, tabVars, sem, pkt, ret, ub>>

ChangeSamplingRateInNode ==
    /\ ~ub
    /\ ctl.pc = "change"
    /\ sem[ctl.ip] = 1
    /\ samplingRateP1' = [samplingRateP1 EXCEPT ![ctl.ip] = ctl.rate[1]]
    /\ samplingRateP2' = [samplingRateP2 EXCEPT ![ctl.ip] = ctl.rate[2]]
    /\ samplingRateChanged' = [samplingRateChanged EXCEPT ![ctl.ip] = 1]
    /\ ctl' = CtlIdle
    /\ ack' = "updated"
    /\ UNCHANGED <<listVars, tabVars, sem, pkt, ret, ub>>

ControlThread ==
    \/ FindMatch \/ FindNext \/ FindNone \/ FindHalfBuilt
    \/ ChangeSamplingRateInNode

-----------------------------------------------------------------------------

Next ==
    \/ \E m \in Monitors : GetSamplingNode(m) \/ AddNodeLink(m)
    \/ PacketThread
    \/ \E m \in Monitors, rate \in Rates : HandleTCPClient(m, rate)
    \/ ControlThread

Spec == Init /\ [][Next]_vars

(* The operating system runs both threads; neither waits for the other     *)
(* while it holds a semaphore.  Packets and requests need not come.        *)
FairSpec == Spec /\ WF_vars(PacketThread) /\ WF_vars(ControlThread)

-----------------------------------------------------------------------------
(* Properties *)

(* The counters and the semaphore of a node keep their types through       *)
(* AddNode, ChangeSamplingRateInNode and the sampling itself; the entries  *)
(* of samplingTab are decisions.                                           *)
TypeOK ==
    /\ listNodes \in Seq(Monitors)
    /\ built \in [Monitors -> Stages]
    /\ samplingRateP1 \in [Monitors -> Nat]
    /\ samplingRateP2 \in [Monitors -> Nat]
    /\ samplingRateChanged \in [Monitors -> {0, 1}]
    /\ samplingRateAxis \in [Monitors -> Nat]
    /\ samplingTab = [m \in Monitors |-> samplingTab[m]]
    /\ \A m \in Monitors :
        /\ DOMAIN samplingTab[m] \subseteq Nat
        /\ \A i \in DOMAIN samplingTab[m] : samplingTab[m][i] \in {0, 1}
    /\ sem \in [Monitors -> {0, 1}]
    /\ pkt \in [pc : PktPc, ip : Monitors]
    /\ ret \in {0, 1, Undefined}
    /\ ctl \in [pc : CtlPc, ip : Monitors, pos : Nat \ {0}, rate : Rates]
    /\ ack \in {"none", "updated", "error"}
    /\ ub \in BOOLEAN
    /\ taken \in [Monitors -> Nat]

(* Whatever rate changes fall between the critical sections of one packet, *)
(* samplingTab is only indexed inside its allocation: by the axis in the   *)
(* third section of RandomPeriodicNodeSampling, and by every index below   *)
(* P2 when GenerateRandomChoicesForNode refills a table it has not         *)
(* reallocated.                                                            *)
TableReadInBounds ==
    \A m \in Monitors :
        /\ (pkt.pc = "decide" /\ pkt.ip = m) =>
               \/ samplingRateAxis[m] = 0
               \/ samplingRateAxis[m] \in DOMAIN samplingTab[m]
        /\ samplingRateChanged[m] = 0 =>
               DOMAIN samplingTab[m] = 0 .. samplingRateP2[m] - 1

(* A window of P2 packets during which the rate was not changed has taken  *)
(* at least one packet and at most P1 of them.                             *)
WindowQuota ==
    \A m \in Monitors :
        (samplingRateChanged[m] = 0 /\ samplingRateAxis[m] = 0) =>
            taken[m] \in 1 .. samplingRateP1[m]

(* NSP's draw without replacement: such a window takes exactly P1 packets, *)
(* as the comment "We take samplingRateP1 packets over samplingRateP2" in  *)
(* Router::RandomPeriodicNodeSampling says.                                *)
WindowExact ==
    \A m \in Monitors :
        (samplingRateChanged[m] = 0 /\ samplingRateAxis[m] = 0) =>
            taken[m] = samplingRateP1[m]

(* No call of RandomPeriodicNodeSampling leaves the semaphore of its node  *)
(* taken.                                                                  *)
LockReleased ==
    \A m \in Monitors : built[m] = "ready" => sem[m] = 1

(* RandomPeriodicNodeSampling decides every packet it is called for, and   *)
(* the control thread answers every request, however the two threads meet  *)
(* on the semaphore of a node.                                             *)
NobodyStuck ==
    /\ pkt.pc # "idle" ~> (pkt.pc = "idle" \/ ub)
    /\ ctl.pc # "idle" ~> (ctl.pc = "idle" \/ ub)

=============================================================================
