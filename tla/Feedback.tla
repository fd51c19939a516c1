------------------------------ MODULE Feedback ------------------------------
(***************************************************************************)
(* The feedback loop of flowd.  The collector hands every record to        *)
(* Add_flow under semFlows; the Estimation thread (GlobalEstimation.c)     *)
(* waits for a minute of the Compteur thread or for too many records,      *)
(* estimates the records it saw, gives every monitor a new sampling rate   *)
(* over TCP (ClientController.c, SamplingManager.cpp) and frees the        *)
(* records.  Only the freeing holds semFlows: compteur, overhead, taille   *)
(* and the lists are read and reset without it.                            *)
(*                                                                         *)
(* A list of records is a sequence: flow_list is its first element,        *)
(* AddFlow its last one and PicFlow_End the position picEnd.               *)
(***************************************************************************)
EXTENDS Integers, Sequences, FiniteSets, SequencesExt

CONSTANTS NbCouples,        \* NOMBRE_AS * NOMBRE_AS, in the order of the loops
          NbMonitors,       \* NOMBRE_MONITEURS
          Sources,          \* the couple, 5-tuple and monitor a record may have
          Threshold,        \* threshold, records that mean overhead
          Period,           \* the 60 seconds of an estimation
          MaxRecords,       \* bound: records received
          Fine,             \* flowd's rates are Fine times finer than requests
          MinRate, MaxRate, \* minSR and maxSR
          ConfInit,         \* conf_init
          InitialRate       \* INITIAL_SAMPLING_RATE_P1 of P2

Couples  == 1..NbCouples
Keys     == {s[2] : s \in Sources}
Monitors == 1..NbMonitors
Whole == MaxRate \div Fine + 1   \* p22

ASSUME FeedbackAssumption ==
    /\ {NbCouples, NbMonitors, Threshold, Period, Fine, MinRate} \subseteq Nat \ {0}
    /\ \A s \in Sources : s[1] \in Couples /\ s[3] \in Monitors
    /\ MaxRecords \in Nat /\ MaxRate \in Nat /\ MinRate <= MaxRate
    /\ ConfInit \in MinRate..MaxRate
    /\ InitialRate \in 1..(MaxRate \div Fine)

VARIABLES main,      \* where Add_flow is
          received,  \* records received so far
          started,   \* thrd
          flows,     \* the list of every couple
          picEnd,    \* PicFlow_End of every couple, 0 for NULL
          first,     \* records already used when the list was looked at
          taille, overhead, compteur, sizeval,
          tick,      \* the value the Compteur thread increments, or NONE
          est,       \* where the Estimation thread is, "hung" in a read() for ever
          at,        \* the couple or the monitor it is at
          localOverhead, localCompteur,
          path,      \* couples whose path is known
          result,    \* the groups of records estimated, by their positions
          observed,  \* monitors that have observations
          lower,     \* monitors the reconfiguration lowers
          rate,      \* les_moniteurs[].sampling_rate
          node,      \* the rate each monitor of NSP uses, or NONE
          acked,     \* monitors whose last request was applied and answered
          alive

NONE == -1

\* The sum of the first n values of an array
SumTo(array, n) ==
    LET sum[i \in 0..n] == IF i = 0 THEN 0 ELSE sum[i - 1] + array[i]
    IN  sum[n]

listVars  == <<main, received, started, flows, taille>>
walkVars  == <<picEnd, first, sizeval, path, result, observed>>
localVars == <<localOverhead, localCompteur>>
rateVars  == <<lower, rate, node, acked>>
vars == <<listVars, walkVars, localVars, rateVars, overhead, compteur, tick, est, at, alive>>

remplir_topologie == [c \in Couples |-> <<>>]
remplir_les_moniteurs == [m \in Monitors |-> ConfInit]

Init ==
    /\ main = "idle" /\ received = 0 /\ started = FALSE
    /\ flows = remplir_topologie
    /\ picEnd = [c \in Couples |-> 0] /\ first = [c \in Couples |-> 0]
    /\ taille = 0 /\ overhead = 0 /\ compteur = 0 /\ sizeval = 0
    /\ tick = NONE /\ est = "test" /\ at = 1
    /\ localOverhead = 0 /\ localCompteur = 0
    /\ path = {} /\ result = remplir_topologie
    /\ observed = {} /\ lower = {}
    /\ rate = remplir_les_moniteurs
    /\ node = [m \in Monitors |-> NONE]
    /\ acked = {} /\ alive = TRUE

Record(k, m) == [key |-> k, agent |-> m, used |-> FALSE]

(***************************************************************************)
(* The collector: Add_flow links the record, which is what the Estimation  *)
(* thread sees, and only then counts it.  A record whose AS is out of      *)
(* range is dropped before that.  A record comes from a monitor that       *)
(* exists, and the first record of all starts the two threads.             *)
(***************************************************************************)
AddFlowLink(c, k, m) ==
    /\ alive /\ main = "idle" /\ received < MaxRecords
    /\ node[m] # NONE
    /\ main' = "linked" /\ received' = received + 1 /\ started' = TRUE
    /\ flows' = [flows EXCEPT ![c] = Append(@, Record(k, m))]
    /\ UNCHANGED <<taille, walkVars, localVars, rateVars, overhead, compteur, tick, est, at, alive>>

AddFlowCount ==
    /\ alive /\ main = "linked"
    /\ main' = "idle" /\ taille' = taille + 1
    /\ overhead' = IF taille + 1 >= Threshold THEN 1 ELSE overhead
    /\ UNCHANGED <<received, started, flows, walkVars, localVars, rateVars, compteur, tick, est, at, alive>>

\* fcompteur: compteur ++ is a read and a write; larger than Period says no more
fcompteurRead ==
    /\ alive /\ started /\ tick = NONE
    /\ tick' = compteur
    /\ UNCHANGED <<listVars, walkVars, localVars, rateVars, overhead, compteur, est, at, alive>>

fcompteurWrite ==
    /\ alive /\ tick # NONE
    /\ compteur' = IF tick < Period THEN tick + 1 ELSE tick
    /\ tick' = NONE
    /\ UNCHANGED <<listVars, walkVars, localVars, rateVars, overhead, est, at, alive>>

(***************************************************************************)
(* The Estimation thread looks at the lists ...                            *)
(***************************************************************************)
\* A wrong variant: only too many records start an estimation
EstimationDueOverhead == overhead = 1

EstimationDue == compteur >= Period \/ overhead = 1

EstimationStarts ==
    /\ alive /\ started /\ est = "test" /\ EstimationDue
    /\ localOverhead' = overhead /\ localCompteur' = compteur
    /\ est' = "pic" /\ at' = 1
    /\ UNCHANGED <<listVars, walkVars, rateVars, overhead, compteur, tick, alive>>

Used(c) == {i \in 1..Len(flows[c]) : flows[c][i].used}

PicFlowEnd ==
    /\ alive /\ est = "pic"
    /\ IF at <= NbCouples
       THEN /\ picEnd' = [picEnd EXCEPT ![at] = Len(flows[at])]
            /\ first' = [first EXCEPT ![at] = Cardinality(Used(at))]
            /\ at' = at + 1
            /\ UNCHANGED <<sizeval, est>>
       ELSE /\ sizeval' = taille
            /\ est' = "walk" /\ at' = 1
            /\ UNCHANGED <<picEnd, first>>
    /\ UNCHANGED <<listVars, path, result, observed, localVars, rateVars, overhead, compteur, tick, alive>>

(***************************************************************************)
(* ... groups the records of a couple by their 5-tuple up to PicFlow_End:  *)
(* the first unused record of a 5-tuple takes the later ones with it, and  *)
(* Add_result makes one result of the group.  The code makes none of a     *)
(* group whose first record is PicFlow_End itself ...                      *)
(***************************************************************************)
SameFlow(c, i) == {j \in i..picEnd[c] : flows[c][j].key = flows[c][i].key}

\* A wrong variant: the later records of the group are not marked
EstimateAtUnmarked(c, acc, i) ==
    IF i \in acc.used THEN acc
    ELSE [used |-> acc.used \cup {i},
          groups |-> IF i < picEnd[c] THEN Append(acc.groups, SameFlow(c, i)) ELSE acc.groups]

EstimateAt(c, acc, i) ==
    IF i \in acc.used THEN acc
    ELSE IF i < picEnd[c]
    THEN [used |-> acc.used \cup SameFlow(c, i), groups |-> Append(acc.groups, SameFlow(c, i))]
    ELSE [acc EXCEPT !.used = @ \cup {i}]

Estimated(c) ==
    LET walk[i \in 0..picEnd[c]] ==
            IF i = 0 THEN [used |-> Used(c), groups |-> <<>>]
            ELSE EstimateAt(c, walk[i - 1], i)
    IN  walk[picEnd[c]]

\* A first result asks for the path.  The process dies when there is no socket, and
\* the parser of the answer reads past an empty one; read() waits for ever for an
\* NSP that does not answer.
SendPathRequestPacket(c) ==
    \/ path' = path \cup {c} /\ UNCHANGED <<alive, est>>
    \/ alive' = FALSE /\ UNCHANGED <<path, est>>
    \/ est' = "hung" /\ UNCHANGED <<path, alive>>

EstimateCouple ==
    /\ alive /\ est = "walk" /\ at <= NbCouples
    /\ LET e == Estimated(at)
       IN  /\ flows' = [flows EXCEPT ![at] = [i \in 1..Len(@) |-> [@[i] EXCEPT !.used = i \in e.used]]]
           /\ result' = [result EXCEPT ![at] = @ \o e.groups]
           /\ observed' = observed \cup {flows[at][i].agent : i \in UNION Range(e.groups)}
           /\ IF e.groups = <<>> \/ at \in path
              THEN UNCHANGED <<path, alive, est>> ELSE SendPathRequestPacket(at)
    /\ at' = at + 1
    /\ UNCHANGED <<main, received, started, taille, picEnd, first, sizeval, localVars, rateVars, overhead, compteur, tick>>

(***************************************************************************)
(* ... and, when it counted records, reconfigures the monitors.  With too  *)
(* many records it lowers the monitors whose deltaVar is below the mean;   *)
(* the deltaVar of a monitor with observations is added to a variable that *)
(* was never set, any value, and is 0 for the others.                      *)
(***************************************************************************)
BelowMean ==
    {{m \in Monitors : NbMonitors * d[m] < SumTo(d, NbMonitors)} :
        d \in {e \in [Monitors -> {-1, 0, 1}] : \A m \in Monitors \ observed : e[m] = 0}}

EstimationDone ==
    /\ alive /\ est = "walk" /\ at > NbCouples
    /\ at' = 1
    /\ IF sizeval = 0
       THEN est' = "rearm" /\ UNCHANGED lower
       ELSE /\ est' = "reconfigure"
            /\ IF localOverhead = 1 THEN lower' \in BelowMean ELSE lower' = {}
    /\ UNCHANGED <<listVars, walkVars, localVars, rate, node, acked, overhead, compteur, tick, alive>>

Abs(x) == IF x < 0 THEN -x ELSE x
Least(a, b) == IF a < b THEN a ELSE b
Most(a, b) == IF a > b THEN a ELSE b

\* stepp: 1 + 2 * |threshold - sizeval per second| / threshold, at most 3
Stepp ==
    IF localCompteur = 0 THEN 3
    ELSE Least(3, 1 + (2 * Abs(Threshold * localCompteur - sizeval)) \div (Threshold * localCompteur))

NewRate(m) ==
    IF localOverhead = 0 THEN Least(MaxRate, rate[m] * Stepp) ELSE Most(MinRate, rate[m] \div Stepp)

ValidateSamplingRate(p1, p2) == p1 >= 0 /\ p2 > 0 /\ p1 <= p2

\* HandleTCPClient: a monitor that has no sampling node yet keeps no rate
ChangeSamplingRate(m, p1) ==
    IF node[m] = NONE THEN UNCHANGED node ELSE node' = [node EXCEPT ![m] = p1]

\* There is no socket for the request and the process exits; or it is not sent; or it is
\* sent and answered; or applied while its answer is lost; or read() waits for the
\* answer for ever, whether it was applied or not.
SendControlPacket(m, p1) ==
    \/ alive' = FALSE /\ acked' = acked \ {m} /\ UNCHANGED <<node, est>>
    \/ acked' = acked \ {m} /\ UNCHANGED <<node, est, alive>>
    \/ /\ ValidateSamplingRate(p1, Whole)
       /\ ChangeSamplingRate(m, p1)
       /\ acked' \in {acked \ {m}, IF node[m] = NONE THEN acked \ {m} ELSE acked \cup {m}}
       /\ UNCHANGED <<est, alive>>
    \/ /\ ValidateSamplingRate(p1, Whole)
       /\ ChangeSamplingRate(m, p1) \/ UNCHANGED node
       /\ acked' = acked \ {m}
       /\ est' = "hung" /\ UNCHANGED alive

\* A wrong variant: a rate that is at its limit already is not sent again
ReconfigureSkipping(m) ==
    IF NewRate(m) \in {MinRate, MaxRate}
    THEN rate' = [rate EXCEPT ![m] = NewRate(m)] /\ UNCHANGED <<node, acked, est, alive>>
    ELSE rate' = [rate EXCEPT ![m] = NewRate(m)] /\ SendControlPacket(m, NewRate(m) \div Fine)

\* flowd keeps the new rate whatever becomes of the request
Reconfigure(m) ==
    /\ rate' = [rate EXCEPT ![m] = NewRate(m)]
    /\ SendControlPacket(m, NewRate(m) \div Fine)

Reconfigurer ==
    /\ alive /\ est = "reconfigure" /\ at <= NbMonitors
    /\ at' = at + 1
    /\ IF localOverhead = 0 \/ at \in lower
       THEN Reconfigure(at) ELSE UNCHANGED <<rate, node, acked, est, alive>>
    /\ UNCHANGED <<listVars, walkVars, localVars, lower, overhead, compteur, tick>>

(***************************************************************************)
(* Then it writes its files, debit = sizeval / local_compteur, and frees   *)
(* what it estimated.                                                      *)
(***************************************************************************)
liberer_result == [c \in Couples |-> <<>>]

WriteOutput ==
    /\ alive /\ est = "reconfigure" /\ at > NbMonitors
    /\ IF localCompteur = 0
       THEN alive' = FALSE /\ UNCHANGED <<est, result>>
       ELSE est' = "free" /\ result' = liberer_result /\ UNCHANGED alive
    /\ UNCHANGED <<listVars, picEnd, first, sizeval, path, observed, localVars, rateVars, overhead, compteur, tick, at>>

\* A wrong variant: the list is freed up to AddFlow
liberer_all(c) == <<>>

liberer(c) == SubSeq(flows[c], picEnd[c] + 1, Len(flows[c]))

liberer_flow ==
    /\ alive /\ est = "free" /\ main = "idle"
    /\ flows' = [c \in Couples |-> liberer(c)]
    /\ taille' = taille - SumTo(picEnd, NbCouples)
    /\ picEnd' = [c \in Couples |-> 0] /\ first' = [c \in Couples |-> 0]
    /\ est' = "wipe"
    /\ UNCHANGED <<main, received, started, sizeval, path, result, observed, localVars, rateVars, overhead, compteur, tick, at, alive>>

Wipe ==
    /\ alive /\ est = "wipe"
    /\ observed' = {} /\ overhead' = 0 /\ sizeval' = 0
    /\ est' = "rearm"
    /\ UNCHANGED <<listVars, picEnd, first, path, result, localVars, rateVars, compteur, tick, at, alive>>

Rearm ==
    /\ alive /\ est = "rearm"
    /\ compteur' = 0 /\ localOverhead' = 0 /\ localCompteur' = 0 /\ lower' = {}
    /\ est' = "test"
    /\ UNCHANGED <<listVars, walkVars, rate, node, acked, overhead, tick, at, alive>>

\* The first packet a monitor of NSP sees makes its sampling node
AddNode(m) ==
    /\ node[m] = NONE
    /\ node' = [node EXCEPT ![m] = InitialRate]
    /\ UNCHANGED <<listVars, walkVars, localVars, lower, rate, acked, overhead, compteur, tick, est, at, alive>>

Estimation ==
    \/ EstimationStarts \/ PicFlowEnd \/ EstimateCouple \/ EstimationDone
    \/ Reconfigurer \/ WriteOutput \/ liberer_flow \/ Wipe \/ Rearm

Next ==
    \/ \E s \in Sources : AddFlowLink(s[1], s[2], s[3])
    \/ AddFlowCount \/ fcompteurRead \/ fcompteurWrite \/ Estimation
    \/ \E m \in Monitors : AddNode(m)

\* The threads are scheduled; nothing makes a record, a monitor or an answer of NSP
\* come: a step that asks NSP may end in "hung"
Fairness == WF_vars(AddFlowCount) /\ WF_vars(fcompteurRead) /\ WF_vars(fcompteurWrite) /\ WF_vars(Estimation)

Spec == Init /\ [][Next]_vars /\ Fairness

-----------------------------------------------------------------------------
(***************************************************************************)
(* The threads share the lists without a lock while records arrive, yet    *)
(* no record is lost: a record leaves its list only after an estimation    *)
(* has marked it, from the head, and taille counts the records linked, but *)
(* for the one Add_flow is about to count (Add_flow, Estimation, liberer). *)
(***************************************************************************)
NothingLost ==
    /\ taille + (IF main = "linked" THEN 1 ELSE 0)
          = SumTo([c \in Couples |-> Len(flows[c])], NbCouples)
    /\ \A c \in Couples : est \in {"reconfigure", "free"} => Used(c) = 1..picEnd[c]

(***************************************************************************)
(* The estimation of a couple is what its definition by sets says: one     *)
(* result for each 5-tuple among the records that came since the last one  *)
(* up to PicFlow_End, of all its records, and no other; only a 5-tuple     *)
(* whose one record is PicFlow_End has none (Estimation, Add_result).      *)
(***************************************************************************)
OneResultPerFlow ==
    \A c \in Couples :
        est = "walk" /\ at > c =>
            LET new == first[c] + 1 .. picEnd[c]
                same(k) == {i \in new : flows[c][i].key = k}
                made == {i \in DOMAIN result[c] : result[c][i] \cap new # {}}
            IN  /\ {result[c][i] : i \in made} = {same(k) : k \in Keys} \ {{}, {picEnd[c]}}
                /\ \A i, j \in made : result[c][i] = result[c][j] => i = j

(***************************************************************************)
(* What flowd believes of a monitor that answered its last request is what *)
(* the monitor does, up to the digits the request has: the rate flowd      *)
(* estimates with is never changed without asking the monitor again        *)
(* (reconfigurer, SendControlPacket, Router::ChangeSamplingRate).          *)
(***************************************************************************)
AckedRateInForce == \A m \in acked : node[m] = rate[m] \div Fine

(***************************************************************************)
(* The reset of overhead may erase the alarm of records that came during   *)
(* an estimation, and a record may be seen before it is counted, but when  *)
(* no more records come every one of them is freed in the end, unless the  *)
(* process died, of a failed request or of a division by zero, or waits    *)
(* for an answer of NSP that never comes (Estimation, fcompteur).          *)
(***************************************************************************)
AllFreed == <>[](\A c \in Couples : alive /\ est # "hung" => flows[c] = <<>>)
=============================================================================
