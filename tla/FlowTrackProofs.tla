-------------------------- MODULE FlowTrackProofs --------------------------
(***************************************************************************)
(* Proofs about FlowTrack, for any set of flows, packets and timeouts.     *)
(*                                                                         *)
(* That num_flows is a natural number follows only from its being the      *)
(* number of expiry events, and the bound on expires_at needs the types of *)
(* the flow records, so these are proved together: Core holds what         *)
(* concerns the table, Rest the types of the rest.  Three more invariants  *)
(* are proved on top of them: Accounts (flows made and flows exported),    *)
(* Conserved (packets of each monitor) and Events (what an expiry event    *)
(* says of its flow), from which the bounds on expiry follow.              *)
(***************************************************************************)
EXTENDS FlowTrack, Induction

(* What concerns the table.                                                *)
Core ==
    /\ now \in FirstTime .. MaxTime
    /\ expiries \in SUBSET Keys
    /\ orphans \in SUBSET Keys
    /\ flow \in [Keys -> FlowType]
    /\ num_flows \in Nat
    /\ next_flow_seq \in Nat
    /\ NumFlowsExact
    /\ LifetimeBound

(* The types of everything else.                                           *)
Rest ==
    /\ mode \in Modes
    /\ status \in {"running", "exited", "crashed", "hung"}
    /\ phase \in {"top", "collect", "wait", "expire", "over"}
    /\ batch \in Nat
    /\ fatal \in BOOLEAN
    /\ stop_collection_flag \in BOOLEAN
    /\ emu \in {"none", "run", "ending", "done"}
    /\ stops \in BOOLEAN
    /\ monitors \in SUBSET Monitors
    /\ total_packets \in Nat
    /\ flows_expired \in Nat
    /\ flows_force_expired \in Nat
    /\ expired \in [Reasons -> Nat]
    /\ failures \in Nat
    /\ gone \in Nat
    /\ reported \in [Dirs -> [Monitors -> Nat]]
    /\ exported \in [Dirs -> [Monitors -> Nat]]

(* expires_at stays within the lifetime of flow record f                   *)
WithinLife(f) ==
    Timeout.maxlife # 0 => f.expires_at <= f.start + Timeout.maxlife

-----------------------------------------------------------------------------
(* Flow records *)

(* The record of a key that is in neither tree is well typed.              *)
LEMMA NoFlowType == NoFlow \in FlowType
<1>1. NoStat \in [Dirs -> [Monitors -> Nat \cup {Absent}]]
  BY DEF NoStat
<1>2. [d \in Dirs |-> 0] \in [Dirs -> Nat]
  OBVIOUS
<1>3. "general" \in Reasons
  BY DEF Reasons
<1>4. QED
  BY <1>1, <1>2, <1>3, FlowTrackAssumption DEF NoFlow, FlowType

(* Counting a packet keeps the record a flow, moves its last packet to t   *)
(* and leaves its start, its number, its expiry event and its monitors     *)
(* alone; no count of octets falls.                                        *)
LEMMA CountedType ==
  ASSUME NEW f \in FlowType, NEW p \in Packets, NEW t \in Nat
  PROVE  /\ Counted(f, p, t) \in FlowType
         /\ Counted(f, p, t).start = f.start
         /\ Counted(f, p, t).expires_at = f.expires_at
         /\ Counted(f, p, t).stat = f.stat
         /\ Counted(f, p, t).last = t
         /\ Counted(f, p, t).seq = f.seq
         /\ Counted(f, p, t).reason = f.reason
         /\ \A d \in Dirs : Counted(f, p, t).octets[d] >= f.octets[d]
<1>1. p \in PacketType
  BY FlowTrackAssumption
<1>2. p.dir \in Dirs /\ p.len \in Nat
  BY <1>1 DEF PacketType
<1>3. AddOctets(f, p) \in [Dirs -> Nat]
  BY <1>2 DEF AddOctets, FlowType
<1>4. AddRst(f, p) \in BOOLEAN
  BY DEF AddRst, FlowType
<1>5. AddFin(f, p) \in SUBSET Dirs
  BY <1>2 DEF AddFin, FlowType
<1>6. \A d \in Dirs : AddOctets(f, p)[d] >= f.octets[d]
  BY <1>2 DEF AddOctets, FlowType
<1> DEFINE g == Counted(f, p, t)
<1>7. /\ g \in FlowType /\ g.start = f.start /\ g.expires_at = f.expires_at
      /\ g.stat = f.stat /\ g.last = t /\ g.seq = f.seq /\ g.reason = f.reason
      /\ g.octets = AddOctets(f, p)
  BY <1>3, <1>4, <1>5 DEF Counted, FlowType
<1> HIDE DEF g
<1>8. \A d \in Dirs : g.octets[d] >= f.octets[d]
  BY <1>6, <1>7
<1>9. QED
  BY <1>7, <1>8 DEF g

(* A new flow starts at t, has the next number, expires at 1 and knows no  *)
(* monitor.                                                                *)
LEMMA NewFlowType ==
  ASSUME NEW p \in Packets, NEW t \in Nat, next_flow_seq \in Nat
  PROVE  /\ NewFlow(p, t) \in FlowType
         /\ NewFlow(p, t).start = t
         /\ NewFlow(p, t).last = t
         /\ NewFlow(p, t).seq = next_flow_seq
         /\ NewFlow(p, t).expires_at = 1
         /\ NewFlow(p, t).stat = NoStat
<1> DEFINE g == [NoFlow EXCEPT !.start = t, !.seq = next_flow_seq, !.expires_at = 1]
<1>1. /\ g \in FlowType /\ g.start = t /\ g.expires_at = 1
      /\ g.seq = next_flow_seq /\ g.stat = NoFlow.stat
  BY NoFlowType DEF FlowType
<1>2. NoFlow.stat = NoStat
  BY DEF NoFlow
<1>3. NewFlow(p, t) = Counted(g, p, t)
  BY DEF NewFlow
<1> HIDE DEF g
<1>4. QED
  BY <1>1, <1>2, <1>3, CountedType

(* flow_update_expiry yields a flow whose event is within its lifetime.    *)
LEMMA UpdateType ==
  ASSUME NEW k \in Keys, NEW f \in FlowType
  PROVE  /\ flow_update_expiry(k, f) \in FlowType
         /\ WithinLife(flow_update_expiry(k, f))
<1>1. ActivityReason(k, f) \in TimeoutNames /\ ActivityReason(k, f) \in Reasons
  BY FlowTrackAssumption
     DEF ActivityReason, TimeoutNames, Reasons, Protocols
<1>2. "maxlife" \in TimeoutNames /\ {"overbytes", "maxlife"} \subseteq Reasons
  BY DEF TimeoutNames, Reasons
<1>3. Timeout.maxlife \in Nat
  BY <1>2, FlowTrackAssumption
<1>4. f.start \in Nat /\ f.last \in Nat
  BY DEF FlowType
<1>5. IdleUntil(k, f) \in Nat
  BY <1>1, <1>4, FlowTrackAssumption DEF IdleUntil
<1> DEFINE t == CapLife(f, IdleUntil(k, f))
<1>6. t \in Nat /\ (Timeout.maxlife # 0 => t <= f.start + Timeout.maxlife)
  BY <1>3, <1>4, <1>5 DEF CapLife
<1>7. \A a \in Nat, r \in Reasons :
        /\ [f EXCEPT !.expires_at = a, !.reason = r] \in FlowType
        /\ [f EXCEPT !.expires_at = a, !.reason = r].expires_at = a
        /\ [f EXCEPT !.expires_at = a, !.reason = r].start = f.start
  BY DEF FlowType
<1> HIDE DEF t
<1>8. ASSUME NEW a \in Nat, NEW r \in Reasons,
             Timeout.maxlife # 0 => a <= f.start + Timeout.maxlife
      PROVE  /\ [f EXCEPT !.expires_at = a, !.reason = r] \in FlowType
             /\ WithinLife([f EXCEPT !.expires_at = a, !.reason = r])
  <2> DEFINE g == [f EXCEPT !.expires_at = a, !.reason = r]
  <2>1. g \in FlowType /\ g.expires_at = a /\ g.start = f.start
    BY <1>7
  <2> HIDE DEF g
  <2>2. WithinLife(g)
    BY <2>1, <1>8 DEF WithinLife
  <2>3. QED
    BY <2>1, <2>2 DEF g
<1>9. Timeout.maxlife # 0 => 0 <= f.start + Timeout.maxlife
  BY <1>3, <1>4
<1>10. CASE OverBytes(f)
  BY <1>10, <1>2, <1>8, <1>9 DEF flow_update_expiry
<1>11. CASE ~OverBytes(f) /\ OverLife(f)
  BY <1>11, <1>2, <1>8, <1>9 DEF flow_update_expiry
<1>12. CASE ~OverBytes(f) /\ ~OverLife(f)
  <2>1. flow_update_expiry(k, f) =
          [f EXCEPT !.expires_at = t, !.reason = ActivityReason(k, f)]
    BY <1>12 DEF flow_update_expiry, t
  <2>2. QED
    BY <2>1, <1>1, <1>6, <1>8
<1>13. QED
  BY <1>10, <1>11, <1>12

-----------------------------------------------------------------------------
(* The packets of monitors *)

(* what flow k has counted for monitor m                                   *)
Count(k, d, m) == IF flow[k].stat[d][m] = Absent THEN 0 ELSE flow[k].stat[d][m]

(* The counts of a set of flows.                                           *)
HeldIn(S, d, m) == [k \in S |-> Count(k, d, m)]

(* The packets of a set of flows are the Total of their counts.            *)
LEMMA PacketsTotal ==
  ASSUME NEW S, NEW d, NEW m
  PROVE  PacketsOf(S, d, m) = Total(HeldIn(S, d, m))
<1> DEFINE E(k) == Count(k, d, m)
           f == HeldIn(S, d, m)
           P(h) == h = [s \in SUBSET S |->
                          IF s = {} THEN 0 ELSE E(Some(s)) + h[s \ {Some(s)}]]
<1>1. PacketsOf(S, d, m) = (CHOOSE h : P(h))[S]
  BY DEF PacketsOf, Count, Some, MapThenSumSet, MapThenFoldSet
<1>2. DOMAIN f = S /\ \A k \in S : E(k) = f[k]
  BY DEF HeldIn
<1> HIDE DEF E, f
<1>3. ASSUME NEW h PROVE P(h) <=> IsSum(h, f, S)
  <2>1. \A s \in SUBSET S : s # {} => E(Some(s)) = f[Some(s)]
    <3>1. \A s \in SUBSET S : s # {} => Some(s) \in S
      BY SomeIn
    <3>2. QED
      BY <1>2, <3>1
  <2>2. [s \in SUBSET S |-> IF s = {} THEN 0 ELSE E(Some(s)) + h[s \ {Some(s)}]] =
        [s \in SUBSET S |-> IF s = {} THEN 0 ELSE f[Some(s)] + h[s \ {Some(s)}]]
    BY <2>1
  <2>3. QED
    BY <2>2 DEF IsSum
<1> HIDE DEF P
<1>4. (CHOOSE h : P(h)) = (CHOOSE h : IsSum(h, f, S))
  BY <1>3
<1>5. QED
  BY <1>1, <1>2, <1>4 DEF Total, f

(* They are a natural number.                                              *)
LEMMA PacketsNat ==
  ASSUME NEW S \in SUBSET Keys, NEW d \in Dirs, NEW m \in Monitors,
         flow \in [Keys -> FlowType]
  PROVE  /\ IsFiniteSet(S)
         /\ HeldIn(S, d, m) \in [S -> Nat]
         /\ PacketsOf(S, d, m) \in Nat
<1>1. IsFiniteSet(S)
  BY FlowTrackAssumption, FS_Subset
<1>2. ASSUME NEW k \in S PROVE Count(k, d, m) \in Nat
  <2>1. flow[k].stat[d][m] \in Nat \cup {Absent}
    BY DEF FlowType
  <2>2. QED
    BY <2>1 DEF Count
<1>3. HeldIn(S, d, m) \in [S -> Nat]
  BY <1>2 DEF HeldIn
<1>4. QED
  BY <1>1, <1>3, PacketsTotal, TotalNat

-----------------------------------------------------------------------------
(* What the operations on the table do to Core *)

(* Every set of flows is finite, so that num_flows can be its size.        *)
LEMMA FiniteSubset ==
  ASSUME NEW S \in SUBSET Keys
  PROVE  IsFiniteSet(S) /\ Cardinality(S) \in Nat
  BY FlowTrackAssumption, FS_Subset, FS_CardinalityType

(* A step that leaves the table alone keeps Core.                          *)
LEMMA CoreSame ==
  ASSUME Core, UNCHANGED tableVars, next_flow_seq' = next_flow_seq,
         now' \in FirstTime .. MaxTime
  PROVE  Core'
  BY DEF Core, tableVars, NumFlowsExact, LifetimeBound

(* A new flow and its expiry event (process_packet) keep Core.             *)
LEMMA CoreInsert ==
  ASSUME Core, NEW k \in Keys, NEW f \in FlowType, k \notin InTree,
         WithinLife(f), InsertFlow(k, f), now' = now
  PROVE  Core'
<1>1. Cardinality(expiries \cup {k}) = Cardinality(expiries) + 1
  BY FiniteSubset, FS_AddElement DEF Core, InTree
<1>2. NumFlowsExact'
  BY <1>1 DEF Core, NumFlowsExact, InsertFlow, InTree
<1>3. LifetimeBound'
  BY DEF Core, LifetimeBound, InsertFlow, WithinLife
<1>4. QED
  BY <1>2, <1>3 DEF Core, InsertFlow

(* An update of a flow in the table keeps Core.                            *)
LEMMA CoreReplace ==
  ASSUME Core, NEW k \in expiries, NEW f \in FlowType,
         WithinLife(f), ReplaceFlow(k, f), now' = now
  PROVE  Core'
<1>1. LifetimeBound'
  BY DEF Core, LifetimeBound, ReplaceFlow, WithinLife
<1>2. QED
  BY <1>1 DEF Core, NumFlowsExact, ReplaceFlow

(* A flow whose expiry event cannot be allocated keeps Core.               *)
LEMMA CoreOrphan ==
  ASSUME Core, NEW p \in Packets, NEW t \in FirstTime .. MaxTime,
         OrphanFlow(p, t), now' = now
  PROVE  Core'
<1>1. p.key \in Keys
  BY FlowTrackAssumption DEF PacketType
<1>2. NewFlow(p, t) \in FlowType
  BY NewFlowType, FlowTrackAssumption DEF Core
<1>3. flow' \in [Keys -> FlowType]
  BY <1>1, <1>2 DEF Core, OrphanFlow
<1>4. LifetimeBound'
  BY DEF Core, LifetimeBound, OrphanFlow, InTree
<1>5. QED
  BY <1>1, <1>3, <1>4 DEF Core, OrphanFlow, NumFlowsExact, InTree

(* Flows that leave with their expiry events keep Core.                    *)
LEMMA CoreRemove ==
  ASSUME Core, NEW S, S \subseteq expiries, Remove(S),
         num_flows' = num_flows - Cardinality(S),
         next_flow_seq' = next_flow_seq, now' = now
  PROVE  Core'
<1>1. IsFiniteSet(expiries) /\ expiries \cap S = S
  BY FiniteSubset DEF Core
<1>2. Cardinality(expiries \ S) = Cardinality(expiries) - Cardinality(S)
  BY <1>1, FS_Difference
<1>3. expiries' \in SUBSET Keys /\ expiries' = expiries \ S
  BY DEF Core, Remove
<1>4. num_flows' = Cardinality(expiries') /\ num_flows' \in Nat
  BY <1>2, <1>3, FiniteSubset DEF Core, NumFlowsExact
<1>5. flow' \in [Keys -> FlowType]
  BY NoFlowType DEF Core, Remove
<1>6. LifetimeBound'
  BY <1>3 DEF Core, LifetimeBound, Remove
<1>7. QED
  BY <1>3, <1>4, <1>5, <1>6 DEF Core, NumFlowsExact, Remove

(* Marking flows for immediate expiry keeps Core.                          *)
LEMMA CoreForce ==
  ASSUME Core, NEW S, S \subseteq expiries, ForceOut(S),
         next_flow_seq' = next_flow_seq, now' = now
  PROVE  Core' /\ flows_force_expired' = flows_force_expired + Cardinality(S)
<1>1. "overflows" \in Reasons
  BY DEF Reasons
<1> DEFINE Forced(f) == [f EXCEPT !.expires_at = 0, !.reason = "overflows"]
<1>2. \A f \in FlowType : /\ Forced(f) \in FlowType
                          /\ Forced(f).expires_at = 0
                          /\ Forced(f).start \in Nat
  BY <1>1 DEF FlowType
<1>3. flow' \in [Keys -> FlowType]
  BY <1>2 DEF Core, ForceOut
<1>4. LifetimeBound'
  <2> SUFFICES ASSUME Timeout.maxlife # 0, NEW k \in expiries
               PROVE  flow'[k].expires_at <= flow'[k].start + Timeout.maxlife
    BY DEF LifetimeBound, ForceOut
  <2>1. k \in Keys /\ flow[k] \in FlowType
    BY DEF Core
  <2>2. Timeout.maxlife \in Nat
    BY FlowTrackAssumption DEF TimeoutNames
  <2>3. CASE k \in S
    <3>1. flow'[k] = Forced(flow[k])
      BY <2>1, <2>3 DEF ForceOut
    <3> HIDE DEF Forced
    <3>2. QED
      BY <1>2, <2>1, <2>2, <3>1
  <2>4. CASE k \notin S
    BY <2>1, <2>4 DEF ForceOut, Core, LifetimeBound
  <2>5. QED
    BY <2>3, <2>4
<1>5. QED
  BY <1>3, <1>4 DEF Core, ForceOut, NumFlowsExact

-----------------------------------------------------------------------------
(* The inductive invariant *)

(* The conjunction is inductive, neither part is.                          *)
IndInv == Core /\ Rest

(* init_flowtrack establishes the inductive invariant.                     *)
LEMMA InitInd == Init => IndInv
<1> SUFFICES ASSUME Init PROVE IndInv
  OBVIOUS
<1>1. Core
  <2>1. flow \in [Keys -> FlowType]
    BY NoFlowType DEF Init
  <2>2. NumFlowsExact
    BY FS_EmptySet DEF Init, NumFlowsExact
  <2>3. LifetimeBound
    BY DEF Init, LifetimeBound
  <2>4. QED
    BY <2>1, <2>2, <2>3, FlowTrackAssumption DEF Core, Init
<1>2. Rest
  BY DEF Rest, Init, ZeroPerMonitor, Modes
<1>3. QED
  BY <1>1, <1>2 DEF IndInv

(* A packet of the emulator *)
LEMMA EmulatorInd ==
  ASSUME IndInv, NEW p \in Packets, process_emulator_packet(p)
  PROVE  IndInv'
<1> USE DEF IndInv
<1>1. /\ p.key \in Keys
      /\ p.dir \in Dirs
      /\ p.monitor \in Monitors
  BY FlowTrackAssumption DEF PacketType
<1>2. now \in FirstTime .. MaxTime /\ now \in Nat /\ now > 1
  BY FlowTrackAssumption DEF Core
<1>3. ReportedBy(p) \in [Dirs -> [Monitors -> Nat]]
  BY <1>1 DEF ReportedBy, Rest
<1>4. ASSUME EmulatorPacket(p), status' \in {status, "crashed"},
             failures' \in {failures, failures + 1},
             monitors' \in {monitors, monitors \cup {p.monitor}},
             reported' \in {reported, ReportedBy(p)}
      PROVE  Rest'
  BY <1>1, <1>3, <1>4 DEF Rest, EmulatorPacket, procVars, countVars
<1>5. CASE process_emulator_packet_new(p)
  <2> DEFINE s == IF p.dir = 0 THEN 1 ELSE 0
             f == [NewFlow(p, now) EXCEPT !.stat[p.dir][p.monitor] = s]
  <2>1. NewFlow(p, now) \in FlowType /\ NewFlow(p, now).start = now
        /\ NewFlow(p, now).expires_at = 1
    BY <1>2, NewFlowType DEF Core
  <2>2. f \in FlowType /\ f.start = now /\ f.expires_at = 1
    <3>1. s \in Nat
      OBVIOUS
    <3> HIDE DEF s
    <3>2. QED
      BY <1>1, <2>1, <3>1 DEF FlowType
  <2>3. InsertFlow(p.key, f) /\ p.key \notin InTree /\ now' = now
    BY <1>5 DEF process_emulator_packet_new, EmulatorPacket
  <2> HIDE DEF f
  <2>4. WithinLife(f)
    BY <1>2, <2>2, FlowTrackAssumption DEF WithinLife, TimeoutNames
  <2>5. Core'
    BY <1>1, <2>2, <2>3, <2>4, CoreInsert
  <2>6. Rest'
    BY <1>4, <1>5 DEF process_emulator_packet_new, InsertFlow
  <2>7. QED
    BY <2>5, <2>6
<1>6. CASE process_emulator_packet_known(p)
  <2> DEFINE f == flow[p.key]
             h == IF p.again THEN f ELSE Counted(f, p, now)
             g == [h EXCEPT !.stat = AddStat(f, p)]
  <2>1. f \in FlowType
    BY <1>1 DEF Core
  <2>2. h \in FlowType
    BY <1>2, <2>1, CountedType
  <2>3. AddStat(f, p) \in [Dirs -> [Monitors -> Nat \cup {Absent}]]
    BY <1>1, <2>1 DEF AddStat, FlowType, Absent
  <2>4. g \in FlowType
    <3> HIDE DEF h
    <3>1. QED
      BY <2>2, <2>3 DEF FlowType
  <2>5. /\ p.key \in expiries
        /\ ReplaceFlow(p.key, flow_update_expiry(p.key, g))
        /\ now' = now
    BY <1>6 DEF process_emulator_packet_known, EmulatorPacket
  <2> HIDE DEF g
  <2>6. Core'
    BY <1>1, <2>4, <2>5, UpdateType, CoreReplace
  <2>7. Rest'
    BY <1>4, <1>6 DEF process_emulator_packet_known, ReplaceFlow
  <2>8. QED
    BY <2>6, <2>7
<1>7. CASE process_emulator_packet_dropped(p)
  <2>1. Core'
    BY <1>2, <1>7, CoreSame
       DEF process_emulator_packet_dropped, EmulatorPacket
  <2>2. Rest'
    BY <1>4, <1>7 DEF process_emulator_packet_dropped
  <2>3. QED
    BY <2>1, <2>2
<1>8. CASE process_emulator_packet_nomem(p)
  <2>1. Core'
    <3>1. CASE OrphanFlow(p, now)
      BY <1>2, <1>8, <3>1, CoreOrphan DEF process_emulator_packet_nomem, EmulatorPacket
    <3>2. CASE NewFlowFails(p)
      BY <1>2, <1>8, <3>2, CoreSame DEF process_emulator_packet_nomem, EmulatorPacket, NewFlowFails
    <3>3. QED
      BY <1>8, <3>1, <3>2 DEF process_emulator_packet_nomem
  <2>2. Rest'
    BY <1>4, <1>8 DEF process_emulator_packet_nomem, OrphanFlow, NewFlowFails, Fails
  <2>3. QED
    BY <2>1, <2>2
<1>9. CASE process_emulator_packet_orphan(p)
  <2>1. Core'
    BY <1>2, <1>9, CoreSame
       DEF process_emulator_packet_orphan, EmulatorPacket
  <2>2. Rest'
    BY <1>4, <1>9 DEF process_emulator_packet_orphan
  <2>3. QED
    BY <2>1, <2>2
<1>10. QED
  BY <1>5, <1>6, <1>7, <1>8, <1>9 DEF process_emulator_packet

(* A packet of libpcap *)
LEMMA CaptureInd ==
  ASSUME IndInv, NEW p \in Packets, NEW t \in FirstTime .. MaxTime,
         process_packet(p, t)
  PROVE  IndInv'
<1> USE DEF IndInv
<1>1. p.key \in Keys
  BY FlowTrackAssumption DEF PacketType
<1>2. t \in Nat
  BY FlowTrackAssumption
<1>3. ASSUME CapturePacket(p, t), status' \in {status, "crashed"},
             fatal' \in BOOLEAN, failures' \in {failures, failures + 1}
      PROVE  Rest' /\ now' = now
  BY <1>3 DEF Rest, CapturePacket, countVars
<1>4. CASE process_packet_new(p, t)
  <2>1. NewFlow(p, t) \in FlowType
    BY <1>2, NewFlowType DEF Core
  <2>2. InsertFlow(p.key, flow_update_expiry(p.key, NewFlow(p, t)))
        /\ p.key \notin InTree
    BY <1>4 DEF process_packet_new
  <2>3. fatal' \in BOOLEAN
    BY <1>4 DEF process_packet_new, Rest
  <2>4. Rest' /\ now' = now
    BY <1>3, <1>4, <2>3 DEF process_packet_new, InsertFlow
  <2>5. Core'
    BY <1>1, <2>1, <2>2, <2>4, UpdateType, CoreInsert
  <2>6. QED
    BY <2>4, <2>5
<1>5. CASE process_packet_known(p, t)
  <2> DEFINE f == flow[p.key]
             g == Counted(f, p, t)
             h == IF f.expires_at # 0 THEN flow_update_expiry(p.key, g) ELSE g
  <2>1. f \in FlowType
    BY <1>1 DEF Core
  <2>2. g \in FlowType /\ g.start = f.start /\ g.expires_at = f.expires_at
    BY <1>2, <2>1, CountedType
  <2>3. p.key \in expiries /\ ReplaceFlow(p.key, h)
    BY <1>5 DEF process_packet_known
  <2> HIDE DEF g
  <2>4. h \in FlowType /\ WithinLife(h)
    <3>1. CASE f.expires_at # 0
      BY <1>1, <2>2, <3>1, UpdateType
    <3>2. CASE f.expires_at = 0
      BY <2>2, <2>3, <3>2 DEF Core, LifetimeBound, WithinLife
    <3>3. QED
      BY <3>1, <3>2
  <2>5. fatal' \in BOOLEAN
    BY <1>5 DEF process_packet_known, Rest
  <2>6. Rest' /\ now' = now
    BY <1>3, <1>5, <2>5 DEF process_packet_known, ReplaceFlow
  <2> HIDE DEF h
  <2>7. Core'
    BY <2>3, <2>4, <2>6, CoreReplace
  <2>8. QED
    BY <2>6, <2>7
<1>6. CASE process_packet_nomem(p, t)
  <2>1. fatal' \in BOOLEAN
    BY <1>6 DEF process_packet_nomem
  <2>2. Rest' /\ now' = now
    BY <1>3, <1>6, <2>1 DEF process_packet_nomem, OrphanFlow, NewFlowFails, Fails
  <2>3. Core'
    <3>1. CASE OrphanFlow(p, t)
      BY <2>2, <3>1, CoreOrphan
    <3>2. CASE NewFlowFails(p)
      BY <2>2, <3>2, CoreSame DEF NewFlowFails, Core
    <3>3. QED
      BY <1>6, <3>1, <3>2 DEF process_packet_nomem
  <2>4. QED
    BY <2>2, <2>3
<1>7. CASE process_packet_orphan(p, t)
  <2>1. fatal' \in BOOLEAN
    BY <1>7 DEF process_packet_orphan, Rest
  <2>2. Rest' /\ now' = now
    BY <1>3, <1>7, <2>1 DEF process_packet_orphan
  <2>3. Core'
    BY <1>7, <2>2, CoreSame DEF process_packet_orphan, Core
  <2>4. QED
    BY <2>2, <2>3
<1>8. QED
  BY <1>4, <1>5, <1>6, <1>7 DEF process_packet

(* check_expired: flows leave the table, the counters grow.                *)
LEMMA ExpireInd ==
  ASSUME IndInv, NEW ex, NEW Lost, ExpireFlows(ex, Lost),
         next_flow_seq' = next_flow_seq, now' = now
  PROVE  /\ Core'
         /\ failures' \in Nat /\ gone' \in Nat
         /\ flows_expired' \in Nat /\ flows_force_expired' \in Nat
         /\ expired' \in [Reasons -> Nat]
         /\ exported' \in [Dirs -> [Monitors -> Nat]]
<1> USE DEF IndInv
<1> DEFINE E == {k \in expiries : Expirable(k, ex)}
<1>1. E \subseteq expiries /\ E \in SUBSET Keys /\ Lost \subseteq E
  BY DEF Core, ExpireFlows
<1>2. Remove(E) /\ num_flows' = num_flows - Cardinality(E)
  BY DEF ExpireFlows
<1>3. /\ failures' = failures + Cardinality(Lost)
      /\ flows_expired' = flows_expired + Cardinality(E \ Lost)
      /\ gone' = gone + Cardinality(Lost)
      /\ flows_force_expired' = flows_force_expired
      /\ expired' = [r \in Reasons |->
            expired[r] + Cardinality({k \in E : FinalReason(k, ex) = r})]
  BY DEF ExpireFlows
<1>4. exported' = [d \in Dirs |-> [m \in Monitors |->
            exported[d][m] +
                IF m \in monitors THEN PacketsOf(E \ Lost, d, m) ELSE 0]]
  BY DEF ExpireFlows
<1> HIDE DEF E
<1>5. Core'
  BY <1>1, <1>2, CoreRemove
<1>6. Cardinality(Lost) \in Nat /\ Cardinality(E \ Lost) \in Nat
  BY <1>1, FiniteSubset
<1>7. \A r \in Reasons : Cardinality({k \in E : FinalReason(k, ex) = r}) \in Nat
  BY <1>1, FiniteSubset
<1>8. exported' \in [Dirs -> [Monitors -> Nat]]
  <2>1. E \ Lost \in SUBSET Keys
    BY <1>1
  <2>2. ASSUME NEW d \in Dirs, NEW m \in Monitors
        PROVE  exported[d][m] +
                 (IF m \in monitors THEN PacketsOf(E \ Lost, d, m) ELSE 0) \in Nat
    <3>1. PacketsOf(E \ Lost, d, m) \in Nat
      BY <2>1, PacketsNat DEF Core
    <3>2. exported[d][m] \in Nat
      BY DEF Rest
    <3>3. QED
      BY <3>1, <3>2
  <2>3. QED
    BY <1>4, <2>2
<1>9. QED
  BY <1>3, <1>5, <1>6, <1>7, <1>8 DEF Rest

(* force_expire changes expiry events only.                                *)
LEMMA ForceInd ==
  ASSUME IndInv, NEW n, force_expire(n), next_flow_seq' = next_flow_seq, now' = now
  PROVE  /\ Core'
         /\ failures' \in Nat
         /\ flows_force_expired' \in Nat
         /\ UNCHANGED <<flows_expired, expired, gone, exported>>
<1> USE DEF IndInv
<1>1. PICK S : S \subseteq expiries /\ ForceOut(S)
  BY DEF force_expire, Oldest
<1>2. Cardinality(S) \in Nat
  BY <1>1, FiniteSubset DEF Core
<1>3. failures' \in Nat
  BY DEF force_expire, Fails, Rest
<1>4. Core' /\ flows_force_expired' = flows_force_expired + Cardinality(S)
  BY <1>1, CoreForce
<1>5. UNCHANGED <<flows_expired, expired, gone, exported>>
  BY <1>1 DEF ForceOut
<1>6. QED
  BY <1>2, <1>3, <1>4, <1>5 DEF Rest

(* One round of main's loop *)
LEMMA MainInd == ASSUME IndInv, MainLoop PROVE IndInv'
<1> USE DEF IndInv
<1>1. now \in FirstTime .. MaxTime
  BY DEF Core
<1>2. ASSUME UNCHANGED <<procVars, batch, now, inputVars, tableVars, countVars, failures>>,
             phase' \in {phase, "top", "collect", "wait", "expire", "over"},
             status' \in {status, "exited", "hung"}
      PROVE  IndInv'
  <2>1. Core'
    BY <1>1, <1>2, CoreSame DEF inputVars
  <2>2. Rest'
    BY <1>2 DEF Rest, procVars, countVars, inputVars
  <2>3. QED
    BY <2>1, <2>2
<1>3. CASE check_expired
  <2>1. MainStep /\ phase' = "over" /\ UNCHANGED status
    BY <1>3 DEF check_expired
  <2>2. next_flow_seq' = next_flow_seq /\ now' = now
    BY <2>1 DEF MainStep, inputVars
  <2>3. PICK Lost : ExpireFlows(IF mode = "file" THEN "forced" ELSE "normal", Lost)
    BY <1>3 DEF check_expired
  <2>4. Core' /\ failures' \in Nat /\ gone' \in Nat
        /\ flows_expired' \in Nat /\ flows_force_expired' \in Nat
        /\ expired' \in [Reasons -> Nat]
        /\ exported' \in [Dirs -> [Monitors -> Nat]]
    BY <2>2, <2>3, ExpireInd
  <2>5. Rest'
    BY <2>1, <2>4 DEF Rest, MainStep, procVars, inputVars
  <2>6. QED
    BY <2>4, <2>5
<1>4. CASE MainOverFull \/ MainDrain
  <2>1. MainStep /\ phase' = "expire" /\ UNCHANGED status
    BY <1>4 DEF MainOverFull, MainDrain
  <2>2. next_flow_seq' = next_flow_seq /\ now' = now
    BY <2>1 DEF MainStep, inputVars
  <2>3. PICK n : force_expire(n)
    BY <1>4 DEF MainOverFull, MainDrain
  <2>4. Core' /\ failures' \in Nat /\ flows_force_expired' \in Nat
        /\ UNCHANGED <<flows_expired, expired, gone, exported>>
    BY <2>2, <2>3, ForceInd
  <2>5. Rest'
    BY <2>1, <2>4 DEF Rest, MainStep, procVars, inputVars
  <2>6. QED
    BY <2>4, <2>5
<1>5. CASE MainRoundDone
  <2>1. Core'
    BY <1>1, <1>5, CoreSame DEF MainRoundDone, inputVars
  <2>2. Rest'
    BY <1>5 DEF MainRoundDone, Rest, procVars, countVars, inputVars
  <2>3. QED
    BY <2>1, <2>2
<1>6. CASE MainDrained
  BY <1>2, <1>6 DEF MainDrained, MainStep
<1>7. CASE MainDue
  BY <1>2, <1>7 DEF MainDue, MainStep
<1>8. CASE MainLocked
  BY <1>2, <1>8 DEF MainLocked, MainStep
<1>9. CASE MainCaptured
  BY <1>2, <1>9 DEF MainCaptured, MainStep
<1>10. CASE CaptureEof
  BY <1>2, <1>10 DEF CaptureEof, MainStep
<1>11. QED
  BY <1>3, <1>4, <1>5, <1>6, <1>7, <1>8, <1>9, <1>10 DEF MainLoop

(* A command of the control socket *)
LEMMA ControlInd == ASSUME IndInv, Control PROVE IndInv'
<1> USE DEF IndInv
<1>1. ControlStep
  BY DEF Control, ControlExpireAll, ControlDeleteAll, ControlGather, ControlLeave
<1>2. next_flow_seq' = next_flow_seq /\ now' = now /\ now \in FirstTime .. MaxTime
  BY <1>1 DEF ControlStep, inputVars, Core
<1>3. ASSUME stop_collection_flag' \in BOOLEAN,
             status' \in {status, "exited", "hung"},
             failures' \in Nat, gone' \in Nat,
             flows_expired' \in Nat, flows_force_expired' \in Nat,
             expired' \in [Reasons -> Nat],
             exported' \in [Dirs -> [Monitors -> Nat]]
      PROVE  Rest'
  BY <1>1, <1>3 DEF Rest, ControlStep, inputVars
<1>4. CASE ControlExpireAll
  <2>1. PICK Lost : ExpireFlows("all", Lost)
    BY <1>4 DEF ControlExpireAll
  <2>2. stop_collection_flag' \in BOOLEAN /\ status' = status
    BY <1>4 DEF ControlExpireAll, Rest
  <2>3. QED
    BY <1>2, <1>3, <2>1, <2>2, ExpireInd
<1>5. CASE ControlDeleteAll
  <2>1. Core'
    BY <1>2, <1>5, CoreRemove DEF ControlDeleteAll
  <2>2. Cardinality(expiries) \in Nat
    BY FiniteSubset DEF Core
  <2>3. stop_collection_flag' \in BOOLEAN /\ gone' \in Nat
    BY <1>5, <2>2 DEF ControlDeleteAll, Rest
  <2>4. Rest'
    BY <1>3, <1>5, <2>3 DEF ControlDeleteAll, Rest
  <2>5. QED
    BY <2>1, <2>4
<1>6. CASE ControlGather \/ ControlLeave
  <2>1. Core'
    BY <1>2, <1>6, CoreSame DEF ControlGather, ControlLeave
  <2>2. stop_collection_flag' \in BOOLEAN
    BY <1>6 DEF ControlGather, ControlLeave, Rest
  <2>3. Rest'
    BY <1>3, <1>6, <2>2 DEF ControlGather, ControlLeave, Rest, countVars
  <2>4. QED
    BY <2>1, <2>3
<1>7. QED
  BY <1>4, <1>5, <1>6 DEF Control

(* Every step preserves the inductive invariant.                           *)
LEMMA StepInd == IndInv /\ [Next]_vars => IndInv'
<1> SUFFICES ASSUME IndInv, [Next]_vars PROVE IndInv'
  OBVIOUS
<1>1. now \in FirstTime .. MaxTime /\ now \in Nat
  BY FlowTrackAssumption DEF IndInv, Core
<1>2. CASE EmulatorEnd \/ SetStopsEmulatorThread \/ Tick
  <2>1. now' \in FirstTime .. MaxTime
    BY <1>1, <1>2, FlowTrackAssumption DEF EmulatorEnd, SetStopsEmulatorThread, Tick
  <2>2. Core'
    BY <1>2, <2>1, CoreSame
       DEF IndInv, EmulatorEnd, SetStopsEmulatorThread, Tick, inputVars
  <2>3. Rest'
    <3>1. CASE EmulatorEnd
      BY <3>1 DEF IndInv, Rest, EmulatorEnd, inputVars, procVars, countVars
    <3>2. CASE SetStopsEmulatorThread
      BY <3>2 DEF IndInv, Rest, SetStopsEmulatorThread, inputVars, procVars, countVars
    <3>3. CASE Tick
      BY <3>3 DEF IndInv, Rest, Tick, inputVars, procVars, countVars
    <3>4. QED
      BY <1>2, <3>1, <3>2, <3>3
  <2>4. QED
    BY <2>2, <2>3 DEF IndInv
<1>3. CASE UNCHANGED vars
  <2>1. Core'
    BY <1>1, <1>3, CoreSame DEF IndInv, vars, inputVars
  <2>2. Rest'
    BY <1>3 DEF IndInv, Rest, vars, inputVars, procVars, countVars
  <2>3. QED
    BY <2>1, <2>2 DEF IndInv
<1>4. QED
  BY <1>2, <1>3, EmulatorInd, CaptureInd, MainInd, ControlInd DEF Next

-----------------------------------------------------------------------------
(* Every state of the flow table is well typed.                            *)
THEOREM TypeCorrect == Spec => []TypeOK
<1>1. IndInv => TypeOK
  BY DEF IndInv, Core, Rest, TypeOK
<1>2. QED
  BY <1>1, InitInd, StepInd, PTL DEF Spec

(* num_flows, which main compares with max_flows and loops on until it is  *)
(* 0, is the number of flows that can expire, for tables of any size and   *)
(* any pattern of allocation failures.                                     *)
THEOREM NumFlowsCorrect == Spec => []NumFlowsExact
<1>1. IndInv => NumFlowsExact
  BY DEF IndInv, Core
<1>2. QED
  BY <1>1, InitInd, StepInd, PTL DEF Spec

(* No expiry event is ever later than the end of its flow's lifetime, for  *)
(* any choice of timeouts.                                                 *)
THEOREM LifetimeCorrect == Spec => []LifetimeBound
<1>1. IndInv => LifetimeBound
  BY DEF IndInv, Core
<1>2. QED
  BY <1>1, InitInd, StepInd, PTL DEF Spec

(* softflowd leaves after the end of the emulation only with an empty      *)
(* table.                                                                  *)
THEOREM EndExportsAllCorrect == Spec => []EndExportsAll
<1>1. Init => EndExportsAll
  BY DEF Init, EndExportsAll
<1>2. IndInv /\ EndExportsAll /\ [Next]_vars => EndExportsAll'
  <2> SUFFICES ASSUME IndInv, EndExportsAll, [Next]_vars PROVE EndExportsAll'
    OBVIOUS
  <2>1. CASE MainDrained
    <3>1. expiries = {}
      BY <2>1, FiniteSubset, FS_EmptySet DEF MainDrained, IndInv, Core, NumFlowsExact
    <3>2. QED
      BY <2>1, <3>1 DEF EndExportsAll, MainDrained, tableVars
  <2>2. CASE mode' # "emulator"
    BY <2>2 DEF EndExportsAll
  <2>3. CASE status' # "exited"
    BY <2>3 DEF EndExportsAll
  <2>4. CASE UNCHANGED vars
    BY <2>4 DEF EndExportsAll, vars, tableVars, procVars
  <2>5. ASSUME Next, ~MainDrained PROVE mode' # "emulator" \/ status' # "exited"
    <3>1. ASSUME NEW p \in Packets, process_emulator_packet(p)
          PROVE  status' # "exited"
      BY <3>1 DEF process_emulator_packet, process_emulator_packet_new,
           process_emulator_packet_known, process_emulator_packet_dropped,
           process_emulator_packet_nomem, process_emulator_packet_orphan,
           EmulatorPacket, Running
    <3>2. ASSUME NEW p \in Packets, NEW t \in FirstTime .. MaxTime, process_packet(p, t)
          PROVE  status' # "exited"
      BY <3>2 DEF process_packet, process_packet_new, process_packet_known,
           process_packet_nomem, process_packet_orphan, CapturePacket, Running
    <3>3. ASSUME MainLoop PROVE mode' # "emulator" \/ status' # "exited"
      BY <2>5, <3>3 DEF MainLoop, check_expired, MainOverFull, MainDrain,
           MainRoundDone, MainDue, MainLocked, MainCaptured, CaptureEof,
           MainStep, Running, procVars
    <3>4. ASSUME Control PROVE mode' # "emulator"
      BY <3>4 DEF Control, ControlExpireAll, ControlDeleteAll, ControlGather,
           ControlLeave, ControlStep
    <3>5. ASSUME EmulatorEnd \/ SetStopsEmulatorThread \/ Tick
          PROVE  status' # "exited"
      BY <3>5 DEF EmulatorEnd, SetStopsEmulatorThread, Tick, Running
    <3>6. QED
      BY <2>5, <3>1, <3>2, <3>3, <3>4, <3>5 DEF Next
  <2>6. QED
    BY <2>1, <2>2, <2>3, <2>4, <2>5
<1>3. QED
  BY <1>1, <1>2, InitInd, StepInd, PTL DEF Spec

-----------------------------------------------------------------------------
(* The shapes a step can have, as far as the table and its counters go.    *)

(* the table and the counters stay, the clock may tick, a flow may not be  *)
(* allocated                                                               *)
Quiet ==
    /\ UNCHANGED <<mode, tableVars, next_flow_seq, monitors, reported, countVars>>
    /\ failures' \in {failures, failures + 1}
    /\ now' \in {now, now + 1}

(* the expiry event of a new flow cannot be allocated                      *)
Orphaned(p, t) == OrphanFlow(p, t) /\ UNCHANGED <<mode, now, countVars>>

(* check_expired                                                           *)
Expires(ex, Lost) ==
    /\ ExpireFlows(ex, Lost)
    /\ ex = "all" => mode # "emulator" /\ phase # "expire"
    /\ UNCHANGED <<mode, now, inputVars>>

(* force_expire                                                            *)
Forces(S) ==
    /\ ForceOut(S)
    /\ failures' \in {failures, failures + 1}
    /\ num_flows > MaxFlows \/ stops
    /\ UNCHANGED <<mode, now, inputVars>>

(* Every step has one of these shapes.                                     *)
LEMMA Shapes ==
  ASSUME [Next]_vars
  PROVE  \/ Quiet
         \/ \E p \in Packets : process_emulator_packet_new(p)
         \/ \E p \in Packets : process_emulator_packet_known(p)
         \/ \E p \in Packets, t \in FirstTime .. MaxTime : process_packet_new(p, t)
         \/ \E p \in Packets, t \in FirstTime .. MaxTime : process_packet_known(p, t)
         \/ \E p \in Packets, t \in {now} \cup FirstTime .. MaxTime : Orphaned(p, t)
         \/ \E ex, Lost : Expires(ex, Lost)
         \/ \E S \in SUBSET expiries : Forces(S)
         \/ ControlDeleteAll
<1>1. ASSUME NEW p \in Packets, process_emulator_packet(p),
             ~process_emulator_packet_new(p), ~process_emulator_packet_known(p)
      PROVE  Quiet \/ Orphaned(p, now)
  BY <1>1 DEF process_emulator_packet, process_emulator_packet_dropped,
       process_emulator_packet_nomem, process_emulator_packet_orphan,
       EmulatorPacket, NewFlowFails, Fails, procVars, Quiet, Orphaned
<1>2. ASSUME NEW p \in Packets, NEW t \in FirstTime .. MaxTime, process_packet(p, t),
             ~process_packet_new(p, t), ~process_packet_known(p, t)
      PROVE  Quiet \/ Orphaned(p, t)
  BY <1>2 DEF process_packet, process_packet_nomem, process_packet_orphan,
       CapturePacket, NewFlowFails, Fails, Quiet, Orphaned
<1>3. ASSUME check_expired PROVE \E ex, Lost : Expires(ex, Lost)
  <2> DEFINE ex == IF mode = "file" THEN "forced" ELSE "normal"
  <2>1. PICK Lost : ExpireFlows(ex, Lost)
    BY <1>3 DEF check_expired
  <2>2. ex # "all" /\ UNCHANGED <<mode, now, inputVars>>
    BY <1>3 DEF check_expired, MainStep, procVars
  <2> HIDE DEF ex
  <2>3. Expires(ex, Lost)
    BY <2>1, <2>2 DEF Expires
  <2>4. QED
    BY <2>3
<1>4. ASSUME ControlExpireAll PROVE \E ex, Lost : Expires(ex, Lost)
  <2>1. PICK Lost : ExpireFlows("all", Lost)
    BY <1>4 DEF ControlExpireAll
  <2>2. mode # "emulator" /\ phase # "expire" /\ UNCHANGED <<mode, now, inputVars>>
    BY <1>4 DEF ControlExpireAll, ControlStep
  <2>3. Expires("all", Lost)
    BY <2>1, <2>2 DEF Expires
  <2>4. QED
    BY <2>3
<1>5. ASSUME MainOverFull \/ MainDrain PROVE \E S \in SUBSET expiries : Forces(S)
  <2>1. PICK n : force_expire(n)
    BY <1>5 DEF MainOverFull, MainDrain
  <2>2. /\ UNCHANGED <<mode, now, inputVars>>
        /\ num_flows > MaxFlows \/ stops
    BY <1>5 DEF MainOverFull, MainDrain, MainStep, procVars
  <2>3. PICK S \in SUBSET expiries : ForceOut(S) /\ failures' \in {failures, failures + 1}
    BY <2>1 DEF force_expire, Oldest, Fails
  <2>4. Forces(S)
    BY <2>2, <2>3 DEF Forces
  <2>5. QED
    BY <2>4
<1>6. ASSUME MainDrained \/ MainRoundDone \/ MainDue \/ MainLocked
             \/ MainCaptured \/ CaptureEof
      PROVE  Quiet
  BY <1>6 DEF MainDrained, MainRoundDone, MainDue, MainLocked, MainCaptured,
       CaptureEof, MainStep, procVars, inputVars, Quiet
<1>7. ASSUME ControlGather \/ ControlLeave PROVE Quiet
  BY <1>7 DEF ControlGather, ControlLeave, ControlStep, inputVars, Quiet
<1>8. ASSUME EmulatorEnd \/ SetStopsEmulatorThread \/ Tick PROVE Quiet
  BY <1>8 DEF EmulatorEnd, SetStopsEmulatorThread, Tick, procVars, inputVars, Quiet
<1>9. ASSUME UNCHANGED vars PROVE Quiet
  BY <1>9 DEF vars, procVars, inputVars, Quiet
<1>10. QED
  BY <1>1, <1>2, <1>3, <1>4, <1>5, <1>6, <1>7, <1>8, <1>9
     DEF Next, process_emulator_packet, process_packet, MainLoop, Control

-----------------------------------------------------------------------------
(* FlowsAccounted *)

(* FlowsAccounted with the sum of the counters as a Total                  *)
Accounts ==
    /\ next_flow_seq - 1 =
           num_flows + Cardinality(orphans) + flows_expired + gone
    /\ Total(expired) \in flows_expired .. flows_expired + gone

(* MapThenSumSet over the values of a function is its Total.               *)
LEMMA SumIsTotal ==
  ASSUME NEW S, NEW f \in [S -> Int]
  PROVE  MapThenSumSet(LAMBDA x : f[x], S) = Total(f)
<1>1. DOMAIN f = S
  OBVIOUS
<1>2. QED
  BY <1>1 DEF Total, IsSum, Some, MapThenSumSet, MapThenFoldSet

(* There are finitely many reasons of expiry.                              *)
LEMMA ReasonsFinite == IsFiniteSet(Reasons)
<1>1. ASSUME NEW x, NEW y PROVE IsFiniteSet({x, y})
  <2>1. {x, y} = {x} \cup {y}
    OBVIOUS
  <2>2. IsFiniteSet({x}) /\ IsFiniteSet({y})
    BY FS_Singleton
  <2>3. IsFiniteSet({x} \cup {y})
    BY <2>2, FS_Union
  <2>4. QED
    BY <2>1, <2>3
<1> DEFINE A == {"general", "tcp"} \cup {"tcp_rst", "tcp_fin"}
           B == {"udp", "icmp"} \cup {"maxlife", "overbytes"}
<1>2. IsFiniteSet(A) /\ IsFiniteSet(B)
  BY <1>1, FS_Union
<1>3. Reasons = (A \cup B) \cup {"overflows", "flush"}
  BY DEF Reasons
<1> HIDE DEF A, B
<1>4. QED
  BY <1>1, <1>2, <1>3, FS_Union

(* update_expiry_stats counts each flow that leaves for one reason.        *)
LEMMA ExpiredGrows ==
  ASSUME IndInv, NEW ex, NEW Lost, ExpireFlows(ex, Lost)
  PROVE  LET E == {k \in expiries : Expirable(k, ex)} IN
         Total(expired') = Total(expired) + Cardinality(E)
<1> DEFINE E == {k \in expiries : Expirable(k, ex)}
           class == [k \in E |-> FinalReason(k, ex)]
<1>1. E \in SUBSET Keys
  BY DEF IndInv, Core
<1>2. expired' = [r \in Reasons |->
            expired[r] + Cardinality({k \in E : FinalReason(k, ex) = r})]
  BY DEF ExpireFlows
<1> HIDE DEF E
<1>3. ASSUME NEW k \in E PROVE FinalReason(k, ex) \in Reasons
  <2>1. flow[k].reason \in Reasons
    BY <1>1 DEF IndInv, Core, FlowType
  <2>2. QED
    BY <2>1 DEF FinalReason, Reasons
<1>4. class \in [E -> Reasons]
  BY <1>3
<1>5. \A r \in Reasons : {k \in E : FinalReason(k, ex) = r} = {k \in E : class[k] = r}
  OBVIOUS
<1>6. expired' = [r \in Reasons |-> expired[r] + Cardinality({k \in E : class[k] = r})]
  BY <1>2, <1>5
<1> HIDE DEF class
<1>7. IsFiniteSet(E)
  BY <1>1, FiniteSubset
<1>8. expired \in [Reasons -> Int]
  BY DEF IndInv, Rest
<1>9. Total([r \in Reasons |-> expired[r] + Cardinality({k \in E : class[k] = r})])
        = Total(expired) + Cardinality(E)
  BY <1>4, <1>7, <1>8, ReasonsFinite, TotalCount
<1>10. QED
  BY <1>6, <1>9 DEF E

(* Every step keeps the accounts.                                          *)
LEMMA AccountsStep == IndInv /\ Accounts /\ [Next]_vars => Accounts'
<1> SUFFICES ASSUME IndInv, Accounts, [Next]_vars PROVE Accounts'
  OBVIOUS
<1>1. /\ num_flows \in Nat /\ next_flow_seq \in Nat
      /\ flows_expired \in Nat /\ gone \in Nat
      /\ expiries \in SUBSET Keys /\ orphans \in SUBSET Keys
  BY DEF IndInv, Core, Rest
<1>2. Cardinality(orphans) \in Nat /\ Total(expired) \in Int
  <2>1. expired \in [Reasons -> Int]
    BY DEF IndInv, Rest
  <2>2. QED
    BY <1>1, <2>1, FiniteSubset, ReasonsFinite, TotalType
<1>3. ASSUME UNCHANGED <<orphans, expired, flows_expired, gone>>,
             \/ UNCHANGED <<next_flow_seq, num_flows>>
             \/ next_flow_seq' = next_flow_seq + 1 /\ num_flows' = num_flows + 1
      PROVE  Accounts'
  BY <1>1, <1>2, <1>3 DEF Accounts
<1>4. CASE Quiet
  BY <1>3, <1>4 DEF Quiet, tableVars, countVars
<1>5. ASSUME NEW p \in Packets, process_emulator_packet_new(p) PROVE Accounts'
  BY <1>3, <1>5 DEF process_emulator_packet_new, EmulatorPacket, InsertFlow, countVars
<1>6. ASSUME NEW p \in Packets, process_emulator_packet_known(p) PROVE Accounts'
  BY <1>3, <1>6 DEF process_emulator_packet_known, EmulatorPacket, ReplaceFlow, countVars
<1>7. ASSUME NEW p, NEW t, process_packet_new(p, t) PROVE Accounts'
  BY <1>3, <1>7 DEF process_packet_new, CapturePacket, InsertFlow, countVars
<1>8. ASSUME NEW p, NEW t, process_packet_known(p, t) PROVE Accounts'
  BY <1>3, <1>8 DEF process_packet_known, CapturePacket, ReplaceFlow, countVars
<1>9. ASSUME NEW p \in Packets, NEW t, Orphaned(p, t) PROVE Accounts'
  <2>1. p.key \notin orphans /\ orphans' = orphans \cup {p.key}
    BY <1>9 DEF Orphaned, OrphanFlow, InTree
  <2>2. Cardinality(orphans') = Cardinality(orphans) + 1
    BY <1>1, <2>1, FiniteSubset, FS_AddElement
  <2>3. /\ next_flow_seq' = next_flow_seq + 1
        /\ UNCHANGED <<num_flows, flows_expired, gone, expired>>
    BY <1>9 DEF Orphaned, OrphanFlow, countVars
  <2>4. PICK c, d : c = Cardinality(orphans) /\ d = Cardinality(orphans')
    OBVIOUS
  <2>5. next_flow_seq' - 1 = num_flows' + d + flows_expired' + gone'
    <3>1. next_flow_seq - 1 = num_flows + c + flows_expired + gone
      BY <2>4 DEF Accounts
    <3>2. c \in Nat /\ d = c + 1
      BY <1>2, <2>2, <2>4
    <3>3. QED
      BY <1>1, <2>3, <3>1, <3>2
  <2>6. QED
    BY <2>3, <2>4, <2>5 DEF Accounts
<1>10. ASSUME NEW ex, NEW Lost, Expires(ex, Lost) PROVE Accounts'
  <2> DEFINE E == {k \in expiries : Expirable(k, ex)}
  <2>1. /\ Lost \subseteq E /\ E \in SUBSET Keys /\ E \subseteq expiries
        /\ num_flows' = num_flows - Cardinality(E)
        /\ flows_expired' = flows_expired + Cardinality(E \ Lost)
        /\ gone' = gone + Cardinality(Lost)
        /\ UNCHANGED <<orphans, next_flow_seq>>
    BY <1>1, <1>10 DEF Expires, ExpireFlows, Remove, inputVars
  <2>2. Total(expired') = Total(expired) + Cardinality(E)
    BY <1>10, ExpiredGrows DEF Expires
  <2> HIDE DEF E
  <2>3. /\ Cardinality(E) \in Nat /\ Cardinality(Lost) \in Nat
        /\ Cardinality(E \ Lost) \in Nat
    BY <2>1, FiniteSubset
  <2>4. Cardinality(E) = Cardinality(E \ Lost) + Cardinality(Lost)
    <3>1. Cardinality(E \ Lost) = Cardinality(E) - Cardinality(E \cap Lost)
      BY <2>1, FiniteSubset, FS_Difference
    <3>2. E \cap Lost = Lost
      BY <2>1
    <3>3. Cardinality(E \ Lost) = Cardinality(E) - Cardinality(Lost)
      BY <3>1, <3>2
    <3>4. QED
      BY <2>3, <3>3
  <2>5. next_flow_seq' - 1 =
           num_flows' + Cardinality(orphans') + flows_expired' + gone'
    BY <1>1, <1>2, <2>1, <2>3, <2>4 DEF Accounts
  <2>6. Total(expired') \in flows_expired' .. flows_expired' + gone'
    BY <1>1, <1>2, <2>1, <2>2, <2>3, <2>4 DEF Accounts
  <2>7. QED
    BY <2>5, <2>6 DEF Accounts
<1>11. ASSUME NEW S, Forces(S) PROVE Accounts'
  BY <1>3, <1>11 DEF Forces, ForceOut, inputVars
<1>12. CASE ControlDeleteAll
  <2>1. /\ num_flows' = num_flows - Cardinality(expiries)
        /\ gone' = gone + Cardinality(expiries)
        /\ UNCHANGED <<orphans, next_flow_seq, flows_expired, expired>>
    BY <1>12 DEF ControlDeleteAll, ControlStep, Remove, inputVars
  <2>2. Cardinality(expiries) \in Nat
    BY <1>1, FiniteSubset
  <2>3. QED
    BY <1>1, <1>2, <2>1, <2>2 DEF Accounts
<1>13. QED
  BY <1>4, <1>5, <1>6, <1>7, <1>8, <1>9, <1>10, <1>11, <1>12, Shapes

(* No flow is lost or counted twice: each one ever opened is still in a    *)
(* tree, in flows_expired or in gone, and the reasons of expiry add up,    *)
(* for tables of any size and any pattern of failed allocations.           *)
THEOREM AccountsCorrect == Spec => []FlowsAccounted
<1>1. Init => Accounts
  <2> SUFFICES ASSUME Init PROVE Accounts
    OBVIOUS
  <2>1. expired \in [Reasons -> Int] /\ \A r \in Reasons : expired[r] = 0
    BY DEF Init
  <2>2. Total(expired) = 0
    BY <2>1, ReasonsFinite, TotalType
  <2>3. Cardinality(orphans) = 0
    BY FS_EmptySet DEF Init
  <2>4. QED
    BY <2>2, <2>3 DEF Init, Accounts
<1>2. IndInv /\ Accounts => FlowsAccounted
  <2> SUFFICES ASSUME IndInv, Accounts PROVE FlowsAccounted
    OBVIOUS
  <2>1. expired \in [Reasons -> Int]
    BY DEF IndInv, Rest
  <2>2. MapThenSumSet(LAMBDA r : expired[r], Reasons) = Total(expired)
    BY <2>1, SumIsTotal
  <2>3. QED
    BY <2>2 DEF Accounts, FlowsAccounted
<1>3. QED
  BY <1>1, <1>2, InitInd, StepInd, AccountsStep, PTL DEF Spec

-----------------------------------------------------------------------------
(* MonitorConservation *)

(* A flow knows only monitors of the list, and what the monitors reported  *)
(* is in a record or in a flow.                                            *)
Conserved ==
    /\ \A k \in expiries : \A m \in Monitors \ monitors : flow[k].stat[0][m] = Absent
    /\ (mode = "emulator" /\ failures = 0) =>
           \A m \in Monitors :
               reported[0][m] = exported[0][m] + Total(HeldIn(expiries, 0, m))

(* what packet p adds to the count of monitor m in direction 0             *)
Hit(p, m) == IF p.dir = 0 /\ p.monitor = m THEN 1 ELSE 0

(* flow_update_expiry changes the expiry event only.                       *)
LEMMA UpdateKeeps ==
  ASSUME NEW k \in Keys, NEW f \in FlowType
  PROVE  LET g == flow_update_expiry(k, f) IN
         /\ g.stat = f.stat /\ g.start = f.start /\ g.last = f.last
         /\ g.octets = f.octets /\ g.seq = f.seq
         /\ g.rst = f.rst /\ g.fin = f.fin
<1>1. ASSUME NEW a, NEW r
      PROVE  LET g == [f EXCEPT !.expires_at = a, !.reason = r] IN
             /\ g.stat = f.stat /\ g.start = f.start /\ g.last = f.last
             /\ g.octets = f.octets /\ g.seq = f.seq
             /\ g.rst = f.rst /\ g.fin = f.fin
  BY DEF FlowType
<1>2. \E a, r : flow_update_expiry(k, f) = [f EXCEPT !.expires_at = a, !.reason = r]
  BY DEF flow_update_expiry
<1>3. QED
  BY <1>1, <1>2

(* A new flow adds its own count to those of the table.                    *)
LEMMA HeldInsert ==
  ASSUME Core, NEW k \in Keys, k \notin expiries, NEW f \in FlowType,
         InsertFlow(k, f), NEW m \in Monitors, NEW n \in Nat,
         f.stat[0][m] = n \/ (f.stat[0][m] = Absent /\ n = 0)
  PROVE  Total(HeldIn(expiries, 0, m)') = Total(HeldIn(expiries, 0, m)) + n
<1>1. PICK F : F = HeldIn(expiries, 0, m)
  OBVIOUS
<1>2. PICK G : G = HeldIn(expiries, 0, m)'
  OBVIOUS
<1>3. PICK S : S = expiries
  OBVIOUS
<1>4. /\ expiries' = S \cup {k} /\ flow' = [flow EXCEPT ![k] = f]
      /\ flow \in [Keys -> FlowType] /\ S \in SUBSET Keys /\ k \notin S
  BY <1>3 DEF InsertFlow, Core
<1>5. F \in [S -> Nat] /\ IsFiniteSet(S) /\ IsFiniteSet(S \cup {k})
  <2>1. 0 \in Dirs
    BY DEF Dirs
  <2>2. QED
    BY <1>1, <1>3, <1>4, <2>1, PacketsNat, FS_AddElement
<1>6. G = [x \in S \cup {k} |->
             IF flow'[x].stat[0][m] = Absent THEN 0 ELSE flow'[x].stat[0][m]]
  BY <1>2, <1>4 DEF HeldIn, Count
<1>7. flow'[k] = f /\ \A x \in S : flow'[x] = flow[x]
  BY <1>4
<1>8. G[k] = n
  BY <1>6, <1>7 DEF Absent
<1>9. \A x \in S : G[x] = F[x]
  BY <1>1, <1>3, <1>6, <1>7 DEF HeldIn, Count
<1>10. G \in [S \cup {k} -> Int]
  <2>1. \A x \in S \cup {k} : G[x] \in Int
    BY <1>5, <1>8, <1>9
  <2>2. G = [x \in S \cup {k} |-> G[x]]
    BY <1>6
  <2>3. QED
    BY <2>1, <2>2
<1>11. Total(G) = G[k] + Total([x \in (S \cup {k}) \ {k} |-> G[x]])
  BY <1>5, <1>10, TotalStep
<1>12. [x \in (S \cup {k}) \ {k} |-> G[x]] = F
  <2>1. (S \cup {k}) \ {k} = S
    BY <1>4
  <2>2. F = [x \in S |-> G[x]]
    BY <1>5, <1>9
  <2>3. QED
    BY <2>1, <2>2
<1>13. Total(F) \in Nat
  BY <1>5, TotalNat
<1>14. Total(G) = Total(F) + n
  BY <1>8, <1>11, <1>12, <1>13
<1>15. QED
  BY <1>1, <1>2, <1>14

(* An update of a flow changes the total by what it changes the flow's     *)
(* count.                                                                  *)
LEMMA HeldReplace ==
  ASSUME Core, NEW k \in expiries, NEW f \in FlowType, ReplaceFlow(k, f),
         NEW m \in Monitors, NEW n \in Nat,
         \/ f.stat[0][m] = flow[k].stat[0][m] /\ n = 0
         \/ flow[k].stat[0][m] = Absent /\ f.stat[0][m] = 1 /\ n = 1
         \/ flow[k].stat[0][m] # Absent /\ f.stat[0][m] = flow[k].stat[0][m] + 1 /\ n = 1
  PROVE  Total(HeldIn(expiries, 0, m)') = Total(HeldIn(expiries, 0, m)) + n
<1>1. PICK F : F = HeldIn(expiries, 0, m)
  OBVIOUS
<1>2. PICK G : G = HeldIn(expiries, 0, m)'
  OBVIOUS
<1>3. PICK S : S = expiries
  OBVIOUS
<1>4. /\ expiries' = S /\ flow' = [flow EXCEPT ![k] = f]
      /\ flow \in [Keys -> FlowType] /\ S \in SUBSET Keys /\ k \in S
  BY <1>3 DEF ReplaceFlow, Core
<1>5. F \in [S -> Nat] /\ IsFiniteSet(S) /\ 0 \in Dirs
  <2>1. 0 \in Dirs
    BY DEF Dirs
  <2>2. QED
    BY <1>1, <1>3, <1>4, <2>1, PacketsNat
<1>6. /\ F = [x \in S |-> IF flow[x].stat[0][m] = Absent THEN 0 ELSE flow[x].stat[0][m]]
      /\ G = [x \in S |-> IF flow'[x].stat[0][m] = Absent THEN 0 ELSE flow'[x].stat[0][m]]
  BY <1>1, <1>2, <1>3, <1>4 DEF HeldIn, Count
<1>7. flow'[k] = f /\ \A x \in S \ {k} : flow'[x] = flow[x]
  BY <1>4
<1>8. flow[k].stat[0][m] \in Nat \cup {Absent}
  BY <1>4, <1>5 DEF FlowType
<1>9. G[k] = F[k] + n
  <2>1. PICK a, b : a = flow[k].stat[0][m] /\ b = f.stat[0][m]
    OBVIOUS
  <2>2. F[k] = (IF a = Absent THEN 0 ELSE a) /\ G[k] = (IF b = Absent THEN 0 ELSE b)
    BY <1>4, <1>6, <1>7, <2>1
  <2>3. \/ a = b /\ n = 0
        \/ a = Absent /\ b = 1 /\ n = 1
        \/ a # Absent /\ b = a + 1 /\ n = 1
    BY <2>1
  <2>4. a \in Nat \cup {Absent}
    BY <1>8, <2>1
  <2>5. QED
    BY <2>2, <2>3, <2>4 DEF Absent
<1>10. \A x \in S \ {k} : G[x] = F[x]
  BY <1>6, <1>7
<1>11. F \in [S -> Int] /\ G \in [S -> Int]
  <2>1. \A x \in S : G[x] \in Int
    BY <1>4, <1>5, <1>9, <1>10
  <2>2. G = [x \in S |-> G[x]]
    BY <1>6
  <2>3. QED
    BY <1>5, <2>1, <2>2
<1>12. Total(G) = Total(F) + n
  BY <1>4, <1>5, <1>9, <1>10, <1>11, TotalChange
<1>13. QED
  BY <1>1, <1>2, <1>12

(* Flows that leave take their counts with them.                           *)
LEMMA HeldRemove ==
  ASSUME Core, NEW E \in SUBSET expiries, Remove(E), NEW m \in Monitors
  PROVE  Total(HeldIn(expiries, 0, m)) = PacketsOf(E, 0, m) + Total(HeldIn(expiries, 0, m)')
<1>1. PICK F : F = HeldIn(expiries, 0, m)
  OBVIOUS
<1>2. PICK G : G = HeldIn(expiries, 0, m)'
  OBVIOUS
<1>3. PICK S : S = expiries
  OBVIOUS
<1>4. /\ expiries' = S \ E /\ E \in SUBSET S /\ S \in SUBSET Keys
      /\ \A k \in S \ E : flow'[k] = flow[k]
  BY <1>3 DEF Core, Remove
<1>5. F \in [S -> Int] /\ IsFiniteSet(S)
  <2>1. 0 \in Dirs
    BY DEF Dirs
  <2>2. F \in [S -> Nat] /\ IsFiniteSet(S)
    BY <1>1, <1>3, <1>4, <2>1, PacketsNat DEF Core
  <2>3. QED
    BY <2>2
<1>6. G = [x \in S \ E |-> F[x]]
  BY <1>1, <1>2, <1>3, <1>4 DEF HeldIn, Count
<1>7. HeldIn(E, 0, m) = [x \in E |-> F[x]]
  BY <1>1, <1>3, <1>4 DEF HeldIn
<1>8. Total(F) = Total([x \in E |-> F[x]]) + Total([x \in S \ E |-> F[x]])
  BY <1>4, <1>5, TotalSplit
<1>9. PacketsOf(E, 0, m) = Total([x \in E |-> F[x]])
  BY <1>7, PacketsTotal
<1>10. QED
  BY <1>1, <1>2, <1>6, <1>8, <1>9

(* The table and the counts stay as they were.                             *)
LEMMA ConservedSame ==
  ASSUME Conserved, UNCHANGED <<mode, expiries, monitors, reported, exported>>,
         flow \in [Keys -> FlowType], expiries \in SUBSET Keys,
         \A k \in expiries : flow'[k].stat = flow[k].stat,
         failures' = 0 => failures = 0
  PROVE  Conserved'
<1>1. ASSUME NEW m PROVE HeldIn(expiries, 0, m)' = HeldIn(expiries, 0, m)
  BY DEF HeldIn, Count
<1>2. ASSUME NEW m PROVE Total(HeldIn(expiries, 0, m))' = Total(HeldIn(expiries, 0, m))
  BY <1>1 DEF Total
<1>3. \A k \in expiries' : \A m \in Monitors \ monitors' : flow'[k].stat[0][m] = Absent
  BY DEF Conserved
<1>4. ASSUME mode' = "emulator", failures' = 0, NEW m \in Monitors
      PROVE  reported'[0][m] = exported'[0][m] + Total(HeldIn(expiries, 0, m))'
  BY <1>2, <1>4 DEF Conserved
<1>5. QED
  BY <1>3, <1>4 DEF Conserved

(* A packet of the emulator is counted once.                               *)
LEMMA ConservedEmulator ==
  ASSUME IndInv, Conserved, NEW p \in Packets,
         process_emulator_packet_new(p) \/ process_emulator_packet_known(p)
  PROVE  Conserved'
<1>1. /\ p.key \in Keys /\ p.dir \in {0, 1} /\ p.monitor \in Monitors
  BY FlowTrackAssumption DEF PacketType, Dirs
<1>2. /\ mode' = mode /\ exported' = exported /\ reported' = ReportedBy(p)
      /\ monitors' = monitors \cup {p.monitor} /\ failures' = failures
  BY DEF process_emulator_packet_new, process_emulator_packet_known,
         EmulatorPacket, procVars, countVars, InsertFlow, ReplaceFlow
<1>3. /\ reported \in [Dirs -> [Monitors -> Nat]] /\ exported \in [Dirs -> [Monitors -> Nat]]
      /\ Core /\ flow \in [Keys -> FlowType] /\ expiries \in SUBSET Keys
      /\ now \in Nat /\ next_flow_seq \in Nat
  BY FlowTrackAssumption DEF IndInv, Core, Rest
<1>4. ASSUME NEW m \in Monitors
      PROVE  reported'[0][m] = reported[0][m] + Hit(p, m)
  <2>1. ReportedBy(p)[0][m] = reported[0][m] + Hit(p, m)
    BY <1>1, <1>3 DEF ReportedBy, Hit, Dirs
  <2>2. QED
    BY <1>2, <2>1
<1>5. \A m \in Monitors : Hit(p, m) \in Nat
  BY DEF Hit
<1>6. ASSUME \A m \in Monitors :
               Total(HeldIn(expiries, 0, m)') = Total(HeldIn(expiries, 0, m)) + Hit(p, m),
             \A k \in expiries' : \A m \in Monitors \ monitors' : flow'[k].stat[0][m] = Absent
      PROVE  Conserved'
  <2>1. ASSUME mode' = "emulator", failures' = 0, NEW m \in Monitors
        PROVE  reported'[0][m] = exported'[0][m] + Total(HeldIn(expiries, 0, m)')
    <3>1. reported[0][m] = exported[0][m] + Total(HeldIn(expiries, 0, m))
      BY <1>2, <2>1 DEF Conserved
    <3>2. Total(HeldIn(expiries, 0, m)) \in Nat /\ exported[0][m] \in Nat
      <4>1. 0 \in Dirs
        BY DEF Dirs
      <4>2. QED
        BY <1>3, <4>1, PacketsNat, PacketsTotal
    <3>3. PICK a, b, c, d, e :
             /\ a = reported[0][m] /\ b = exported[0][m]
             /\ c = Total(HeldIn(expiries, 0, m)) /\ d = Total(HeldIn(expiries, 0, m)')
             /\ e = Hit(p, m)
      OBVIOUS
    <3>4. a = b + c /\ d = c + e /\ b \in Nat /\ c \in Nat /\ e \in Nat
      BY <1>5, <1>6, <3>1, <3>2, <3>3
    <3>5. a + e = b + d
      BY <3>4
    <3>6. reported'[0][m] = a + e /\ exported'[0][m] = b
      BY <1>2, <1>4, <3>3
    <3>7. QED
      BY <3>3, <3>5, <3>6
  <2>2. \A m : Total(HeldIn(expiries, 0, m)') = Total(HeldIn(expiries, 0, m))'
    BY DEF Total, HeldIn, Count, IsSum
  <2>3. QED
    BY <1>6, <2>1, <2>2 DEF Conserved
<1>7. CASE process_emulator_packet_new(p)
  <2> DEFINE s == IF p.dir = 0 THEN 1 ELSE 0
             f == [NewFlow(p, now) EXCEPT !.stat[p.dir][p.monitor] = s]
  <2>1. NewFlow(p, now) \in FlowType /\ NewFlow(p, now).stat = NoStat
    BY <1>3, NewFlowType
  <2>2. f \in FlowType /\ f.stat = [NoStat EXCEPT ![p.dir][p.monitor] = s]
    <3>1. s \in Nat /\ p.dir \in Dirs
      BY <1>1 DEF Dirs
    <3> HIDE DEF s
    <3>2. QED
      BY <1>1, <2>1, <3>1 DEF FlowType
  <2>3. InsertFlow(p.key, f) /\ p.key \notin expiries
    BY <1>7 DEF process_emulator_packet_new, InTree
  <2> HIDE DEF f
  <2>4. ASSUME NEW m \in Monitors
        PROVE  f.stat[0][m] = IF p.dir = 0 /\ p.monitor = m THEN 1 ELSE Absent
    BY <1>1, <2>2 DEF NoStat, Dirs
  <2>5. ASSUME NEW m \in Monitors
        PROVE  Total(HeldIn(expiries, 0, m)') = Total(HeldIn(expiries, 0, m)) + Hit(p, m)
    <3>1. f.stat[0][m] = Hit(p, m) \/ (f.stat[0][m] = Absent /\ Hit(p, m) = 0)
      BY <2>4 DEF Hit
    <3>2. QED
      <4>1. Hit(p, m) \in Nat /\ p.key \in Keys
        BY <1>1 DEF Hit
      <4>2. QED
        BY <1>3, <1>5, <2>2, <2>3, <3>1, <4>1, HeldInsert, ZenonT(60)
  <2>6. \A k \in expiries' : \A m \in Monitors \ monitors' : flow'[k].stat[0][m] = Absent
    <3>1. /\ expiries' = expiries \cup {p.key} /\ flow'[p.key] = f
          /\ \A k \in expiries : flow'[k] = flow[k]
      BY <1>1, <1>3, <2>3 DEF InsertFlow
    <3>2. \A m \in Monitors \ monitors' : f.stat[0][m] = Absent
      BY <1>2, <2>4
    <3>3. QED
      BY <1>2, <3>1, <3>2 DEF Conserved
  <2>7. QED
    BY <1>6, <2>5, <2>6
<1>8. CASE process_emulator_packet_known(p)
  <2> DEFINE f == flow[p.key]
             h == IF p.again THEN f ELSE Counted(f, p, now)
             g == [h EXCEPT !.stat = AddStat(f, p)]
             u == flow_update_expiry(p.key, g)
  <2>1. f \in FlowType
    BY <1>1, <1>3
  <2>2. h \in FlowType
    BY <1>3, <2>1, CountedType
  <2>3. AddStat(f, p) \in [Dirs -> [Monitors -> Nat \cup {Absent}]]
    BY <1>1, <2>1 DEF AddStat, FlowType, Absent, Dirs
  <2>4. g \in FlowType /\ g.stat = AddStat(f, p)
    <3> HIDE DEF h
    <3>1. QED
      BY <2>2, <2>3 DEF FlowType
  <2>5. p.key \in expiries /\ ReplaceFlow(p.key, u)
    BY <1>8 DEF process_emulator_packet_known
  <2> HIDE DEF g
  <2>6. u \in FlowType /\ u.stat = AddStat(f, p)
    BY <1>1, <2>4, UpdateType, UpdateKeeps
  <2> HIDE DEF u
  <2>7. ASSUME NEW m \in Monitors
        PROVE  u.stat[0][m] =
                 IF p.dir = 0 /\ p.monitor = m
                 THEN IF f.stat[0][m] = Absent THEN 1 ELSE f.stat[0][m] + 1
                 ELSE f.stat[0][m]
    BY <1>1, <2>1, <2>6 DEF AddStat, FlowType, Dirs
  <2>8. ASSUME NEW m \in Monitors
        PROVE  Total(HeldIn(expiries, 0, m)') = Total(HeldIn(expiries, 0, m)) + Hit(p, m)
    <3>1. \/ u.stat[0][m] = f.stat[0][m] /\ Hit(p, m) = 0
          \/ f.stat[0][m] = Absent /\ u.stat[0][m] = 1 /\ Hit(p, m) = 1
          \/ f.stat[0][m] # Absent /\ u.stat[0][m] = f.stat[0][m] + 1 /\ Hit(p, m) = 1
      BY <2>7 DEF Hit
    <3>2. QED
      BY <1>3, <1>5, <2>5, <2>6, <3>1, HeldReplace
  <2>9. \A k \in expiries' : \A m \in Monitors \ monitors' : flow'[k].stat[0][m] = Absent
    <3>1. /\ expiries' = expiries /\ flow'[p.key] = u
          /\ \A k \in expiries \ {p.key} : flow'[k] = flow[k]
      BY <1>1, <1>3, <2>5 DEF ReplaceFlow
    <3>2. \A m \in Monitors \ monitors' : u.stat[0][m] = Absent
      BY <1>2, <2>5, <2>7 DEF Conserved
    <3>3. QED
      BY <1>2, <3>1, <3>2 DEF Conserved
  <2>10. QED
    BY <1>6, <2>8, <2>9
<1>9. QED
  BY <1>7, <1>8

(* check_expired moves counts from flows to records.                       *)
LEMMA ConservedExpires ==
  ASSUME IndInv, Conserved, NEW ex, NEW Lost, Expires(ex, Lost)
  PROVE  Conserved'
<1> DEFINE E == {k \in expiries : Expirable(k, ex)}
<1>1. /\ Core /\ flow \in [Keys -> FlowType] /\ expiries \in SUBSET Keys
      /\ failures \in Nat /\ exported \in [Dirs -> [Monitors -> Nat]] /\ 0 \in Dirs
  BY DEF IndInv, Core, Rest, Dirs
<1>2. /\ Remove(E) /\ E \in SUBSET expiries /\ Lost \in SUBSET E
      /\ failures' = failures + Cardinality(Lost)
      /\ UNCHANGED <<mode, monitors, reported>>
  BY DEF Expires, ExpireFlows, inputVars
<1>3. ASSUME NEW m \in Monitors
      PROVE  exported'[0][m] = exported[0][m] +
                (IF m \in monitors THEN PacketsOf(E \ Lost, 0, m) ELSE 0)
  BY <1>1 DEF Expires, ExpireFlows
<1> HIDE DEF E
<1>4. expiries' = expiries \ E /\ \A k \in expiries \ E : flow'[k] = flow[k]
  BY <1>1, <1>2 DEF Remove
<1>5. \A k \in expiries' : \A m \in Monitors \ monitors' : flow'[k].stat[0][m] = Absent
  BY <1>2, <1>4 DEF Conserved
<1>6. ASSUME mode' = "emulator", failures' = 0, NEW m \in Monitors
      PROVE  reported'[0][m] = exported'[0][m] + Total(HeldIn(expiries, 0, m)')
  <2>1. Cardinality(Lost) \in Nat /\ IsFiniteSet(Lost)
    BY <1>1, <1>2, FiniteSubset
  <2>2. failures = 0 /\ Cardinality(Lost) = 0
    BY <1>1, <1>2, <1>6, <2>1
  <2>3. Lost = {}
    BY <2>1, <2>2, FS_EmptySet
  <2>4. E \ Lost = E
    BY <2>3
  <2>5. reported[0][m] = exported[0][m] + Total(HeldIn(expiries, 0, m))
    BY <1>2, <1>6, <2>2 DEF Conserved
  <2>6. Total(HeldIn(expiries, 0, m)) = PacketsOf(E, 0, m) + Total(HeldIn(expiries, 0, m)')
    BY <1>1, <1>2, HeldRemove
  <2>7. m \notin monitors => PacketsOf(E, 0, m) = 0
    <3> SUFFICES ASSUME m \notin monitors PROVE PacketsOf(E, 0, m) = 0
      OBVIOUS
    <3>1. \A k \in E : Count(k, 0, m) = 0
      BY <1>2 DEF Conserved, Count
    <3>2. HeldIn(E, 0, m) \in [E -> Int] /\ \A k \in E : HeldIn(E, 0, m)[k] = 0
      BY <3>1 DEF HeldIn
    <3>3. IsFiniteSet(E)
      BY <1>1, <1>2, FiniteSubset
    <3>4. QED
      BY <3>2, <3>3, PacketsTotal, TotalType
  <2>8. exported'[0][m] = exported[0][m] + PacketsOf(E, 0, m)
    <3>1. exported[0][m] \in Nat
      BY <1>1
    <3>2. QED
      BY <1>3, <2>4, <2>7
  <2>9. PICK a, b, c, d, e :
          /\ a = reported[0][m] /\ b = exported[0][m] /\ c = PacketsOf(E, 0, m)
          /\ d = Total(HeldIn(expiries, 0, m)') /\ e = exported'[0][m]
    OBVIOUS
  <2>10. b \in Nat /\ c \in Nat
    BY <1>1, <1>2, <2>9, PacketsNat, ZenonT(30)
  <2>11. d \in Nat
    <3>1. HeldIn(expiries, 0, m)' = HeldIn(expiries \ E, 0, m)
      BY <1>4 DEF HeldIn, Count
    <3>2. PacketsOf(expiries \ E, 0, m) \in Nat
      BY <1>1, PacketsNat
    <3>3. QED
      BY <2>9, <3>1, <3>2, PacketsTotal
  <2>12. a = b + (c + d) /\ e = b + c
    BY <2>5, <2>6, <2>8, <2>9
  <2>13. a = e + d
    BY <2>10, <2>11, <2>12
  <2>14. reported'[0][m] = a
    BY <1>2, <2>9
  <2>15. QED
    BY <2>9, <2>13, <2>14
<1>7. \A m : Total(HeldIn(expiries, 0, m)') = Total(HeldIn(expiries, 0, m))'
  BY DEF Total, HeldIn, Count, IsSum
<1>8. QED
  BY <1>5, <1>6, <1>7 DEF Conserved

(* Every step conserves the packets.                                       *)
LEMMA ConservedStep == IndInv /\ Conserved /\ [Next]_vars => Conserved'
<1> SUFFICES ASSUME IndInv, Conserved, [Next]_vars PROVE Conserved'
  OBVIOUS
<1>1. /\ flow \in [Keys -> FlowType] /\ expiries \in SUBSET Keys
      /\ failures \in Nat /\ next_flow_seq \in Nat
  BY DEF IndInv, Core, Rest
<1>2. CASE Quiet
  BY <1>1, <1>2, ConservedSame DEF Quiet, tableVars, countVars
<1>3. ASSUME NEW p \in Packets, NEW t \in FirstTime .. MaxTime, process_packet_new(p, t)
      PROVE  Conserved'
  <2> DEFINE f == flow_update_expiry(p.key, NewFlow(p, t))
  <2>1. p.key \in Keys /\ t \in Nat
    BY FlowTrackAssumption DEF PacketType
  <2>2. NewFlow(p, t) \in FlowType /\ NewFlow(p, t).stat = NoStat
    BY <1>1, <2>1, NewFlowType
  <2>3. f.stat = NoStat
    BY <2>1, <2>2, UpdateKeeps
  <2>4. /\ expiries' = expiries \cup {p.key} /\ flow' = [flow EXCEPT ![p.key] = f]
        /\ p.key \notin expiries /\ monitors' = monitors /\ mode' # "emulator"
    BY <1>3 DEF process_packet_new, CapturePacket, InsertFlow, InTree
  <2> HIDE DEF f
  <2>5. /\ flow'[p.key] = f /\ \A k \in expiries : flow'[k] = flow[k]
    BY <1>1, <2>1, <2>4
  <2>6. \A m \in Monitors : f.stat[0][m] = Absent
    BY <2>3 DEF NoStat, Dirs
  <2>7. QED
    BY <2>4, <2>5, <2>6 DEF Conserved
<1>4. ASSUME NEW p \in Packets, NEW t \in FirstTime .. MaxTime, process_packet_known(p, t)
      PROVE  Conserved'
  <2> DEFINE f == flow[p.key]
             g == Counted(f, p, t)
             h == IF f.expires_at # 0 THEN flow_update_expiry(p.key, g) ELSE g
  <2>1. p.key \in Keys /\ t \in Nat /\ f \in FlowType
    BY <1>1, FlowTrackAssumption DEF PacketType
  <2>2. g \in FlowType /\ g.stat = f.stat
    BY <2>1, CountedType
  <2> HIDE DEF g
  <2>3. h.stat = f.stat
    BY <2>1, <2>2, UpdateKeeps
  <2>4. /\ expiries' = expiries /\ flow' = [flow EXCEPT ![p.key] = h]
        /\ p.key \in expiries /\ monitors' = monitors /\ mode' # "emulator"
    BY <1>4 DEF process_packet_known, CapturePacket, ReplaceFlow, g
  <2> HIDE DEF h
  <2>5. /\ flow'[p.key] = h /\ \A k \in expiries \ {p.key} : flow'[k] = flow[k]
    BY <1>1, <2>1, <2>4
  <2>6. QED
    BY <2>3, <2>4, <2>5 DEF Conserved
<1>5. ASSUME NEW p \in Packets, NEW t, Orphaned(p, t) PROVE Conserved'
  <2>1. /\ failures' = failures + 1 /\ expiries' = expiries /\ monitors' = monitors
        /\ p.key \notin expiries /\ flow' = [flow EXCEPT ![p.key] = NewFlow(p, t)]
    BY <1>5 DEF Orphaned, OrphanFlow, Fails, InTree
  <2>2. failures' # 0
    BY <1>1, <2>1
  <2>3. \A k \in expiries : flow'[k] = flow[k]
    BY <1>1, <2>1
  <2>4. QED
    BY <2>1, <2>2, <2>3 DEF Conserved
<1>6. ASSUME NEW S \in SUBSET expiries, Forces(S) PROVE Conserved'
  <2>1. /\ UNCHANGED <<mode, expiries, monitors, reported, exported>>
        /\ failures' \in {failures, failures + 1}
        /\ flow' = [k \in Keys |-> IF k \in S
                THEN [flow[k] EXCEPT !.expires_at = 0, !.reason = "overflows"]
                ELSE flow[k]]
    BY <1>6 DEF Forces, ForceOut, inputVars
  <2>2. ASSUME NEW f \in FlowType
        PROVE  [f EXCEPT !.expires_at = 0, !.reason = "overflows"].stat = f.stat
    BY DEF FlowType
  <2>3. ASSUME NEW k \in expiries PROVE flow'[k].stat = flow[k].stat
    BY <1>1, <2>1, <2>2
  <2>4. failures' = 0 => failures = 0
    BY <1>1, <1>6 DEF Forces
  <2>5. QED
    BY <1>1, <2>1, <2>3, <2>4, ConservedSame
<1>7. CASE ControlDeleteAll
  <2>1. expiries' = {} /\ mode' # "emulator"
    BY <1>7 DEF ControlDeleteAll, ControlStep, Remove
  <2>2. QED
    BY <2>1 DEF Conserved
<1>8. QED
  BY <1>2, <1>3, <1>4, <1>5, <1>6, <1>7, ConservedEmulator, ConservedExpires, Shapes

(* No packet a monitor reported in direction 0 is lost or exported twice,  *)
(* for any number of flows, monitors and packets.                          *)
THEOREM ConservationCorrect == Spec => []MonitorConservation
<1>1. Init => Conserved
  <2> SUFFICES ASSUME Init PROVE Conserved
    OBVIOUS
  <2>1. ASSUME NEW m \in Monitors
        PROVE  reported[0][m] = exported[0][m] + Total(HeldIn(expiries, 0, m))
    <3>1. HeldIn({}, 0, m) \in [{} -> Int]
      BY DEF HeldIn
    <3>2. Total(HeldIn({}, 0, m)) = 0
      BY <3>1, FS_EmptySet, TotalType
    <3>3. reported[0][m] = 0 /\ exported[0][m] = 0
      BY DEF Init, ZeroPerMonitor, Dirs
    <3>4. expiries = {}
      BY DEF Init
    <3>5. QED
      BY <3>2, <3>3, <3>4
  <2>2. QED
    BY <2>1 DEF Init, Conserved
<1>2. Conserved => MonitorConservation
  BY PacketsTotal DEF Conserved, MonitorConservation
<1>3. QED
  BY <1>1, <1>2, InitInd, StepInd, ConservedStep, PTL DEF Spec

-----------------------------------------------------------------------------
(* ExpirySound *)

(* What the expiry event of flow record f of key k says at time n: unless  *)
(* it is the mark of a new flow, it is the time flow_update_expiry gives   *)
(* for the record as it is now; and an immediate expiry has a cause.       *)
EventOf(k, f, n) ==
    /\ f.start \in FirstTime .. n
    /\ f.last \in FirstTime .. n
    /\ f.expires_at = 0 =>
         \/ f.reason = "overflows"
         \/ OverBytes(f)
         \/ Timeout.maxlife # 0 /\ n > f.start + Timeout.maxlife
    /\ f.expires_at > 1 => f.expires_at = CapLife(f, IdleUntil(k, f))

(* Every event is right, and flows have different numbers.                 *)
Events ==
    /\ \A k \in expiries : EventOf(k, flow[k], now) /\ flow[k].seq < next_flow_seq
    /\ \A j, k \in expiries : j # k => flow[j].seq # flow[k].seq

(* Timeouts are natural numbers.                                           *)
LEMMA TimeoutNat ==
    /\ Timeout.maxlife \in Nat /\ Timeout.interval \in Nat
    /\ \A k \in Keys, f \in FlowType : Timeout[ActivityReason(k, f)] \in Nat
<1>1. ASSUME NEW k \in Keys, NEW f \in FlowType
      PROVE  ActivityReason(k, f) \in TimeoutNames
  BY FlowTrackAssumption DEF ActivityReason, TimeoutNames, Protocols
<1>2. "maxlife" \in TimeoutNames /\ "interval" \in TimeoutNames
  BY DEF TimeoutNames
<1>3. QED
  BY <1>1, <1>2, FlowTrackAssumption

(* flow_update_expiry makes the event right.                               *)
LEMMA UpdateEvent ==
  ASSUME NEW k \in Keys, NEW f \in FlowType, NEW n \in Nat,
         f.start \in FirstTime .. n, f.last \in FirstTime .. n
  PROVE  EventOf(k, flow_update_expiry(k, f), n)
<1> DEFINE g == flow_update_expiry(k, f)
           t == CapLife(f, IdleUntil(k, f))
<1>1. /\ g.start = f.start /\ g.last = f.last /\ g.octets = f.octets
      /\ g.rst = f.rst /\ g.fin = f.fin
  BY UpdateKeeps
<1>2. /\ CapLife(g, IdleUntil(k, g)) = t
      /\ OverBytes(g) <=> OverBytes(f)
  BY <1>1 DEF CapLife, IdleUntil, ActivityReason, OverBytes
<1>3. f.start \in Nat /\ f.last \in Nat /\ f.start > 1 /\ f.last > 1 /\ f.last <= n
  BY FlowTrackAssumption DEF FlowType
<1>4. t \in Nat /\ t > 1
  <2>1. IdleUntil(k, f) \in Nat /\ IdleUntil(k, f) > 1
    BY <1>3, TimeoutNat DEF IdleUntil
  <2>2. QED
    BY <1>3, <2>1, TimeoutNat DEF CapLife
<1>5. ASSUME NEW a, NEW r PROVE [f EXCEPT !.expires_at = a, !.reason = r].expires_at = a
  BY DEF FlowType
<1>6. g.expires_at = IF OverBytes(f) \/ OverLife(f) THEN 0 ELSE t
  BY <1>5 DEF flow_update_expiry
<1>7. OverLife(f) => Timeout.maxlife # 0 /\ n > f.start + Timeout.maxlife
  BY <1>3, TimeoutNat, FlowTrackAssumption DEF OverLife
<1> HIDE DEF g, t
<1>8. g.expires_at = 0 =>
         \/ OverBytes(g)
         \/ Timeout.maxlife # 0 /\ n > g.start + Timeout.maxlife
  BY <1>1, <1>2, <1>4, <1>6, <1>7
<1>9. g.expires_at > 1 => g.expires_at = CapLife(g, IdleUntil(k, g))
  BY <1>2, <1>4, <1>6
<1>10. EventOf(k, g, n)
  BY <1>1, <1>8, <1>9 DEF EventOf
<1>11. QED
  BY <1>10 DEF g

(* An event stays right as time goes by.                                   *)
LEMMA EventLater ==
  ASSUME NEW k, NEW f \in FlowType, NEW n \in Nat, NEW o \in Nat, o >= n, EventOf(k, f, n)
  PROVE  EventOf(k, f, o)
<1>1. f.start \in Nat
  BY DEF FlowType
<1>2. f.start \in FirstTime .. o /\ f.last \in FirstTime .. o
  BY FlowTrackAssumption DEF EventOf
<1>3. Timeout.maxlife # 0 /\ n > f.start + Timeout.maxlife => o > f.start + Timeout.maxlife
  BY <1>1, TimeoutNat
<1>4. QED
  BY <1>2, <1>3 DEF EventOf

(* A new flow has the next number.                                         *)
LEMMA EventsInsert ==
  ASSUME Core, Events, NEW k \in Keys, k \notin expiries, NEW f \in FlowType,
         InsertFlow(k, f), now' = now, EventOf(k, f, now), f.seq = next_flow_seq
  PROVE  Events'
<1>1. /\ expiries' = expiries \cup {k} /\ flow' = [flow EXCEPT ![k] = f]
      /\ next_flow_seq' = next_flow_seq + 1
      /\ flow \in [Keys -> FlowType] /\ expiries \in SUBSET Keys /\ next_flow_seq \in Nat
  BY DEF InsertFlow, Core
<1>2. flow'[k] = f /\ \A j \in expiries : flow'[j] = flow[j]
  BY <1>1
<1>3. \A j \in expiries : flow[j].seq \in Nat /\ flow[j].seq < next_flow_seq
  BY <1>1 DEF Events, FlowType
<1>4. \A j \in expiries' : EventOf(j, flow[j], now)'
  <2>1. EventOf(k, flow'[k], now')
    BY <1>2
  <2>2. ASSUME NEW j \in expiries PROVE EventOf(j, flow'[j], now')
    BY <1>2 DEF Events
  <2>3. QED
    BY <1>1, <2>1, <2>2 DEF EventOf, OverBytes, CapLife, IdleUntil, ActivityReason
<1>5. \A j \in expiries' : flow'[j].seq < next_flow_seq'
  BY <1>1, <1>2, <1>3
<1>6. \A i, j \in expiries' : i # j => flow'[i].seq # flow'[j].seq
  <2>1. \A j \in expiries : flow[j].seq # next_flow_seq
    BY <1>1, <1>3
  <2>2. QED
    BY <1>1, <1>2, <2>1 DEF Events
<1>7. QED
  BY <1>4, <1>5, <1>6 DEF Events

(* An update keeps the number of its flow.                                 *)
LEMMA EventsReplace ==
  ASSUME Core, Events, NEW k \in expiries, NEW f \in FlowType, ReplaceFlow(k, f),
         now' = now, EventOf(k, f, now), f.seq = flow[k].seq
  PROVE  Events'
<1>1. /\ expiries' = expiries /\ flow' = [flow EXCEPT ![k] = f]
      /\ next_flow_seq' = next_flow_seq
      /\ flow \in [Keys -> FlowType] /\ expiries \in SUBSET Keys
  BY DEF ReplaceFlow, Core
<1>2. flow'[k] = f /\ \A j \in expiries \ {k} : flow'[j] = flow[j]
  BY <1>1
<1>3. \A j \in expiries : flow'[j].seq = flow[j].seq
  BY <1>2
<1>4. \A j \in expiries' : EventOf(j, flow[j], now)'
  <2>1. EventOf(k, flow'[k], now')
    BY <1>2
  <2>2. ASSUME NEW j \in expiries \ {k} PROVE EventOf(j, flow'[j], now')
    BY <1>2 DEF Events
  <2>3. QED
    BY <1>1, <2>1, <2>2 DEF EventOf, OverBytes, CapLife, IdleUntil, ActivityReason
<1>5. QED
  BY <1>1, <1>3, <1>4 DEF Events

(* So do steps that leave some of the flows as they are and remove the     *)
(* others.                                                                 *)
LEMMA EventsKeep ==
  ASSUME Core, Events, expiries' \subseteq expiries, now' \in Nat, now' >= now,
         next_flow_seq' \in Nat, next_flow_seq' >= next_flow_seq,
         \A k \in expiries' : flow'[k] = flow[k]
  PROVE  Events'
<1>1. /\ now \in Nat /\ flow \in [Keys -> FlowType] /\ expiries \in SUBSET Keys
      /\ next_flow_seq \in Nat
  BY FlowTrackAssumption DEF Core
<1>2. ASSUME NEW k \in expiries'
      PROVE  EventOf(k, flow[k], now)' /\ flow'[k].seq < next_flow_seq'
  <2>1. k \in expiries /\ flow[k] \in FlowType /\ flow'[k] = flow[k]
    BY <1>1
  <2>2. EventOf(k, flow[k], now')
    BY <1>1, <2>1, EventLater DEF Events
  <2>3. EventOf(k, flow'[k], now')
    BY <2>1, <2>2
  <2>4. flow[k].seq \in Nat /\ flow[k].seq < next_flow_seq
    BY <2>1 DEF Events, FlowType
  <2>5. flow'[k].seq < next_flow_seq'
    BY <1>1, <2>1, <2>4
  <2>6. QED
    BY <2>3, <2>5 DEF EventOf, OverBytes, CapLife, IdleUntil, ActivityReason
<1>3. QED
  BY <1>2 DEF Events

(* A packet of the emulator makes the event of its flow right.             *)
LEMMA EventsEmulator ==
  ASSUME IndInv, Events, NEW p \in Packets,
         process_emulator_packet_new(p) \/ process_emulator_packet_known(p)
  PROVE  Events'
<1>1. /\ p.key \in Keys /\ p.dir \in Dirs /\ p.monitor \in Monitors
  BY FlowTrackAssumption DEF PacketType
<1>2. /\ Core /\ flow \in [Keys -> FlowType] /\ expiries \in SUBSET Keys
      /\ now \in Nat /\ FirstTime \in Nat /\ now \in FirstTime .. now /\ now > 1
      /\ next_flow_seq \in Nat
  BY FlowTrackAssumption DEF IndInv, Core
<1>3. now' = now
  BY DEF process_emulator_packet_new, process_emulator_packet_known, EmulatorPacket
<1>4. CASE process_emulator_packet_new(p)
  <2> DEFINE s == IF p.dir = 0 THEN 1 ELSE 0
             h == NewFlow(p, now)
             f == [h EXCEPT !.stat[p.dir][p.monitor] = s]
  <2>1. /\ h \in FlowType /\ h.start = now /\ h.last = now
        /\ h.seq = next_flow_seq /\ h.expires_at = 1
    BY <1>2, NewFlowType
  <2>2. s \in Nat
    OBVIOUS
  <2>3. InsertFlow(p.key, f) /\ p.key \notin expiries
    BY <1>4 DEF process_emulator_packet_new, InTree
  <2> HIDE DEF h, s
  <2>4. /\ f \in FlowType /\ f.start = now /\ f.last = now
        /\ f.seq = next_flow_seq /\ f.expires_at = 1
    BY <1>1, <2>1, <2>2 DEF FlowType
  <2> HIDE DEF f
  <2>5. EventOf(p.key, f, now)
    BY <1>2, <2>4 DEF EventOf
  <2>6. QED
    BY <1>1, <1>2, <1>3, <2>3, <2>4, <2>5, EventsInsert
<1>5. CASE process_emulator_packet_known(p)
  <2> DEFINE f == flow[p.key]
             h == IF p.again THEN f ELSE Counted(f, p, now)
             g == [h EXCEPT !.stat = AddStat(f, p)]
             u == flow_update_expiry(p.key, g)
  <2>1. p.key \in expiries /\ ReplaceFlow(p.key, u)
    BY <1>5 DEF process_emulator_packet_known
  <2>2. /\ f \in FlowType /\ f.start \in FirstTime .. now /\ f.last \in FirstTime .. now
    BY <1>2, <2>1 DEF Events, EventOf
  <2>3. /\ h \in FlowType /\ h.start \in FirstTime .. now /\ h.last \in FirstTime .. now
        /\ h.seq = f.seq
    BY <1>2, <2>2, CountedType
  <2>4. AddStat(f, p) \in [Dirs -> [Monitors -> Nat \cup {Absent}]]
    BY <1>1, <2>2 DEF AddStat, FlowType, Absent
  <2> HIDE DEF h
  <2>5. /\ g \in FlowType /\ g.start = h.start /\ g.last = h.last /\ g.seq = h.seq
    BY <2>3, <2>4 DEF FlowType
  <2> HIDE DEF g
  <2>6. u \in FlowType /\ u.seq = f.seq /\ EventOf(p.key, u, now)
    BY <1>1, <1>2, <2>3, <2>5, UpdateType, UpdateKeeps, UpdateEvent
  <2> HIDE DEF u
  <2>7. QED
    BY <1>2, <1>3, <2>1, <2>6, EventsReplace
<1>6. QED
  BY <1>4, <1>5

(* So does a packet of libpcap, except that an immediate expiry stays one. *)
LEMMA EventsCapture ==
  ASSUME IndInv, Events, NEW p \in Packets, NEW t \in FirstTime .. MaxTime,
         process_packet_new(p, t) \/ process_packet_known(p, t)
  PROVE  Events'
<1>1. p.key \in Keys
  BY FlowTrackAssumption DEF PacketType
<1>2. /\ Core /\ flow \in [Keys -> FlowType] /\ expiries \in SUBSET Keys
      /\ now \in Nat /\ FirstTime \in Nat /\ now \in FirstTime .. now
      /\ next_flow_seq \in Nat /\ t \in Nat
  BY FlowTrackAssumption DEF IndInv, Core
<1>3. now' = now /\ t \in FirstTime .. now
  BY <1>2 DEF process_packet_new, process_packet_known, CapturePacket
<1>4. CASE process_packet_new(p, t)
  <2> DEFINE h == NewFlow(p, t)
             u == flow_update_expiry(p.key, h)
  <2>1. InsertFlow(p.key, u) /\ p.key \notin expiries
    BY <1>4 DEF process_packet_new, InTree
  <2>2. h \in FlowType /\ h.start = t /\ h.last = t /\ h.seq = next_flow_seq
    BY <1>2, NewFlowType
  <2> HIDE DEF h
  <2>3. u \in FlowType /\ u.seq = next_flow_seq /\ EventOf(p.key, u, now)
    BY <1>1, <1>2, <1>3, <2>2, UpdateType, UpdateKeeps, UpdateEvent
  <2> HIDE DEF u
  <2>4. QED
    BY <1>1, <1>2, <1>3, <2>1, <2>3, EventsInsert
<1>5. CASE process_packet_known(p, t)
  <2> DEFINE f == flow[p.key]
             g == Counted(f, p, t)
             h == IF f.expires_at # 0 THEN flow_update_expiry(p.key, g) ELSE g
  <2>1. p.key \in expiries /\ ReplaceFlow(p.key, h)
    BY <1>5 DEF process_packet_known
  <2>2. f \in FlowType /\ EventOf(p.key, f, now)
    BY <1>2, <2>1 DEF Events
  <2>3. /\ g \in FlowType /\ g.start = f.start /\ g.last = t /\ g.seq = f.seq
        /\ g.reason = f.reason /\ g.expires_at = f.expires_at
        /\ \A d \in Dirs : g.octets[d] >= f.octets[d]
    BY <1>2, <2>2, CountedType
  <2> HIDE DEF g
  <2>4. g.start \in FirstTime .. now /\ g.last \in FirstTime .. now
    BY <1>3, <2>2, <2>3 DEF EventOf
  <2>5. CASE f.expires_at # 0
    <3>1. h \in FlowType /\ h.seq = f.seq /\ EventOf(p.key, h, now)
      BY <1>1, <1>2, <2>3, <2>4, <2>5, UpdateType, UpdateKeeps, UpdateEvent
    <3> HIDE DEF h
    <3>2. QED
      BY <1>2, <1>3, <2>1, <3>1, EventsReplace
  <2>6. CASE f.expires_at = 0
    <3>1. OverBytes(f) => OverBytes(g)
      <4> SUFFICES ASSUME OverBytes(f) PROVE OverBytes(g)
        OBVIOUS
      <4>1. PICK d \in Dirs : f.octets[d] > OctetLimit
        BY DEF OverBytes
      <4>2. f.octets[d] \in Nat /\ g.octets[d] \in Nat /\ OctetLimit \in Nat
        BY <2>2, <2>3, FlowTrackAssumption DEF FlowType
      <4>3. g.octets[d] > OctetLimit
        BY <2>3, <4>1, <4>2
      <4>4. QED
        BY <4>3 DEF OverBytes
    <3>2. \/ f.reason = "overflows"
          \/ OverBytes(f)
          \/ Timeout.maxlife # 0 /\ now > f.start + Timeout.maxlife
      BY <2>2, <2>6 DEF EventOf
    <3>3. EventOf(p.key, g, now)
      BY <2>3, <2>4, <2>6, <3>1, <3>2 DEF EventOf
    <3>4. h = g
      BY <2>6
    <3> HIDE DEF h
    <3>5. QED
      BY <1>2, <1>3, <2>1, <2>3, <3>3, <3>4, EventsReplace
  <2>7. QED
    BY <2>5, <2>6
<1>6. QED
  BY <1>4, <1>5

(* Every step keeps the events right.                                      *)
LEMMA EventsStep == IndInv /\ Events /\ [Next]_vars => Events'
<1> SUFFICES ASSUME IndInv, Events, [Next]_vars PROVE Events'
  OBVIOUS
<1>1. /\ Core /\ flow \in [Keys -> FlowType] /\ expiries \in SUBSET Keys
      /\ now \in Nat /\ next_flow_seq \in Nat
  BY FlowTrackAssumption DEF IndInv, Core
<1>2. CASE Quiet
  <2>1. /\ UNCHANGED <<flow, expiries, next_flow_seq>>
        /\ now' \in Nat /\ now' >= now
    BY <1>1, <1>2 DEF Quiet, tableVars
  <2>2. QED
    BY <1>1, <2>1, EventsKeep
<1>3. ASSUME NEW p \in Packets, NEW t, Orphaned(p, t) PROVE Events'
  <2>1. /\ expiries' = expiries /\ now' = now /\ next_flow_seq' = next_flow_seq + 1
        /\ p.key \notin expiries /\ flow' = [flow EXCEPT ![p.key] = NewFlow(p, t)]
    BY <1>3 DEF Orphaned, OrphanFlow, InTree
  <2>2. \A k \in expiries' : flow'[k] = flow[k]
    BY <1>1, <2>1
  <2>3. /\ expiries' \subseteq expiries /\ now' \in Nat /\ now' >= now
        /\ next_flow_seq' \in Nat /\ next_flow_seq' >= next_flow_seq
    BY <1>1, <2>1
  <2>4. QED
    BY <1>1, <2>2, <2>3, EventsKeep
<1>4. ASSUME NEW S \in SUBSET expiries, Remove(S), UNCHANGED <<now, next_flow_seq>>
      PROVE  Events'
  <2>1. expiries' \subseteq expiries /\ \A k \in expiries' : flow'[k] = flow[k]
    BY <1>1, <1>4 DEF Remove
  <2>2. QED
    BY <1>1, <1>4, <2>1, EventsKeep
<1>5. ASSUME NEW ex, NEW Lost, Expires(ex, Lost) PROVE Events'
  BY <1>4, <1>5 DEF Expires, ExpireFlows, inputVars
<1>6. CASE ControlDeleteAll
  BY <1>4, <1>6 DEF ControlDeleteAll, ControlStep, inputVars
<1>7. ASSUME NEW S \in SUBSET expiries, Forces(S) PROVE Events'
  <2> DEFINE Forced(f) == [f EXCEPT !.expires_at = 0, !.reason = "overflows"]
  <2>1. /\ UNCHANGED <<expiries, now, next_flow_seq>>
        /\ flow' = [k \in Keys |-> IF k \in S THEN Forced(flow[k]) ELSE flow[k]]
    BY <1>7 DEF Forces, ForceOut, inputVars
  <2>2. ASSUME NEW f \in FlowType
        PROVE  /\ Forced(f).start = f.start /\ Forced(f).last = f.last
               /\ Forced(f).seq = f.seq /\ Forced(f).expires_at = 0
               /\ Forced(f).reason = "overflows"
    BY DEF FlowType
  <2> HIDE DEF Forced
  <2>3. ASSUME NEW k \in expiries
        PROVE  EventOf(k, flow'[k], now) /\ flow'[k].seq = flow[k].seq
    <3>1. flow[k] \in FlowType /\ EventOf(k, flow[k], now)
      BY <1>1 DEF Events
    <3>2. CASE k \in S
      <4>1. flow'[k] = Forced(flow[k])
        BY <1>1, <2>1, <3>2
      <4>2. EventOf(k, Forced(flow[k]), now)
        BY <2>2, <3>1 DEF EventOf
      <4>3. QED
        BY <2>2, <3>1, <4>1, <4>2
    <3>3. CASE k \notin S
      <4>1. flow'[k] = flow[k]
        BY <1>1, <2>1, <3>3
      <4>2. QED
        BY <3>1, <4>1
    <3>4. QED
      BY <3>2, <3>3
  <2>4. ASSUME NEW k \in expiries PROVE EventOf(k, flow[k], now)'
    <3>1. EventOf(k, flow'[k], now')
      BY <2>1, <2>3
    <3>2. QED
      BY <3>1 DEF EventOf, OverBytes, CapLife, IdleUntil, ActivityReason
  <2>5. QED
    BY <2>1, <2>3, <2>4 DEF Events
<1>8. QED
  BY <1>2, <1>3, <1>5, <1>6, <1>7, EventsEmulator, EventsCapture, Shapes

(* The tree of expiry events has a first one.                              *)
LEMMA FirstEvent ==
  ASSUME Core, Events, expiries # {}
  PROVE  \E k \in expiries : \A j \in expiries \ {k} : Before(k, j)
<1>1. \A k \in expiries : flow[k].expires_at \in Nat /\ flow[k].seq \in Nat
  BY DEF Core, FlowType
<1> DEFINE T == {flow[k].expires_at : k \in expiries}
<1>2. PICK a \in T : \A b \in T : a <= b
  <2>1. T \subseteq Nat /\ T # {}
    BY <1>1
  <2> HIDE DEF T
  <2>2. QED
    BY <2>1, NatLeast
<1> DEFINE F == {k \in expiries : flow[k].expires_at = a}
           Q == {flow[k].seq : k \in F}
<1>3. PICK c \in Q : \A b \in Q : c <= b
  <2>1. Q \subseteq Nat /\ Q # {}
    BY <1>1, <1>2
  <2> HIDE DEF Q
  <2>2. QED
    BY <2>1, NatLeast
<1>4. PICK k \in F : flow[k].seq = c
  BY <1>3
<1>5. k \in expiries /\ flow[k].expires_at = a
  BY <1>4
<1>6. ASSUME NEW j \in expiries \ {k} PROVE Before(k, j)
  <2>1. a <= flow[j].expires_at /\ flow[j].seq # flow[k].seq
    BY <1>2, <1>5 DEF Events
  <2>2. CASE flow[j].expires_at = a
    <3>1. c <= flow[j].seq
      BY <1>3, <2>2
    <3>2. flow[k].seq < flow[j].seq
      BY <1>1, <1>4, <1>5, <2>1, <3>1
    <3>3. QED
      BY <1>5, <2>2, <3>2 DEF Before
  <2>3. CASE flow[j].expires_at # a
    <3>1. flow[k].expires_at < flow[j].expires_at
      BY <1>1, <1>5, <2>1, <2>3
    <3>2. QED
      BY <3>1 DEF Before
  <2>4. QED
    BY <2>2, <2>3
<1>7. QED
  BY <1>5, <1>6

(* When next_expire finds nothing to do, no flow is overdue by more than   *)
(* the interval of clustering.                                             *)
LEMMA SleepInTime ==
  ASSUME IndInv, Events, ~ExpireNow, NEW j \in expiries
  PROVE  flow[j].expires_at + Timeout.interval >= now
<1>1. Core /\ now \in Nat
  BY FlowTrackAssumption DEF IndInv, Core
<1>2. PICK k \in expiries : \A i \in expiries \ {k} : Before(k, i)
  BY <1>1, FirstEvent
<1>3. /\ flow[k].expires_at \in Nat /\ flow[j].expires_at \in Nat
      /\ Timeout.interval \in Nat
  BY <1>1, TimeoutNat DEF Core, FlowType
<1>4. PICK e, i : e = flow[k].expires_at /\ i = Timeout.interval
  OBVIOUS
<1>5. RoundUp(e) \in Int /\ RoundUp(e) <= e + i
  <2>1. e \in Nat /\ i \in Nat
    BY <1>3, <1>4
  <2>2. CASE i > 1 /\ e % i > 0
    <3>1. e % i \in Int
      BY <2>1, <2>2
    <3>2. RoundUp(e) = e + i - (e % i)
      BY <1>4, <2>2 DEF RoundUp
    <3>3. QED
      BY <2>1, <2>2, <3>1, <3>2
  <2>3. CASE ~(i > 1 /\ e % i > 0)
    <3>1. RoundUp(e) = e
      BY <1>4, <2>3 DEF RoundUp
    <3>2. QED
      BY <2>1, <3>1
  <2>4. QED
    BY <2>2, <2>3
<1>6. ~(RoundUp(e) < now)
  BY <1>2, <1>4 DEF ExpireNow
<1>7. e <= flow[j].expires_at
  <2>1. CASE j = k
    BY <1>3, <1>4, <2>1
  <2>2. CASE j # k
    BY <1>2, <1>3, <1>4, <2>2 DEF Before
  <2>3. QED
    BY <2>1, <2>2
<1>8. QED
  BY <1>1, <1>3, <1>4, <1>5, <1>6, <1>7

(* Every step of the program is one that ExpirySound allows.               *)
LEMMA ExpiryAllowed == IndInv /\ Events /\ [Next]_vars => [ExpiryStep]_vars
<1> SUFFICES ASSUME IndInv, Events, Next PROVE ExpiryStep
  OBVIOUS
<1>1. [Next]_vars
  OBVIOUS
<1>2. /\ Core /\ flow \in [Keys -> FlowType] /\ expiries \in SUBSET Keys
      /\ now \in Nat
  BY FlowTrackAssumption DEF IndInv, Core
<1>3. ASSUME phase = "expire", NEW k \in expiries \ expiries' PROVE Justified(k)
  <2>1. ASSUME Quiet \/ \E S \in SUBSET expiries : Forces(S) PROVE expiries' = expiries
    BY <2>1 DEF Quiet, Forces, ForceOut, tableVars
  <2>2. ASSUME NEW p, process_emulator_packet_new(p) \/ process_emulator_packet_known(p)
        PROVE  expiries \subseteq expiries'
    BY <2>2 DEF process_emulator_packet_new, process_emulator_packet_known,
                InsertFlow, ReplaceFlow
  <2>3. ASSUME NEW p, NEW t, process_packet_new(p, t) \/ process_packet_known(p, t)
        PROVE  expiries \subseteq expiries'
    BY <2>3 DEF process_packet_new, process_packet_known, InsertFlow, ReplaceFlow
  <2>4. ASSUME NEW p, NEW t, Orphaned(p, t) PROVE expiries' = expiries
    BY <2>4 DEF Orphaned, OrphanFlow
  <2>5. ~ControlDeleteAll
    BY <1>3 DEF ControlDeleteAll, ControlStep
  <2>6. PICK ex, Lost : Expires(ex, Lost)
    BY <1>1, <2>1, <2>2, <2>3, <2>4, <2>5, Shapes
  <2>7. ex # "all" /\ Expirable(k, ex)
    BY <1>3, <2>6 DEF Expires, ExpireFlows, Remove
  <2>8. PICK f : f = flow[k]
    OBVIOUS
  <2>9. f \in FlowType /\ EventOf(k, f, now) /\ k \in Keys
    BY <1>2, <2>8 DEF Events
  <2>10. f.expires_at \in Nat /\ f.start \in Nat /\ f.last \in Nat
    BY <2>9 DEF FlowType
  <2>11. CASE f.expires_at = 0
    BY <2>8, <2>9, <2>11 DEF EventOf, Justified
  <2>12. CASE f.expires_at # 0
    <3>1. f.expires_at # 1 /\ f.expires_at < now
      BY <2>7, <2>8, <2>12 DEF Expirable
    <3>2. f.expires_at = CapLife(f, IdleUntil(k, f))
      BY <2>9, <2>10, <2>12, <3>1 DEF EventOf
    <3>3. \/ f.expires_at = IdleUntil(k, f)
          \/ Timeout.maxlife # 0 /\ f.expires_at = f.start + Timeout.maxlife
      BY <3>2 DEF CapLife
    <3>4. \/ now > IdleUntil(k, f)
          \/ Timeout.maxlife # 0 /\ now > f.start + Timeout.maxlife
      BY <1>2, <2>10, <3>1, <3>3
    <3>5. QED
      BY <2>8, <3>4 DEF Justified
  <2>13. QED
    BY <2>11, <2>12
<1>4. ASSUME flows_force_expired' # flows_force_expired PROVE num_flows > MaxFlows \/ stops
  <2>1. ~Quiet /\ ~ControlDeleteAll
    BY <1>4 DEF Quiet, ControlDeleteAll, countVars
  <2>2. ASSUME NEW p, process_emulator_packet_new(p) \/ process_emulator_packet_known(p)
        PROVE  FALSE
    BY <1>4, <2>2 DEF process_emulator_packet_new, process_emulator_packet_known,
                      EmulatorPacket, countVars
  <2>3. ASSUME NEW p, NEW t, process_packet_new(p, t) \/ process_packet_known(p, t)
        PROVE  FALSE
    BY <1>4, <2>3 DEF process_packet_new, process_packet_known, CapturePacket, countVars
  <2>4. ASSUME NEW p, NEW t, Orphaned(p, t) PROVE FALSE
    BY <1>4, <2>4 DEF Orphaned, countVars
  <2>5. ASSUME NEW ex, NEW Lost, Expires(ex, Lost) PROVE FALSE
    BY <1>4, <2>5 DEF Expires, ExpireFlows
  <2>6. QED
    BY <1>1, <2>1, <2>2, <2>3, <2>4, <2>5, Shapes DEF Forces
<1>5. ASSUME phase = "over", phase' = "top" PROVE num_flows' <= MaxFlows
  <2>1. ASSUME NEW p, process_emulator_packet(p) PROVE FALSE
    BY <1>5, <2>1 DEF process_emulator_packet, process_emulator_packet_new,
         process_emulator_packet_known, process_emulator_packet_dropped,
         process_emulator_packet_nomem, process_emulator_packet_orphan, EmulatorPacket
  <2>2. ASSUME NEW p, NEW t, process_packet(p, t) PROVE FALSE
    BY <1>5, <2>2 DEF process_packet, process_packet_new, process_packet_known,
         process_packet_nomem, process_packet_orphan, CapturePacket
  <2>3. ASSUME Control PROVE FALSE
    BY <1>5, <2>3 DEF Control, ControlExpireAll, ControlDeleteAll, ControlGather,
         ControlLeave, ControlStep
  <2>4. ASSUME EmulatorEnd \/ SetStopsEmulatorThread \/ Tick PROVE FALSE
    BY <1>5, <2>4 DEF EmulatorEnd, SetStopsEmulatorThread, Tick
  <2>5. MainLoop
    BY <2>1, <2>2, <2>3, <2>4 DEF Next
  <2>6. MainRoundDone
    BY <1>5, <2>5 DEF MainLoop, check_expired, MainOverFull, MainDrain, MainDrained,
         MainDue, MainLocked, MainCaptured, CaptureEof
  <2>7. QED
    BY <2>6 DEF MainRoundDone, tableVars
<1>6. (mode = "emulator" /\ ~ExpireNow) => \A k \in expiries : flow[k].expires_at + Timeout.interval >= now
  BY SleepInTime
<1>7. QED
  BY <1>3, <1>4, <1>5, <1>6 DEF ExpiryStep

(* check_expired never drops a flow without a cause, force_expire runs     *)
(* only when the table is full or the emulation is over, and main never    *)
(* sleeps over a flow that is overdue by more than the interval, for any   *)
(* timeouts, packets and time stamps.                                      *)
THEOREM ExpiryCorrect == Spec => ExpirySound
<1>1. Init => Events
  BY DEF Init, Events
<1>2. QED
  BY <1>1, InitInd, StepInd, EventsStep, ExpiryAllowed, PTL DEF Spec, ExpirySound

=============================================================================
