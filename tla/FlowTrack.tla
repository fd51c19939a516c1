----------------------------- MODULE FlowTrack -----------------------------
(***************************************************************************)
(* The flow table of softflowd: struct FLOWTRACK, the two functions that   *)
(* put packets into it (process_packet for libpcap, process_emulator_packet*)
(* for NSP's emulated traffic), flow_update_expiry, check_expired,         *)
(* force_expire, delete_all_flows, and the part of main's loop that calls  *)
(* them.                                                                   *)
(*                                                                         *)
(* softflowd runs in one of three modes.  With the emulator a second       *)
(* thread handles the packets, and flow_expiry_sem keeps it out of the     *)
(* table while main is between sem_wait and sem_post (phases "expire" and  *)
(* "over" here).  With an interface ("live") or a capture file ("file") a  *)
(* single thread does both.                                                *)
(*                                                                         *)
(* end_msg, the semaphore inside GetStopsEmulatorThread, is initialised in *)
(* the emulator mode only.  In the other modes it is a static object whose *)
(* count is 0, so that the first call blocks for good: status "hung".      *)
(* That call comes in the first round of main's loop, before any expiry.   *)
(*                                                                         *)
(* The tree of flows is the set expiries \cup orphans, the tree of expiry  *)
(* events the set expiries ordered by Before.  Counters that are only      *)
(* printed and the STATISTIC averages are left out.                        *)
(***************************************************************************)
EXTENDS Integers, FiniteSets, FiniteSetsExt

CONSTANTS
    Keys,          \* flow identities, what flow_compare distinguishes
    Proto,         \* the protocol of a flow
    Monitors,      \* the emulated monitors that report packets
    Packets,       \* the packets that may arrive
    Timeout,       \* the timeouts of struct FLOWTRACK, in seconds
    MaxFlows,      \* max_flows
    OctetLimit,    \* stands for 2^31
    FirstTime,     \* when softflowd starts
    MaxTime,       \* bound: when the clock stops
    MaxPackets,    \* bound: packets that arrive
    MaxFailures    \* bound: allocations that fail

Dirs == {0, 1}
Protocols == {"tcp", "udp", "icmp", "other"}
Modes == {"emulator", "live", "file"}
Reasons == {"general", "tcp", "tcp_rst", "tcp_fin", "udp", "icmp",
            "maxlife", "overbytes", "overflows", "flush"}
TimeoutNames == {"tcp", "tcp_rst", "tcp_fin", "udp", "icmp", "general",
                 "maxlife", "interval"}

(* key and dir are the identity and the index ndx that canonical storage   *)
(* gives the packet, monitor the reporting monitor, again the field        *)
(* alreadyReceived (another monitor has reported this packet before).      *)
PacketType == [key : Keys, dir : Dirs, len : Nat, flag : {"none", "rst", "fin"},
               monitor : Monitors, again : BOOLEAN]

(* FirstTime is a time_t of today, never 0 or 1: check_expired treats      *)
(* these two values of expires_at as marks.                                *)
ASSUME FlowTrackAssumption ==
    /\ IsFiniteSet(Keys)
    /\ Keys # {}
    /\ Proto \in [Keys -> Protocols]
    /\ Packets \subseteq PacketType
    /\ Timeout \in [TimeoutNames -> Nat]
    /\ MaxFlows \in Nat
    /\ OctetLimit \in Nat
    /\ FirstTime \in Nat /\ FirstTime > 1
    /\ MaxTime \in Nat /\ MaxTime >= FirstTime
    /\ MaxPackets \in Nat
    /\ MaxFailures \in Nat

(* monitor_stat_0/1 without an entry for the monitor                       *)
Absent == -1

VARIABLES
    mode,                  \* fixed: how softflowd was started
    status,                \* "running", or how the process ended
    phase,                 \* where main's loop is
    batch,                 \* packets of this pcap_dispatch
    fatal,                 \* cb_ctxt.fatal
    stop_collection_flag,
    emu,                   \* the emulator thread
    stops,                 \* StopsEmulatorThread
    now,                   \* the wall clock
    expiries,              \* flows with an expiry event
    orphans,               \* flows whose expiry event could not be allocated
    flow,                  \* the fields of struct FLOW and struct EXPIRY
    monitors,              \* emulator_monitors_adrs
    num_flows,
    next_flow_seq,
    total_packets,
    flows_expired,
    flows_force_expired,
    expired,               \* expired_general ... expired_flush
    failures,              \* allocations that have failed
    gone,                  \* history: flows freed without update_statistics
    reported,              \* history: packets added to a flow, per monitor
    exported               \* history: packets in the records sent

procVars == <<mode, fatal, stop_collection_flag, emu, stops>>
countVars == <<flows_expired, flows_force_expired, expired, gone, exported>>
tableVars == <<expiries, orphans, flow, num_flows>>
inputVars == <<next_flow_seq, total_packets, monitors, reported>>
vars == <<procVars, status, phase, batch, now, tableVars, inputVars,
          countVars, failures>>

NoStat == [d \in Dirs |-> [m \in Monitors |-> Absent]]

(* a key that is in neither tree *)
NoFlow == [start |-> FirstTime, last |-> FirstTime,
           octets |-> [d \in Dirs |-> 0], rst |-> FALSE, fin |-> {},
           seq |-> 0, expires_at |-> 0, reason |-> "general", stat |-> NoStat]

ZeroPerMonitor == [d \in Dirs |-> [m \in Monitors |-> 0]]

Init ==
    /\ mode \in Modes
    /\ status = "running"
    /\ phase = "top"
    /\ batch = 0
    /\ fatal = FALSE
    /\ stop_collection_flag = FALSE
    /\ emu = IF mode = "emulator" THEN "run" ELSE "none"
    /\ stops = FALSE
    /\ now = FirstTime
    /\ expiries = {}
    /\ orphans = {}
    /\ flow = [k \in Keys |-> NoFlow]
    /\ monitors = {}
    /\ num_flows = 0
    /\ next_flow_seq = 1
    /\ total_packets = 0
    /\ flows_expired = 0
    /\ flows_force_expired = 0
    /\ expired = [r \in Reasons |-> 0]
    /\ failures = 0
    /\ gone = 0
    /\ reported = ZeroPerMonitor
    /\ exported = ZeroPerMonitor

Running == status = "running"
InTree == expiries \cup orphans
Fails == failures < MaxFailures /\ failures' = failures + 1

-----------------------------------------------------------------------------
(* flow_update_expiry *)

OverBytes(f) == \E d \in Dirs : f.octets[d] > OctetLimit
OverLife(f) == Timeout.maxlife # 0 /\ f.last - f.start > Timeout.maxlife

(* The timeout that applies to a flow; a timeout of 0 is switched off.     *)
ActivityReason(k, f) ==
    IF Proto[k] = "tcp" /\ Timeout.tcp_rst # 0 /\ f.rst THEN "tcp_rst"
    ELSE IF Proto[k] = "tcp" /\ Timeout.tcp_fin # 0 /\ f.fin = Dirs THEN "tcp_fin"
    ELSE IF Proto[k] # "other" /\ Timeout[Proto[k]] # 0 THEN Proto[k]
    ELSE "general"

IdleUntil(k, f) == f.last + Timeout[ActivityReason(k, f)]

CapLife(f, t) ==
    IF Timeout.maxlife # 0 /\ f.start + Timeout.maxlife < t
    THEN f.start + Timeout.maxlife ELSE t

(* Mutated form: the lifetime does not limit the expiry time.              *)
flow_update_expiry_NoCap(k, f) ==
    IF OverBytes(f)
    THEN [f EXCEPT !.expires_at = 0, !.reason = "overbytes"]
    ELSE IF OverLife(f)
    THEN [f EXCEPT !.expires_at = 0, !.reason = "maxlife"]
    ELSE [f EXCEPT !.expires_at = IdleUntil(k, f), !.reason = ActivityReason(k, f)]

flow_update_expiry(k, f) ==
    IF OverBytes(f)
    THEN [f EXCEPT !.expires_at = 0, !.reason = "overbytes"]
    ELSE IF OverLife(f)
    THEN [f EXCEPT !.expires_at = 0, !.reason = "maxlife"]
    ELSE [f EXCEPT !.expires_at = CapLife(f, IdleUntil(k, f)),
                   !.reason = ActivityReason(k, f)]

-----------------------------------------------------------------------------
(* Packets *)

AddOctets(f, p) == [f.octets EXCEPT ![p.dir] = @ + p.len]
AddRst(f, p) == f.rst \/ p.flag = "rst"
AddFin(f, p) == IF p.flag = "fin" THEN f.fin \cup {p.dir} ELSE f.fin

(* the statistics of process_packet and process_emulator_packet            *)
Counted(f, p, t) ==
    [f EXCEPT !.octets = AddOctets(f, p), !.rst = AddRst(f, p),
              !.fin = AddFin(f, p), !.last = t]

(* a flow that starts with packet p at time t; its expiry event has        *)
(* expires_at = 1                                                          *)
NewFlow(p, t) ==
    Counted([NoFlow EXCEPT !.start = t, !.seq = next_flow_seq,
                           !.expires_at = 1], p, t)

(* Mutated form: the flow is counted although its expiry event is missing. *)
OrphanFlow_Counted(p, t) ==
    /\ Fails
    /\ p.key \notin InTree
    /\ orphans' = orphans \cup {p.key}
    /\ flow' = [flow EXCEPT ![p.key] = NewFlow(p, t)]
    /\ num_flows' = num_flows + 1
    /\ next_flow_seq' = next_flow_seq + 1
    /\ UNCHANGED <<expiries, monitors, reported>>

(* Both functions insert the flow into the tree of flows before they       *)
(* allocate its expiry event; when that fails they return at once.         *)
OrphanFlow(p, t) ==
    /\ Fails
    /\ p.key \notin InTree
    /\ orphans' = orphans \cup {p.key}
    /\ flow' = [flow EXCEPT ![p.key] = NewFlow(p, t)]
    /\ next_flow_seq' = next_flow_seq + 1
    /\ UNCHANGED <<expiries, num_flows, monitors, reported>>

(* They leave everything alone when the flow itself cannot be allocated.   *)
NewFlowFails(p) ==
    /\ Fails
    /\ p.key \notin InTree
    /\ UNCHANGED <<tableVars, next_flow_seq, monitors, reported>>

(* Mutated form: num_flows is not counted up.                              *)
InsertFlow_NoCount(k, f) ==
    /\ flow' = [flow EXCEPT ![k] = f]
    /\ expiries' = expiries \cup {k}
    /\ next_flow_seq' = next_flow_seq + 1
    /\ UNCHANGED <<orphans, num_flows, failures>>

(* Mutated form: two flows get the same flow_seq.                          *)
InsertFlow_SameSeq(k, f) ==
    /\ flow' = [flow EXCEPT ![k] = f]
    /\ expiries' = expiries \cup {k}
    /\ num_flows' = num_flows + 1
    /\ UNCHANGED <<orphans, next_flow_seq, failures>>

(* the last steps of the creation of a flow *)
InsertFlow(k, f) ==
    /\ flow' = [flow EXCEPT ![k] = f]
    /\ expiries' = expiries \cup {k}
    /\ num_flows' = num_flows + 1
    /\ next_flow_seq' = next_flow_seq + 1
    /\ UNCHANGED <<orphans, failures>>

ReplaceFlow(k, f) ==
    /\ flow' = [flow EXCEPT ![k] = f]
    /\ UNCHANGED <<expiries, orphans, num_flows, next_flow_seq, failures>>

(* the expiry pointer of an orphan is NULL, and it is dereferenced         *)
OrphanHit(p) == p.key \in orphans

(* The emulator thread has recvfrom'd a packet and the sampler took it.    *)
(* It holds flow_expiry_sem.                                               *)
EmulatorPacket(p) ==
    /\ Running
    /\ emu = "run"
    /\ phase \in {"top", "wait"}
    /\ total_packets < MaxPackets
    /\ total_packets' = total_packets + 1
    /\ UNCHANGED <<procVars, phase, batch, now, countVars>>

(* monitor_stat_0/1[k].packets = 1 for a new monitor, += 1 for a known one *)
AddStat(f, p) ==
    [f.stat EXCEPT ![p.dir][p.monitor] = IF @ = Absent THEN 1 ELSE @ + 1]

ReportedBy(p) == [reported EXCEPT ![p.dir][p.monitor] = @ + 1]

(* Mutated form: the packet that opens a flow is not entered for its       *)
(* monitor.                                                                *)
process_emulator_packet_new_NoStat(p) ==
    /\ EmulatorPacket(p)
    /\ p.key \notin InTree
    /\ InsertFlow(p.key, [NewFlow(p, now) EXCEPT !.stat[p.dir][p.monitor] = 0])
    /\ monitors' = monitors \cup {p.monitor}
    /\ reported' = ReportedBy(p)
    /\ UNCHANGED status

(* A new flow: flow_update_expiry is not called.  For ndx = 1 the monitor  *)
(* gets packets[0], the counter of the other direction, which is 0.        *)
process_emulator_packet_new(p) ==
    /\ EmulatorPacket(p)
    /\ p.key \notin InTree
    /\ InsertFlow(p.key, [NewFlow(p, now) EXCEPT
            !.stat[p.dir][p.monitor] = IF p.dir = 0 THEN 1 ELSE 0])
    /\ monitors' = monitors \cup {p.monitor}
    /\ reported' = ReportedBy(p)
    /\ UNCHANGED status

(* A known flow, unless it waits for immediate expiry: then the packet is  *)
(* dropped.                                                                *)
process_emulator_packet_known(p) ==
    LET f == flow[p.key]
        g == [IF p.again THEN f ELSE Counted(f, p, now) EXCEPT
                !.stat = AddStat(f, p)]
    IN
    /\ EmulatorPacket(p)
    /\ p.key \in expiries
    /\ f.expires_at # 0
    /\ ReplaceFlow(p.key, flow_update_expiry(p.key, g))
    /\ monitors' = monitors \cup {p.monitor}
    /\ reported' = ReportedBy(p)
    /\ UNCHANGED status

process_emulator_packet_dropped(p) ==
    /\ EmulatorPacket(p)
    /\ p.key \in expiries
    /\ flow[p.key].expires_at = 0
    /\ UNCHANGED <<status, tableVars, next_flow_seq, monitors, reported, failures>>

(* accept_emulator ignores PP_MALLOC_FAIL.                                 *)
process_emulator_packet_nomem(p) ==
    /\ EmulatorPacket(p)
    /\ OrphanFlow(p, now) \/ NewFlowFails(p)
    /\ UNCHANGED status

process_emulator_packet_orphan(p) ==
    /\ EmulatorPacket(p)
    /\ OrphanHit(p)
    /\ status' = "crashed"
    /\ UNCHANGED <<tableVars, next_flow_seq, monitors, reported, failures>>

process_emulator_packet(p) ==
    \/ process_emulator_packet_new(p) \/ process_emulator_packet_known(p)
    \/ process_emulator_packet_dropped(p) \/ process_emulator_packet_nomem(p)
    \/ process_emulator_packet_orphan(p)

(* pcap_dispatch hands at most max_flows packets to flow_cb before main    *)
(* looks at the table again.  Packets of a file carry old time stamps.     *)
CapturePacket(p, t) ==
    /\ Running
    /\ mode # "emulator"
    /\ phase \in {"top", "collect"}
    /\ ~stop_collection_flag
    /\ batch < MaxFlows
    /\ total_packets < MaxPackets
    /\ t \in IF mode = "file" THEN FirstTime .. now ELSE {now}
    /\ total_packets' = total_packets + 1
    /\ batch' = batch + 1
    /\ phase' = "collect"
    /\ UNCHANGED <<mode, stop_collection_flag, emu, stops, now, countVars,
                   monitors, reported>>

process_packet_new(p, t) ==
    /\ CapturePacket(p, t)
    /\ p.key \notin InTree
    /\ InsertFlow(p.key, flow_update_expiry(p.key, NewFlow(p, t)))
    /\ UNCHANGED <<status, fatal>>

process_packet_known(p, t) ==
    LET f == flow[p.key]
        g == Counted(f, p, t)
    IN
    /\ CapturePacket(p, t)
    /\ p.key \in expiries
    /\ ReplaceFlow(p.key, IF f.expires_at # 0 THEN flow_update_expiry(p.key, g) ELSE g)
    /\ UNCHANGED <<status, fatal>>

(* flow_cb notes the failure; main exits after this pcap_dispatch.         *)
process_packet_nomem(p, t) ==
    /\ CapturePacket(p, t)
    /\ OrphanFlow(p, t) \/ NewFlowFails(p)
    /\ fatal' = TRUE
    /\ UNCHANGED status

process_packet_orphan(p, t) ==
    /\ CapturePacket(p, t)
    /\ OrphanHit(p)
    /\ status' = "crashed"
    /\ UNCHANGED <<tableVars, next_flow_seq, fatal, failures>>

process_packet(p, t) ==
    \/ process_packet_new(p, t) \/ process_packet_known(p, t)
    \/ process_packet_nomem(p, t) \/ process_packet_orphan(p, t)

-----------------------------------------------------------------------------
(* Expiry *)

(* expiry_compare *)
Before(j, k) ==
    \/ flow[j].expires_at < flow[k].expires_at
    \/ flow[j].expires_at = flow[k].expires_at /\ flow[j].seq < flow[k].seq

RoundUp(t) ==
    IF Timeout.interval > 1 /\ (t % Timeout.interval) > 0
    THEN t + Timeout.interval - (t % Timeout.interval) ELSE t

(* next_expire() = 0 *)
ExpireNow ==
    \E k \in expiries :
        /\ \A j \in expiries \ {k} : Before(k, j)
        /\ \/ /\ flow[k].expires_at = 0
              /\ flow[k].reason \in {"overbytes", "overflows", "flush"}
           \/ RoundUp(flow[k].expires_at) < now

(* Mutated form: without the test for expires_at = 1, the mark of a flow   *)
(* that has seen a single packet.                                          *)
Expirable_One(k, ex) ==
    \/ flow[k].expires_at = 0
    \/ ex = "all"
    \/ ex # "forced" /\ flow[k].expires_at < now

Expirable(k, ex) ==
    /\ \/ flow[k].expires_at = 0
       \/ ex = "all"
       \/ ex # "forced" /\ flow[k].expires_at < now
    /\ flow[k].expires_at # 1

(* the reason update_expiry_stats counts *)
FinalReason(k, ex) ==
    IF ex = "all" THEN "flush"
    ELSE IF Timeout.maxlife # 0
            /\ flow[k].last - flow[k].start >= Timeout.maxlife THEN "maxlife"
    ELSE flow[k].reason

(* The records made for monitor m and direction d: In and Out flows are    *)
(* selected by the list of monitors each flow carries.                     *)
PacketsOf(S, d, m) ==
    MapThenSumSet(LAMBDA k : IF flow[k].stat[d][m] = Absent THEN 0
                             ELSE flow[k].stat[d][m], S)

Remove(S) ==
    /\ expiries' = expiries \ S
    /\ flow' = [k \in Keys |-> IF k \in S THEN NoFlow ELSE flow[k]]
    /\ UNCHANGED orphans

(* check_expired(ex).  A flow of Lost has left both trees, but realloc     *)
(* could not add it to the array of flows to export, count and free.       *)
ExpireFlows(ex, Lost) ==
    LET E == {k \in expiries : Expirable(k, ex)} IN
    /\ Lost \subseteq E
    /\ failures + Cardinality(Lost) <= MaxFailures
    /\ failures' = failures + Cardinality(Lost)
    /\ Remove(E)
    /\ num_flows' = num_flows - Cardinality(E)
    /\ expired' = [r \in Reasons |->
            expired[r] + Cardinality({k \in E : FinalReason(k, ex) = r})]
    /\ flows_expired' = flows_expired + Cardinality(E \ Lost)
    /\ gone' = gone + Cardinality(Lost)
    /\ exported' = [d \in Dirs |-> [m \in Monitors |->
            exported[d][m] +
                IF m \in monitors THEN PacketsOf(E \ Lost, d, m) ELSE 0]]
    /\ UNCHANGED flows_force_expired

MainStep ==
    /\ Running
    /\ UNCHANGED <<procVars, batch, now, inputVars>>

(* main: expiry_check.  A capture file is never expired by time.           *)
check_expired ==
    /\ MainStep
    /\ phase = "expire"
    /\ \E Lost \in SUBSET expiries :
        ExpireFlows(IF mode = "file" THEN "forced" ELSE "normal", Lost)
    /\ phase' = "over"
    /\ UNCHANGED status

(* The first n expiry events in tree order; all of them when the array of  *)
(* n pointers cannot be allocated.                                         *)
Oldest(n) == {k \in expiries : Cardinality({j \in expiries : Before(j, k)}) < n}

ForceOut(S) ==
    /\ flow' = [k \in Keys |-> IF k \in S
                THEN [flow[k] EXCEPT !.expires_at = 0, !.reason = "overflows"]
                ELSE flow[k]]
    /\ flows_force_expired' = flows_force_expired + Cardinality(S)
    /\ UNCHANGED <<expiries, orphans, num_flows, flows_expired, expired, gone, exported>>

force_expire(n) ==
    \/ ForceOut(Oldest(n)) /\ UNCHANGED failures
    \/ ForceOut(expiries) /\ Fails

(* The table is too full: force_expire and expiry_check once more.         *)
MainOverFull ==
    /\ MainStep
    /\ phase = "over"
    /\ num_flows > MaxFlows
    /\ force_expire(num_flows - MaxFlows)
    /\ phase' = "expire"
    /\ UNCHANGED status

(* The emulator has sent "end": everything is forced out.                  *)
MainDrain ==
    /\ MainStep
    /\ phase = "over"
    /\ num_flows <= MaxFlows
    /\ mode = "emulator" /\ stops
    /\ num_flows > 0
    /\ force_expire(num_flows)
    /\ phase' = "expire"
    /\ UNCHANGED status

(* Mutated form: main leaves without looking at num_flows.                 *)
MainDrained_Early ==
    /\ MainStep
    /\ phase = "over"
    /\ mode = "emulator" /\ stops
    /\ status' = "exited"
    /\ UNCHANGED <<phase, tableVars, countVars, failures>>

MainDrained ==
    /\ MainStep
    /\ phase = "over"
    /\ num_flows <= MaxFlows
    /\ mode = "emulator" /\ stops
    /\ num_flows = 0
    /\ status' = "exited"
    /\ UNCHANGED <<phase, tableVars, countVars, failures>>

(* sem_post, usleep and back to the top                                    *)
MainRoundDone ==
    /\ Running
    /\ phase = "over"
    /\ num_flows <= MaxFlows
    /\ mode = "emulator" /\ ~stops
    /\ phase' = "top"
    /\ batch' = 0
    /\ UNCHANGED <<procVars, status, now, inputVars, tableVars, countVars, failures>>

RoundDue == num_flows > MaxFlows \/ ExpireNow

(* The emulator mode decides without the semaphore, then waits for it,     *)
(* unless the emulator thread has stopped.                                 *)
MainDue ==
    /\ MainStep
    /\ phase = "top"
    /\ mode = "emulator"
    /\ RoundDue \/ stops
    /\ phase' = IF stops THEN "expire" ELSE "wait"
    /\ UNCHANGED <<status, tableVars, countVars, failures>>

MainLocked ==
    /\ MainStep
    /\ phase = "wait"
    /\ phase' = "expire"
    /\ UNCHANGED <<status, tableVars, countVars, failures>>

(* The other modes, after pcap_dispatch (which may have brought nothing    *)
(* but packets the sampler left out): a fatal error, or                    *)
(* GetStopsEmulatorThread, which does not return.  It is asked before      *)
(* using_emulator is, whether a round of expiry is due or not.             *)
MainCaptured ==
    /\ MainStep
    /\ mode # "emulator"
    /\ phase \in {"top", "collect"}
    /\ status' = IF fatal THEN "exited" ELSE "hung"
    /\ UNCHANGED <<phase, tableVars, countVars, failures>>

(* pcap_dispatch returns 0: graceful shutdown, which also begins with      *)
(* GetStopsEmulatorThread.                                                 *)
CaptureEof ==
    /\ MainStep
    /\ mode = "file"
    /\ phase = "top"
    /\ status' = "hung"
    /\ UNCHANGED <<phase, tableVars, countVars, failures>>

-----------------------------------------------------------------------------
(* accept_control: one command per round of main's loop, live mode only    *)

ControlStep ==
    /\ Running
    /\ mode = "live"
    /\ phase = "top"
    /\ phase' = "collect"
    /\ UNCHANGED <<mode, fatal, emu, stops, batch, now, inputVars>>

ControlExpireAll ==
    /\ ControlStep
    /\ \E Lost \in SUBSET expiries : ExpireFlows("all", Lost)
    /\ UNCHANGED <<status, stop_collection_flag>>

(* delete_all_flows *)
ControlDeleteAll ==
    /\ ControlStep
    /\ Remove(expiries)
    /\ num_flows' = num_flows - Cardinality(expiries)
    /\ gone' = gone + Cardinality(expiries)
    /\ UNCHANGED <<status, stop_collection_flag, flows_expired,
                   flows_force_expired, expired, exported, failures>>

ControlGather ==
    /\ ControlStep
    /\ stop_collection_flag' \in BOOLEAN
    /\ UNCHANGED <<status, tableVars, countVars, failures>>

(* "exit" leaves at once; "shutdown" leaves the loop and then calls        *)
(* GetStopsEmulatorThread.                                                 *)
ControlLeave ==
    /\ ControlStep
    /\ status' \in {"exited", "hung"}
    /\ UNCHANGED <<stop_collection_flag, tableVars, countVars, failures>>

-----------------------------------------------------------------------------
(* The end of the emulation.  EmulatorThreadProcess receives "end" while   *)
(* it holds flow_expiry_sem, posts it, and only then sets the flag.        *)

EmulatorEnd ==
    /\ Running
    /\ emu = "run"
    /\ phase \in {"top", "wait"}
    /\ emu' = "ending"
    /\ UNCHANGED <<mode, fatal, stop_collection_flag, stops, status, phase,
                   batch, now, tableVars, inputVars, countVars, failures>>

SetStopsEmulatorThread ==
    /\ Running
    /\ emu = "ending"
    /\ emu' = "done"
    /\ stops' = TRUE
    /\ UNCHANGED <<mode, fatal, stop_collection_flag, status, phase,
                   batch, now, tableVars, inputVars, countVars, failures>>

Tick ==
    /\ Running
    /\ now < MaxTime
    /\ now' = now + 1
    /\ UNCHANGED <<procVars, status, phase, batch, tableVars, inputVars,
                   countVars, failures>>

MainLoop ==
    \/ check_expired \/ MainOverFull \/ MainDrain \/ MainDrained
    \/ MainRoundDone \/ MainDue \/ MainLocked \/ MainCaptured \/ CaptureEof

Control == ControlExpireAll \/ ControlDeleteAll \/ ControlGather \/ ControlLeave

Next ==
    \/ \E p \in Packets : process_emulator_packet(p)
    \/ \E p \in Packets, t \in FirstTime .. MaxTime : process_packet(p, t)
    \/ MainLoop
    \/ Control
    \/ EmulatorEnd
    \/ SetStopsEmulatorThread
    \/ Tick

Spec == Init /\ [][Next]_vars

-----------------------------------------------------------------------------
(* Properties *)

FlowType ==
    [start : Nat, last : Nat, octets : [Dirs -> Nat], rst : BOOLEAN,
     fin : SUBSET Dirs, seq : Nat, expires_at : Nat, reason : Reasons,
     stat : [Dirs -> [Monitors -> Nat \cup {Absent}]]]

(* What process_packet, check_expired and force_expire leave behind is a   *)
(* flow table: in particular no unsigned counter goes below 0.             *)
TypeOK ==
    /\ mode \in Modes
    /\ status \in {"running", "exited", "crashed", "hung"}
    /\ phase \in {"top", "collect", "wait", "expire", "over"}
    /\ batch \in Nat
    /\ fatal \in BOOLEAN
    /\ stop_collection_flag \in BOOLEAN
    /\ emu \in {"none", "run", "ending", "done"}
    /\ stops \in BOOLEAN
    /\ now \in FirstTime .. MaxTime
    /\ expiries \in SUBSET Keys
    /\ orphans \in SUBSET Keys
    /\ flow \in [Keys -> FlowType]
    /\ monitors \in SUBSET Monitors
    /\ num_flows \in Nat
    /\ next_flow_seq \in Nat
    /\ total_packets \in Nat
    /\ flows_expired \in Nat
    /\ flows_force_expired \in Nat
    /\ expired \in [Reasons -> Nat]
    /\ failures \in Nat
    /\ gone \in Nat
    /\ reported \in [Dirs -> [Monitors -> Nat]]
    /\ exported \in [Dirs -> [Monitors -> Nat]]

(* num_flows, an unsigned counter kept in four functions, is the number of *)
(* expiry events through failed allocations, forced and timed expiry and   *)
(* delete-all, and so never wraps; no flow is in the table twice.          *)
NumFlowsExact ==
    /\ num_flows = Cardinality(expiries)
    /\ expiries \cap orphans = {}

(* Every flow that was given a flow_seq is still in a tree, was counted in *)
(* flows_expired, or was freed without being counted; the ten expired_*    *)
(* counters add up to the flows check_expired removed.                     *)
FlowsAccounted ==
    /\ next_flow_seq - 1 =
           num_flows + Cardinality(orphans) + flows_expired + gone
    /\ MapThenSumSet(LAMBDA r : expired[r], Reasons) \in
           flows_expired .. flows_expired + gone

(* No expiry event lies beyond the end of its flow's lifetime, whatever    *)
(* packets, time stamps and timeouts led to it.                            *)
LifetimeBound ==
    Timeout.maxlife # 0 =>
        \A k \in expiries : flow[k].expires_at <= flow[k].start + Timeout.maxlife

(* Has check_expired a cause to drop flow k now?                           *)
Justified(k) ==
    \/ now > IdleUntil(k, flow[k])
    \/ Timeout.maxlife # 0 /\ now > flow[k].start + Timeout.maxlife
    \/ OverBytes(flow[k])
    \/ OverLife(flow[k])
    \/ flow[k].reason = "overflows"

ExpiryStep ==
    /\ phase = "expire" => \A k \in expiries \ expiries' : Justified(k)
    /\ flows_force_expired' # flows_force_expired => num_flows > MaxFlows \/ stops
    /\ (phase = "over" /\ phase' = "top") => num_flows' <= MaxFlows
    /\ (mode = "emulator" /\ ~ExpireNow) =>
           \A k \in expiries : flow[k].expires_at + Timeout.interval >= now

(* Expiry is neither early nor late, although an expiry event may have     *)
(* been computed from an earlier state of its flow: check_expired never    *)
(* drops a flow that is neither idle, too old, too large nor forced out;   *)
(* only a full table or the end of the emulation forces flows out; when a  *)
(* round is over the table is within max_flows; and in the emulator mode,  *)
(* the only one that comes to expire flows, no flow is overdue by more     *)
(* than the clustering interval when next_expire tells main to pass over   *)
(* the round.                                                              *)
ExpirySound == [][ExpiryStep]_vars

(* As long as no allocation fails, every packet a monitor has reported in  *)
(* direction 0 is in the monitor's count of a tracked flow or in a record  *)
(* that was exported, exactly once, however often its flow was expired and *)
(* opened again.                                                           *)
MonitorConservation ==
    (mode = "emulator" /\ failures = 0) =>
        \A m \in Monitors : reported[0][m] = exported[0][m] + PacketsOf(expiries, 0, m)

(* softflowd leaves after "end" only when every tracked flow was expired.  *)
EndExportsAll ==
    (mode = "emulator" /\ status = "exited") => expiries = {}

(* What softflowd.8:135 says of a capture file: softflowd "processes the   *)
(* whole capture file" and prints statistics "before exiting".  The code   *)
(* waits for end_msg, which this mode never initialised, instead.          *)
CaptureFileProcessed == mode = "file" => status # "hung"

=============================================================================
