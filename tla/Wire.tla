-------------------------------- MODULE Wire --------------------------------
(***************************************************************************)
(* The way of a captured frame to a flow of softflowd through NSP: the     *)
(* traffic loader decodes the frame (TraficLoader.cpp), the softflowd      *)
(* interface prints the packet as one line of text for every monitor that  *)
(* reports it (SoftflowdInterface.cpp), softflowd splits the line again    *)
(* and turns it into a flow (EmulatorInterface.c).  What softflowd makes   *)
(* of the same frame when it captures it itself (softflowd.c) is what the  *)
(* result is compared with.                                                *)
(*                                                                         *)
(* A frame is a record of what its bytes say: dlt (link type of the file), *)
(* caplen, type (of the frame), v and hl (IP version and header length),   *)
(* src, dst, len, p, off and mf (fragment), sport, dport and flags (what   *)
(* the buffer holds in their place).  TCP flags are the eight bits of the  *)
(* byte, because softflowd reads the byte as a character of the text.  The *)
(* build is little-endian, as NSP and softflowd run on one PC.  Expiry,    *)
(* per-monitor counters and sampling are modelled in FlowTrack, Sampling   *)
(* and Playback; here a flow may expire, and a report be passed over, at   *)
(* any time.  The tracking level is the default one, of full flows.        *)
(***************************************************************************)
EXTENDS Integers, Sequences, FiniteSets, SequencesExt, FiniteSetsExt, Functions

CONSTANTS Frames,     \* the frames a capture file may hold
          Path,       \* the monitors on the way of a packet, in order
          AsOf,       \* the AS that NSP gave to an address
          Garbage,    \* values of the variables that are never set
          MaxFrames   \* bound: frames played

ASSUME MaxFramesAssumption == MaxFrames \in Nat \ {0}
ASSUME PathAssumption == Path \in Seq(Nat)

Under(k) == {n \in Nat : n < k}
Octets == [1..8 -> 0..1]

ASSUME GarbageAssumption == Garbage \subseteq Under(65536)

CapturedFrames ==
    [dlt : STRING, caplen : Nat, type : Nat, v : Under(16), hl : Nat, src : Nat, dst : Nat,
     len : Under(65536), p : Under(256), off : Under(8192), mf : BOOLEAN,
     sport : Under(65536), dport : Under(65536), flags : Octets]

ASSUME FramesAssumption ==
    /\ Frames \subseteq CapturedFrames
    /\ \A f \in Frames : AsOf[f.src] \in Nat /\ AsOf[f.dst] \in Nat

VARIABLES played,     \* the frames read so far
          held,       \* the packet on its way through the routers
          hop,        \* monitors it has passed
          net,        \* reports on their way to softflowd, in order
          flows,      \* ft->flows
          exported,   \* the flows that have expired
          bad         \* ft->bad_packets

wireVars == <<played, held, hop, net, flows, exported, bad>>

NoPacket == [id |-> 0]
TCP == 6
UDP == 17
ICMP == 1

WireInit ==
    /\ played = <<>> /\ held = NoPacket /\ hop = 0
    /\ net = <<>> /\ flows = {} /\ exported = <<>> /\ bad = 0

(***************************************************************************)
(* TraficLoader.cpp: from the frame to NSP's packet.                       *)
(***************************************************************************)
DATALINK ==
    [EN10MB    |-> [skiplen |-> 14, v4 |-> 2048],
     PPP       |-> [skiplen |-> 5,  v4 |-> 33],
     LINUX_SLL |-> [skiplen |-> 16, v4 |-> 2048],
     RAW       |-> [skiplen |-> 0,  v4 |-> 64],
     NULL      |-> [skiplen |-> 4,  v4 |-> 2],
     LOOP      |-> [skiplen |-> 4,  v4 |-> 2]]

\* Bytes to skip; -1 skips the frame.  want_v6 is 0: IPv6 goes the same way
DatalinkCheck(f) ==
    IF /\ f.dlt \in DOMAIN DATALINK
       /\ f.caplen > DATALINK[f.dlt].skiplen
       /\ f.type = DATALINK[f.dlt].v4
    THEN DATALINK[f.dlt].skiplen ELSE -1

Swap16(n) == (n % 256) * 256 + ((n \div 256) % 256)

Unset == -1    \* an empty string

\* The ports are printed as they lie in the frame
TransportToUpLevel(f) ==
    IF f.p \in {TCP, UDP} THEN [sport |-> Swap16(f.sport), dport |-> Swap16(f.dport)]
                          ELSE [sport |-> Unset, dport |-> Unset]

Runt(f, skip) == f.caplen - skip < 20 \/ f.caplen - skip < f.hl \/ f.v # 4

\* IP_MF counts as a fragment, its offset goes with the flag bit above it
Ipv4ToUpLevel(f, n) ==
    [id |-> n, sec |-> 0, usec |-> n, forwarded |-> FALSE,
     src |-> f.src, dst |-> f.dst, len |-> f.len, p |-> f.p, flags |-> f.flags,
     fragment |-> f.off # 0 \/ f.mf,
     seq |-> IF f.off # 0 THEN f.off + (IF f.mf THEN 8192 ELSE 0) ELSE 0,
     sport |-> TransportToUpLevel(f).sport, dport |-> TransportToUpLevel(f).dport]

AmIValid(q) == q.p = ICMP \/ (q.sport # Unset /\ q.dport # Unset)

(***************************************************************************)
(* SoftflowdInterface.cpp: from the packet to the text.  A token stands    *)
(* for a run of characters, <<n>> for a number or a name; the byte of the  *)
(* TCP flags is appended as it is, so 0x23 is one more separator and 0     *)
(* ends the C string it is in.  The text has no length here: that the ten  *)
(* digits of a second do not leave room for their end in tmp[10], nor the  *)
(* longest reports in the tmpPacket[100] of softflowd, is left out.        *)
(***************************************************************************)
SEP == <<0, 0, 1, 0, 0, 0, 1, 1>>
NUL == <<0, 0, 0, 0, 0, 0, 0, 0>>
Printed(n) == <<n>>
Bit(b) == IF b THEN 1 ELSE 0

TransportFields(q) ==
    IF q.p # TCP THEN <<SEP, SEP, SEP>>
    ELSE <<SEP, Printed(Bit(q.fragment)), SEP>>
           \o (IF q.fragment THEN <<Printed(q.seq)>> ELSE <<>>) \o <<SEP>>
           \o (IF q.flags = NUL THEN <<>> ELSE <<q.flags>>)

GetPacketMessage(q, monitor) ==
    LET port(n) == Printed(IF n = Unset THEN 0 ELSE n) IN
    <<Printed(monitor), SEP, Printed(q.src), SEP, Printed(q.dst), SEP, Printed(q.len), SEP,
      Printed(q.sec), SEP, Printed(q.usec), SEP, port(q.sport), SEP, port(q.dport), SEP,
      Printed(AsOf[q.src]), SEP, Printed(AsOf[q.dst]), SEP, Printed(q.p)>>
    \o TransportFields(q)
    \o <<SEP, Printed(Bit(q.forwarded))>>

(***************************************************************************)
(* EmulatorInterface.c: from the text to the flow.                         *)
(***************************************************************************)
MAX_EMULATOR_MESSAGE_PARTS == 14

\* The next separator after place i, or the end of the text
strchr(msg, i) == Min({j \in i + 1 .. Len(msg) : msg[j] = SEP} \cup {Len(msg) + 1})

\* The separators, from the left
Separators(msg) ==
    LET at[n \in 0..MAX_EMULATOR_MESSAGE_PARTS] ==
          IF n = 0 THEN 0 ELSE strchr(msg, at[n - 1])
    IN  at

\* What is between two separators; the last part is all that is left
get_emulator_packet_part(msg, n) ==
    LET at == Separators(msg) IN
    SubSeq(msg, at[n] + 1,
           IF n = MAX_EMULATOR_MESSAGE_PARTS THEN Len(msg) ELSE at[n + 1] - 1)

Parses(msg) == Separators(msg)[MAX_EMULATOR_MESSAGE_PARTS] <= Len(msg)

\* No digit reads as 0
atoi(part) == IF part = <<>> \/ Len(part[1]) # 1 THEN 0 ELSE part[1][1]

Part(msg, n) == atoi(get_emulator_packet_part(msg, n))

\* The pair with x in the place of side ndx and y in the other
Sides(ndx, x, y) == IF ndx = 1 THEN <<x, y>> ELSE <<y, x>>
SetSide(pair, ndx, x) == [pair EXCEPT ![ndx] = x]
Ndx(src, dst) == IF src > dst THEN 2 ELSE 1

\* The first character of the part; a text of digits is not a flag
FlagByte(part) == IF part = <<>> THEN NUL ELSE part[1]

\* The ports, or <<0, 0>> where the transport header is not looked at; for
\* UDP and ICMP neither isfrag nor ip_off is set, nor is the type of ICMP
Ports(msg, ndx) ==
    LET p     == Part(msg, 10)
        ports == Sides(ndx, Swap16(Part(msg, 6)), Swap16(Part(msg, 7)))
        later == Part(msg, 11) = 1 /\ Part(msg, 12) # 0
    IN  CASE p = TCP  -> {IF later THEN <<0, 0>> ELSE ports}
          [] p = UDP  -> {<<0, 0>>, ports}
          [] p = ICMP -> {<<0, 0>>} \cup {Sides(ndx, 0, g) : g \in Garbage}

Flags(msg) ==
    IF Part(msg, 10) = TCP /\ ~(Part(msg, 11) = 1 /\ Part(msg, 12) # 0)
    THEN FlagByte(get_emulator_packet_part(msg, 13)) ELSE NUL

\* A wrong variant: on the side of the source
AsDst_SourceSide(msg, ndx) == Sides(ndx, Part(msg, 9), 0)

AsDst(msg, ndx) == Sides(ndx, 0, Part(msg, 9))

emulator_ipv4_to_flowrec(msg) ==
    LET src == Part(msg, 1)  dst == Part(msg, 2)  ndx == Ndx(src, dst) IN
    {[addr |-> Sides(ndx, src, dst), protocol |-> Part(msg, 10), port |-> ports,
      tcp_flags |-> Sides(ndx, Flags(msg), NUL),
      octets |-> Sides(ndx, Part(msg, 3), 0), packets |-> Sides(ndx, 1, 0),
      as_src |-> Sides(ndx, Part(msg, 8), 0), as_dst |-> AsDst(msg, ndx)] :
     ports \in Ports(msg, ndx)}

OrBits(a, b) == [i \in 1..8 |-> IF a[i] = 1 \/ b[i] = 1 THEN 1 ELSE 0]
OrSides(x, y) == <<OrBits(x[1], y[1]), OrBits(x[2], y[2])>>
Add(x, y) == <<x[1] + y[1], x[2] + y[2]>>

\* A new flow is the record; ids remembers which packets a flow has counted
Opened(rec, id) ==
    [addr |-> rec.addr, protocol |-> rec.protocol, port |-> rec.port,
     tcp_flags |-> rec.tcp_flags, octets |-> rec.octets, packets |-> rec.packets,
     as_src |-> rec.as_src, as_dst |-> rec.as_dst, ids |-> <<id>>]

\* flow_compare: what makes two records one flow
Identity(rec) == <<rec.addr, rec.protocol, rec.port>>

\* A flow that is found counts a report only if no other monitor sent it
\* before
Updated(flow, rec, ndx, id) ==
    [flow EXCEPT !.packets = Add(@, rec.packets), !.octets = Add(@, rec.octets),
                 !.tcp_flags = OrSides(@, rec.tcp_flags),
                 !.as_src = SetSide(@, ndx, rec.as_src[ndx]),
                 !.as_dst = SetSide(@, 3 - ndx, rec.as_dst[3 - ndx]),
                 !.ids = Append(@, id)]

process_emulator_packet(msg, rec, id) ==
    LET found == {x \in flows : Identity(x) = Identity(rec)} IN
    IF found = {} THEN flows' = flows \cup {Opened(rec, id)}
    ELSE IF Part(msg, 14) # 0 THEN UNCHANGED flows
    ELSE flows' = (flows \ found) \cup
                  {Updated(x, rec, Ndx(Part(msg, 1), Part(msg, 2)), id) : x \in found}

(***************************************************************************)
(* The steps.                                                              *)
(***************************************************************************)
\* PerPacketCallBackFunction: a frame is dropped or becomes the packet held
PlayFrame(f) ==
    LET skip == DatalinkCheck(f)
        packet == Ipv4ToUpLevel(f, Len(played) + 1)
    IN  /\ held = NoPacket
        /\ Len(played) < MaxFrames
        /\ played' = Append(played, f)
        /\ held' = IF skip >= 0 /\ ~Runt(f, skip) /\ AmIValid(packet)
                   THEN packet ELSE NoPacket
        /\ hop' = 0
        /\ UNCHANGED <<net, flows, exported, bad>>

\* PreparePacketToBeSent: a copy is sent, then the packet is marked
Report ==
    /\ held # NoPacket
    /\ hop < Len(Path)
    /\ net' = Append(net, [id |-> held.id, txt |-> GetPacketMessage(held, Path[hop + 1])])
    /\ held' = [held EXCEPT !.forwarded = TRUE]
    /\ hop' = hop + 1
    /\ UNCHANGED <<played, flows, exported, bad>>

\* The sampling of the router passes the packet over
PassOver ==
    /\ held # NoPacket
    /\ hop < Len(Path)
    /\ hop' = hop + 1
    /\ UNCHANGED <<played, held, net, flows, exported, bad>>

Arrive ==
    /\ held # NoPacket
    /\ hop = Len(Path)
    /\ held' = NoPacket
    /\ UNCHANGED <<played, hop, net, flows, exported, bad>>

\* accept_emulator
Accept ==
    /\ net # <<>>
    /\ net' = Tail(net)
    /\ IF Parses(Head(net).txt)
       THEN /\ \E rec \in emulator_ipv4_to_flowrec(Head(net).txt) :
                 process_emulator_packet(Head(net).txt, rec, Head(net).id)
            /\ UNCHANGED bad
       ELSE bad' = bad + 1 /\ UNCHANGED flows
    /\ UNCHANGED <<played, held, hop, exported>>

\* The sampling of softflowd passes the report over, or the datagram is lost
Discard ==
    /\ net # <<>>
    /\ net' = Tail(net)
    /\ UNCHANGED <<played, held, hop, flows, exported, bad>>

\* check_expired, force_expire
Expire(x) ==
    /\ flows' = flows \ {x}
    /\ exported' = Append(exported, x)
    /\ UNCHANGED <<played, held, hop, net, bad>>

WireNext ==
    \/ \E f \in Frames : PlayFrame(f)
    \/ Report
    \/ PassOver
    \/ Arrive
    \/ Accept
    \/ Discard
    \/ \E x \in flows : Expire(x)

WireSpec == WireInit /\ [][WireNext]_wireVars

(***************************************************************************)
(* What softflowd makes of a frame it captures itself: flow_cb,            *)
(* ipv4_to_flowrec and transport_to_flowrec of softflowd.c.                *)
(***************************************************************************)
TransportSeen(f) == f.off = 0 /\ f.caplen - DatalinkCheck(f) - f.hl >= 20

transport_to_flowrec(f, ndx) ==
    IF f.p = TCP /\ TransportSeen(f) THEN Sides(ndx, Swap16(f.sport), Swap16(f.dport))
                                     ELSE <<0, 0>>

ipv4_to_flowrec(f) ==
    LET ndx == Ndx(f.src, f.dst) IN
    [addr |-> Sides(ndx, f.src, f.dst), protocol |-> f.p, port |-> transport_to_flowrec(f, ndx)]

(***************************************************************************)
(* Properties.                                                             *)
(***************************************************************************)
AllFlows == flows \cup Range(exported)

TcpFlows == {x \in AllFlows : x.protocol = TCP}

\* Frames with all of the TCP header
Whole(f) == f.caplen - DatalinkCheck(f) - f.hl >= 20
WholeIds(x) == {i \in Range(x.ids) : Whole(played[i])}

\* The flow that packet i would be in had softflowd captured it itself
Captured(i) == Identity(ipv4_to_flowrec(played[i]))

Hash(x) == \E i \in Range(x.ids) : played[i].flags = SEP

\* The packets counted in flow x that went from its side d to the other
From(x, d) == {i \in Range(x.ids) : Ndx(played[i].src, played[i].dst) = d}

SumOfLengths(I) == FoldFunction(+, 0, [i \in I |-> played[i].len])

\* The bits of the flags of the packets I whose transport header is seen
FlagsOf(I) ==
    [b \in 1..8 |-> IF \E i \in I : played[i].off = 0 /\ played[i].flags[b] = 1
                    THEN 1 ELSE 0]

(***************************************************************************)
(* The text keeps a TCP packet what it was: the packets counted in a flow  *)
(* are ones that softflowd would have put in one flow had it captured them *)
(* itself, two flows of the table hold no two packets that it would have   *)
(* put together, and a flow has the addresses of its packets; its two      *)
(* sides have the number, the octets and the flags of the packets that     *)
(* left them, each counted once in that flow however many monitors report  *)
(* it, an AS number is that of the address on its side, and no report      *)
(* fails to parse.  It says nothing of the value of the ports (see         *)
(* PortsInNetworkOrder), nor of a packet that is counted again in a flow   *)
(* opened anew after the first has expired, and the counts of a flow with  *)
(* flags 0x23, which read as a separator, are left out.                    *)
(***************************************************************************)
FlowAsCaptured ==
    /\ bad = 0
    /\ \A x \in TcpFlows : \A i, j \in WholeIds(x) : Captured(i) = Captured(j)
    /\ \A x, y \in TcpFlows \cap flows :
         \A i \in WholeIds(x), j \in WholeIds(y) : Captured(i) = Captured(j) => x = y
    /\ \A x \in TcpFlows :
         /\ \A i \in Range(x.ids) : x.addr = ipv4_to_flowrec(played[i]).addr
         /\ ~Hash(x) => /\ IsInjective(x.ids)
                        /\ \A d \in 1..2 : /\ x.packets[d] = Cardinality(From(x, d))
                                           /\ x.octets[d] = SumOfLengths(From(x, d))
                                           /\ x.tcp_flags[d] = FlagsOf(From(x, d))
         /\ \A d \in 1..2 : /\ x.as_src[d] \in {0, AsOf[x.addr[d]]}
                            /\ x.as_dst[d] \in {0, AsOf[x.addr[d]]}

(***************************************************************************)
(* The ports of a flow are in network byte order, as softflowd.h says of   *)
(* the identity of a flow and as softflowd's own capture leaves them.  NSP *)
(* prints the two bytes as they lie in the frame, as one number, and       *)
(* softflowd swaps them when it reads the number (EmulatorInterface.c), so *)
(* what it then exports are not the ports of the connection.               *)
(***************************************************************************)
PortsInNetworkOrder ==
    \A x \in TcpFlows : \A i \in WholeIds(x) : x.port = ipv4_to_flowrec(played[i]).port

=============================================================================
