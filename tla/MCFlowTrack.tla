---------------------------- MODULE MCFlowTrack ----------------------------
(* Instances of FlowTrack for TLC. *)
EXTENDS FlowTrack

CONSTANTS k1, k2, k3, m1, m2

AllProto == [k \in {k1, k2, k3} |-> IF k = k2 THEN "udp" ELSE "tcp"]

Pkt(k, d, l, f, m, a) ==
    [key |-> k, dir |-> d, len |-> l, flag |-> f, monitor |-> m, again |-> a]

(* A TCP flow that two monitors see, with FIN in both directions, and one  *)
(* packet of it reported by both of them; a large UDP packet; a RST.       *)
MixedPackets ==
    {Pkt(k1, 0, 1, "fin", m1, FALSE), Pkt(k1, 0, 1, "fin", m2, TRUE),
     Pkt(k1, 1, 1, "fin", m2, FALSE), Pkt(k2, 0, 3, "none", m1, FALSE),
     Pkt(k3, 1, 1, "rst", m1, FALSE)}

ShortTimeouts ==
    [tcp |-> 3, tcp_rst |-> 1, tcp_fin |-> 2, udp |-> 1, icmp |-> 1,
     general |-> 2, maxlife |-> 2, interval |-> 2]
=============================================================================
