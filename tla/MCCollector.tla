---------------------------- MODULE MCCollector ----------------------------
(* Small instances of Collector. *)
EXTENDS Collector

CONSTANTS s1, s2, s3

Dgram(s, v, sh, n) == [src |-> s, version |-> v, shape |-> sh, nflows |-> n]

(* Three sources for a table of two, a datagram that fills the output      *)
(* queue, malformed ones and a version that is not supported.              *)
MixedDatagrams ==
    {Dgram(s1, 5, "flows", 3), Dgram(s2, 1, "flows", 1), Dgram(s2, 5, "bad", 1),
     Dgram(s3, 1, "short", 1), Dgram(s1, 9, "flows", 1)}

(* A log file for everybody; a log socket for one device only.             *)
TwoConfigs ==
    {[allowed |-> {}, log |-> TRUE, sock |-> FALSE],
     [allowed |-> {s1}, log |-> TRUE, sock |-> TRUE]}

=============================================================================
