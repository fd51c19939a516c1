-------------------------------- MODULE Export --------------------------------
(* From an expired flow to the flow log and back: the NetFlow senders of    *)
(* softflowd (netflow1.c, netflow5.c, netflow9.c) called by check_expired,  *)
(* UDP, which loses, repeats and reorders datagrams, flowd, which decodes,  *)
(* filters and stores the records (flowd.c, filter.c, addr.c, store.c), and *)
(* what flowd-reader makes of the log.  flowd may be killed at any moment,  *)
(* in the middle of a write too, and started again on the same log.         *)
(* A NetFlow record is reduced to its two addresses; an address is a        *)
(* number of Bits bits.                                                     *)
EXTENDS Integers, FiniteSets, Sequences, SequencesExt

CONSTANTS
    Monitors,     \* addresses of the emulated monitors, in table order
    Exporter,     \* address softflowd sends from
    Bits,         \* width of an address
    Batches,      \* what one scan of check_expired may find expired
    RuleLists,    \* the filter sections flowd may be configured with
    MaxScans,     \* bound on the scans of check_expired
    MaxDup,       \* bound on the repeated datagrams
    MaxCrash,     \* bound on the kills and failed writes of flowd
    QueueWords,   \* OUTPUT_MAX_QLEN, in words of the store
    MAXFLOWS,     \* NF1_MAXFLOWS and NF5_MAXFLOWS
    NF9_PACKET,   \* NF9_SOFTFLOWD_MAX_PACKET_SIZE, in bytes
    NF9_INTERVAL  \* NF9_DEFAULT_TEMPLATE_INTERVAL

ASSUME ExportAssumption ==
    /\ Monitors \in Seq(1 .. 2^Bits - 1)
    /\ Exporter \in 1 .. 2^Bits - 1
    /\ Bits \in Nat
    /\ MAXFLOWS \in Nat /\ MAXFLOWS > 2
    /\ QueueWords >= 6  \* the longest record, Must not fail after flush
    /\ NF9_INTERVAL \in Nat
    /\ NF9_PACKET \in Nat /\ NF9_PACKET % 4 = 0
    /\ NF9_PACKET >= 238  \* the templates and both directions of a flow

(* A flow has an address family, the octets of each direction, at least the *)
(* ones of its first packet, and, per monitor and direction, the monitor's  *)
(* own octets, -1 when the monitor has not seen that direction.             *)
Directions == 0 .. 1

Flows ==
    {f \in [af : {4, 6}, addr : [Directions -> Nat], octets : [Directions -> Nat],
            stat : [ToSet(Monitors) -> [Directions -> Nat \cup {-1}]]] :
        f.octets[0] > 0 \/ f.octets[1] > 0}

ASSUME BatchesAssumption == Batches \subseteq Seq(Flows)

(* The addresses of a net whose mask leaves n bits.                         *)
Span[n \in 0 .. Bits] == IF n = 0 THEN 1 ELSE 2 * Span[n - 1]

(* A rule of flowd's filter has criteria, some of them negated, and an      *)
(* action.  A criterion is a net: an address and the length of its mask.    *)
Criteria == {"agent", "src", "dst"}

Nets == (0 .. 2^Bits - 1) \X (0 .. Bits)

Rules ==
    [match : UNION {[D -> Nets] : D \in SUBSET Criteria}, negate : SUBSET Criteria,
     quick : BOOLEAN, action : {"accept", "discard", "tag"}, tag : Nat]

ASSUME RulesAssumption == RuleLists \subseteq Seq(Rules)

VARIABLES
    version,         \* the dialect softflowd was started with
    using_emulator,  \* 1 when the flows come from the emulator
    scans,           \* scans of check_expired so far
    calls,           \* calls of dialect->func that a scan has still to make
    flows_exported,  \* records exported, for the sequence numbers
    until_template,  \* nf9_pkts_until_template
    sent,            \* the datagrams that send() took
    net,             \* those that UDP may still deliver, in any order; one that
                     \* it loses stays here
    dups,            \* datagrams that UDP has repeated
    filter_list,     \* flowd's filter
    crc,             \* is CRC32 part of flowd's store mask
    up,              \* is flowd running
    pending,         \* records of the datagram flowd is processing
    output_queue,    \* words waiting for the next flush
    log,             \* the words of the log file
    received,        \* records that passed the checks on their datagram
    queued,          \* the records in output_queue
    written,         \* records handed to a write that was not undone
    crashes,         \* kills and failed writes of flowd
    torn             \* has a write left part of a record in the log

exporter == <<version, using_emulator, scans, calls, flows_exported,
              until_template, sent>>
config == <<filter_list, crc>>
exportVars == <<exporter, net, dups, config, up, pending, output_queue, log,
          received, queued, written, crashes, torn>>

-----------------------------------------------------------------------------
(* softflowd's senders.                                                     *)
Record(f, d) == [src |-> f.addr[d], dst |-> f.addr[1 - d]]

(* Both directions that have octets, as versions 5 and 9 export them.       *)
BothWays(f) ==
    (IF f.octets[0] > 0 THEN <<Record(f, 0)>> ELSE <<>>) \o
    (IF f.octets[1] > 0 THEN <<Record(f, 1)>> ELSE <<>>)

(* The direction inOut, when the flow has octets in it: version 1, which    *)
(* therefore exports nothing when it is called with -1.                     *)
OneWay(f, inOut) ==
    IF inOut \in Directions /\ f.octets[inOut] > 0
    THEN <<Record(f, inOut)>> ELSE <<>>

(* The direction inOut as the selected monitor saw it: version 5 under the  *)
(* emulator.                                                                *)
MonitorWay(f, c) ==
    IF f.stat[c.monitor][c.inOut] > 0 THEN <<Record(f, c.inOut)>> ELSE <<>>

Records(f, c) ==
    IF version = 9 THEN BothWays(f)
    ELSE IF f.af # 4 THEN <<>>
    ELSE IF version = 1 THEN OneWay(f, c.inOut)
    ELSE IF using_emulator = 0 THEN BothWays(f)
    ELSE MonitorWay(f, c)

(* A wrong variant: one flow too many.                                      *)
FullLate(recs) == Len(recs) >= MAXFLOWS

(* A datagram is closed once it might not take both directions of another   *)
(* flow.                                                                    *)
Full(recs) == Len(recs) >= MAXFLOWS - 1

Counts(datagrams) ==
    LET n[i \in 0 .. Len(datagrams)] ==
          IF i = 0 THEN 0 ELSE n[i - 1] + Len(datagrams[i].recs)
    IN  n

RecordsIn(datagrams) == Counts(datagrams)[Len(datagrams)]

(* The datagrams of versions 1 and 5 for the flows of one call, flow by     *)
(* flow.  The header is written while the datagram is empty, the monitor    *)
(* with the first flow that is IPv4.                                        *)
Sealed(s) == [s.hdr EXCEPT !.recs = s.recs]

Flush(s) ==
    IF Full(s.recs)
    THEN [s EXCEPT !.out = Append(@, Sealed(s)), !.recs = <<>>] ELSE s

Header(s) ==
    IF s.recs = <<>>
    THEN [s EXCEPT !.hdr = [seq |-> flows_exported + RecordsIn(s.out),
                            monitor |-> 0, recs |-> <<>>]]
    ELSE s

WithMonitor(s, f, c) ==
    IF s.recs = <<>> /\ using_emulator = 1 /\ f.af = 4
    THEN [s EXCEPT !.hdr.monitor = c.monitor] ELSE s

PackFlow(s, f, c) ==
    LET open == WithMonitor(Header(Flush(s)), f, c)
    IN  [open EXCEPT !.recs = @ \o Records(f, c)]

Packing(c) ==
    LET s[i \in 0 .. Len(c.flows)] ==
          IF i = 0 THEN [out |-> <<>>, recs |-> <<>>, hdr |-> <<>>]
          ELSE PackFlow(s[i - 1], c.flows[i], c)
    IN  s

Pack(c) ==
    LET end == Packing(c)[Len(c.flows)]
    IN  IF end.recs = <<>> THEN end.out ELSE Append(end.out, Sealed(end))

(* Sizes of version 9, in bytes: the header, the two templates, the header  *)
(* of a flowset and the packed records of IPv4 and IPv6.                    *)
NF9Header == 20
NF9Templates == 2 * (8 + 11 * 4)
NF9Flowset == 4
NF9Record(af) == IF af = 4 THEN 31 ELSE 55

Padded(n) == n + ((4 - (n % 4)) % 4)

(* nf_flow_to_flowset, after a new flowset when the family changes.         *)
NF9Offset(p, f) ==
    (IF p.af = f.af THEN p.offset ELSE Padded(p.offset) + NF9Flowset)
        + Len(BothWays(f)) * NF9Record(f.af)

(* A new datagram, with the templates when the interval is over.            *)
NF9Open(p) ==
    LET due == p.until <= 0 IN
    [p EXCEPT !.offset = NF9Header + IF due THEN NF9Templates ELSE 0,
              !.until = IF due THEN NF9_INTERVAL ELSE @,
              !.af = 0, !.recs = <<>>]

(* Datagrams of version 9: a flow that does not fit closes the datagram and *)
(* opens the next, whose sequence counts flows.  until is the counter as    *)
(* the datagram leaves it, before the decrement that follows its sending.   *)
NF9Sealed(p) ==
    [seq |-> p.seq, monitor |-> 0, recs |-> p.recs, bytes |-> Padded(p.offset),
     until |-> p.until]

NF9Close(p) ==
    [NF9Open([p EXCEPT !.until = @ - 1]) EXCEPT !.out = Append(@, NF9Sealed(p)),
                                                !.seq = p.next]

NF9Add(p, f) ==
    [p EXCEPT !.offset = NF9Offset(p, f), !.af = f.af,
              !.recs = @ \o BothWays(f), !.next = @ + 1]

NF9Flow(p, f) ==
    NF9Add(IF NF9Offset(p, f) <= NF9_PACKET THEN p ELSE NF9Close(p), f)

NF9Start ==
    NF9Open([out |-> <<>>, recs |-> <<>>, af |-> 0, offset |-> 0,
             until |-> until_template, seq |-> flows_exported,
             next |-> flows_exported])

Packing9(c) ==
    LET p[i \in 0 .. Len(c.flows)] ==
          IF i = 0 THEN NF9Start ELSE NF9Flow(p[i - 1], c.flows[i])
    IN  p

Pack9(c) ==
    LET end == Packing9(c)[Len(c.flows)]
    IN  IF c.flows = <<>> THEN <<>> ELSE Append(end.out, NF9Sealed(end))

Datagrams(c) == IF version = 9 THEN Pack9(c) ELSE Pack(c)

(* What flows_exported gains when the first n of the datagrams went out:    *)
(* version 9 counts flows, and only once they are all sent.                 *)
Exported(c, n) ==
    IF version = 9 THEN IF n = Len(Datagrams(c)) THEN Len(c.flows) ELSE 0
    ELSE RecordsIn(SubSeq(Datagrams(c), 1, n))

(* nf9_pkts_until_template after the call; a datagram that failed leaves    *)
(* the counter as if its templates had been sent.                           *)
UntilTemplate(c, n) ==
    LET g == Datagrams(c) IN
    IF version # 9 \/ g = <<>> THEN until_template
    ELSE IF n < Len(g) THEN g[n + 1].until ELSE g[n].until - 1

-----------------------------------------------------------------------------
(* check_expired: without the emulator one call with all the flows; under   *)
(* it, for every monitor, one call per direction with the flows that list   *)
(* the monitor in that direction.                                           *)
Listed(f, m, d) == IF f.stat[m][d] >= 0 THEN <<f>> ELSE <<>>

Selected(batch, m, d) ==
    FlattenSeq([i \in 1 .. Len(batch) |-> Listed(batch[i], m, d)])

CallsOf(batch) ==
    IF using_emulator = 0
    THEN <<[flows |-> batch, monitor |-> 0, inOut |-> -1]>>
    ELSE FlattenSeq([i \in 1 .. Len(Monitors) |->
             [d \in 1 .. 2 |-> [flows |-> Selected(batch, Monitors[i], d - 1),
                                monitor |-> Monitors[i], inOut |-> d - 1]]])

CheckExpired ==
    /\ scans < MaxScans /\ calls = <<>>
    /\ \E batch \in Batches : calls' = CallsOf(batch)
    /\ scans' = scans + 1
    /\ UNCHANGED <<version, using_emulator, flows_exported, until_template, sent,
                   net, dups, config, up, pending, output_queue, log, received,
                   queued, written, crashes, torn>>

(* One call of dialect->func: n of its datagrams go out, and when n is not  *)
(* all of them send() has failed on the next and the call returns -1.       *)
SendNetflow ==
    /\ calls # <<>>
    /\ LET c == Head(calls) IN
       \E n \in 0 .. Len(Datagrams(c)) :
          /\ sent' = sent \o SubSeq(Datagrams(c), 1, n)
          /\ net' = net \cup (Len(sent) + 1 .. Len(sent) + n)
          /\ flows_exported' = flows_exported + Exported(c, n)
          /\ until_template' = UntilTemplate(c, n)
    /\ calls' = Tail(calls)
    /\ UNCHANGED <<version, using_emulator, scans, dups, config, up, pending,
                   output_queue, log, received, queued, written, crashes, torn>>

-----------------------------------------------------------------------------
(* flowd's filter.                                                          *)
(* addr_netmatch: the host, masked, is the net.                             *)
addr_netmatch(host, net_, masklen) ==
    host - (host % Span[Bits - masklen]) = net_

(* A wrong variant: negation is ignored.                                    *)
flow_match_plain(rule, flow) ==
    \A what \in DOMAIN rule.match :
        addr_netmatch(flow[what], rule.match[what][1], rule.match[what][2])

flow_match(rule, flow) ==
    \A what \in DOMAIN rule.match :
        addr_netmatch(flow[what], rule.match[what][1], rule.match[what][2])
            # (what \in rule.negate)

(* The flow as it is to be stored, with its tag, or nothing: the last rule  *)
(* that matches wins, unless one that matches is quick, which ends the      *)
(* search.                                                                  *)
Try(s, rule, flow) ==
    IF s.stop \/ ~flow_match(rule, flow) THEN s
    ELSE [last |-> <<rule>>, stop |-> rule.quick]

Search(flow) ==
    LET s[i \in 0 .. Len(filter_list)] ==
          IF i = 0 THEN [last |-> <<>>, stop |-> FALSE]
          ELSE Try(s[i - 1], filter_list[i], flow)
    IN  s

Tagged(flow, tag) ==
    [f \in DOMAIN flow \cup {"tag"} |-> IF f = "tag" THEN tag ELSE flow[f]]

filter_flow(flow) ==
    LET last == Search(flow)[Len(filter_list)].last IN
    IF last = <<>> \/ last[1].action = "accept" THEN <<flow>>
    ELSE IF last[1].action = "discard" THEN <<>>
    ELSE <<Tagged(flow, last[1].tag)>>

-----------------------------------------------------------------------------
(* flowd's store.  A record is a header word, which says which fields       *)
(* follow, and a word per field, in the order of store_flow_serialise; the  *)
(* checksum, the last, is over all the words before it.                     *)
Has(flow, field) == IF field \in DOMAIN flow THEN <<field>> ELSE <<>>

Fields(flow) ==
    Has(flow, "tag") \o Has(flow, "agent") \o Has(flow, "src") \o Has(flow, "dst")

store_flow_serialise(flow) ==
    LET fields == Fields(flow)
        hdr == [len |-> Len(fields) + IF crc THEN 1 ELSE 0, fields |-> fields]
        data == [i \in 1 .. Len(fields) |-> [value |-> flow[fields[i]]]]
        body == <<[hdr |-> hdr]>> \o data
    IN  IF crc THEN Append(body, [crc32 |-> body]) ELSE body

Serialised(flows) ==
    FlattenSeq([i \in 1 .. Len(flows) |-> store_flow_serialise(flows[i])])

(* What a reader takes for the value of a field; any word will do.          *)
ValueOf(word) == IF "value" \in DOMAIN word THEN word.value ELSE word

(* store_flow_deserialise of a header and the words read after it: the flow, *)
(* or nothing when the checksum is wrong.                                   *)
store_flow_deserialise(hdr, words) ==
    LET n == Len(hdr.fields) IN
    IF crc /\ words[n + 1] # [crc32 |-> <<[hdr |-> hdr]>> \o SubSeq(words, 1, n)]
    THEN <<>>
    ELSE <<[f \in ToSet(hdr.fields) |->
                  ValueOf(words[CHOOSE i \in 1 .. n : hdr.fields[i] = f])]>>

(* flowd-reader: it stops at the end of the file, in the middle of a record *)
(* too, and exits at the first record it cannot read.                       *)
Take(s, word) ==
    CASE s.stop -> s
      [] ~s.stop /\ s.hdr = <<>> ->
            IF "hdr" \in DOMAIN word
            THEN [s EXCEPT !.hdr = <<word.hdr>>, !.words = <<>>]
            ELSE [s EXCEPT !.stop = TRUE]
      [] ~s.stop /\ s.hdr # <<>> ->
            LET words == Append(s.words, word)
                flow == store_flow_deserialise(s.hdr[1], words)
            IN  IF Len(words) < s.hdr[1].len
                THEN [s EXCEPT !.words = words]
                ELSE [s EXCEPT !.out = @ \o flow, !.hdr = <<>>,
                               !.stop = flow = <<>>]

Reading(words) ==
    LET s[i \in 0 .. Len(words)] ==
          IF i = 0 THEN [out |-> <<>>, hdr |-> <<>>, words |-> <<>>, stop |-> FALSE]
          ELSE Take(s[i - 1], words[i])
    IN  s

Reader == Reading(log)[Len(log)].out

-----------------------------------------------------------------------------
(* Start flowd: start_log appends to the log, but not to one of version 2.  *)
StartLog ==
    /\ ~up
    /\ log # <<>> => "v2" \notin DOMAIN log[1]
    /\ up' = TRUE
    /\ UNCHANGED <<exporter, net, dups, config, pending, output_queue, log,
                   received, queued, written, crashes, torn>>

(* Sizes of a datagram of n records: as softflowd builds it and as flowd    *)
(* expects it.  softflowd's NF1_FLOW has two fields more than flowd's.      *)
SentSize(v, n) == IF v = 1 THEN 20 + 56 * n ELSE 28 + 56 * n
PACKET_SIZE(v, n) == IF v = 1 THEN 20 + 52 * n ELSE 28 + 56 * n

(* receive_packet and process_packet: the agent is the monitor named in the *)
(* header, or else the sender; versions other than 1 and 5 are dropped, and *)
(* so is a datagram whose number of flows or length is wrong.               *)
Valid(g) ==
    /\ version \in {1, 5}
    /\ Len(g.recs) \in 1 .. MAXFLOWS
    /\ SentSize(version, Len(g.recs)) = PACKET_SIZE(version, Len(g.recs))

Agent(g) == IF g.monitor > 0 THEN g.monitor ELSE Exporter

ReceivePacket ==
    /\ up /\ pending = <<>>
    /\ \E i \in net :
          /\ \/ net' = net \ {i} /\ UNCHANGED dups
             \/ dups < MaxDup /\ dups' = dups + 1 /\ UNCHANGED net
          /\ pending' = IF Valid(sent[i])
                        THEN [k \in 1 .. Len(sent[i].recs) |->
                                 [agent |-> Agent(sent[i]),
                                  src |-> sent[i].recs[k].src,
                                  dst |-> sent[i].recs[k].dst]]
                        ELSE <<>>
    /\ UNCHANGED <<exporter, config, up, output_queue, log, received, queued,
                   written, crashes, torn>>

(* process_flow: what the filter keeps joins the output queue if it fits;   *)
(* if not, the queue is flushed first (OutputFlush).                        *)
Words(flow) == Serialised(filter_flow(flow))

QueueFull ==
    /\ pending # <<>>
    /\ Len(output_queue) + Len(Words(Head(pending))) > QueueWords

ProcessFlow ==
    /\ up /\ pending # <<>> /\ ~QueueFull
    /\ output_queue' = output_queue \o Words(Head(pending))
    /\ queued' = queued \o filter_flow(Head(pending))
    /\ received' = Append(received, Head(pending))
    /\ pending' = Tail(pending)
    /\ UNCHANGED <<exporter, net, dups, config, up, log, written, crashes, torn>>

(* output_flow_flush, in the main loop or when the queue is full.           *)
FlushDue == up /\ output_queue # <<>> /\ (pending = <<>> \/ QueueFull)

OutputFlush ==
    /\ FlushDue
    /\ log' = log \o output_queue
    /\ written' = written \o queued
    /\ output_queue' = <<>> /\ queued' = <<>>
    /\ UNCHANGED <<exporter, net, dups, config, up, pending, received, crashes,
                   torn>>

Down ==
    /\ up' = FALSE /\ pending' = <<>> /\ output_queue' = <<>> /\ queued' = <<>>
    /\ crashes < MaxCrash /\ crashes' = crashes + 1
    /\ UNCHANGED <<exporter, net, dups, config, received>>

(* The words of the first k records of the queue, and how many records are  *)
(* whole in its first n words.                                              *)
Extent(k) == Len(Serialised(SubSeq(queued, 1, k)))
Whole(n) == Max({k \in 0 .. Len(queued) : Extent(k) <= n})

(* A write left its first n words in the log.                               *)
PartlyWritten(n) ==
    /\ log' = log \o SubSeq(output_queue, 1, n)
    /\ written' = written \o SubSeq(queued, 1, Whole(n))
    /\ torn' = (torn \/ n # Extent(Whole(n)))

(* A wrong variant: the file is not truncated.                              *)
RewoundNot(n) ==
    log' = log \o SubSeq(output_queue, 1, n) /\ UNCHANGED <<written, torn>>

(* The log after a write of which only n words went out: store_put_buf      *)
(* truncates the file to where the write began.                             *)
Rewound(n) == UNCHANGED <<log, written, torn>>

(* A write falls short, and flowd exits.  Where the log is a pipe, or the   *)
(* seek or the truncation fails, the words that went out stay: what the     *)
(* code calls a corrupting failure.                                         *)
FlushFails ==
    /\ FlushDue
    /\ \E n \in 0 .. Len(output_queue) - 1 : Rewound(n) \/ PartlyWritten(n)
    /\ Down

(* flowd is killed, after n words of a write.                               *)
Killed ==
    /\ up
    /\ \E n \in 0 .. IF FlushDue THEN Len(output_queue) ELSE 0 : PartlyWritten(n)
    /\ Down

-----------------------------------------------------------------------------
ExportInit ==
    /\ version \in {1, 5, 9} /\ using_emulator \in {0, 1}
    /\ scans = 0 /\ calls = <<>>
    /\ flows_exported = 0 /\ until_template = 0
    /\ sent = <<>> /\ net = {} /\ dups = 0
    /\ filter_list \in RuleLists /\ crc \in BOOLEAN
    /\ up = FALSE /\ pending = <<>> /\ output_queue = <<>>
    /\ log \in {<<>>, <<[v2 |-> "header"]>>}
    /\ received = <<>> /\ queued = <<>> /\ written = <<>>
    /\ crashes = 0 /\ torn = FALSE

ExportNext ==
    \/ CheckExpired \/ SendNetflow
    \/ StartLog \/ ReceivePacket \/ ProcessFlow \/ OutputFlush
    \/ FlushFails \/ Killed

ExportSpec == ExportInit /\ [][ExportNext]_exportVars

-----------------------------------------------------------------------------
(* The records of a call, flow by flow.                                     *)
Due(c) == FlattenSeq([i \in 1 .. Len(c.flows) |-> Records(c.flows[i], c)])

(* The senders put every record of a call into exactly one datagram, in     *)
(* order, never an empty datagram nor one beyond the limit of its version,  *)
(* under the header of the records' own monitor; and the sequence number of *)
(* a version 5 datagram is the number of records sent before it, whatever   *)
(* sends have failed, so that a collector can count what was lost.          *)
ExportExact ==
    /\ \A i \in 1 .. Len(calls) :
          LET c == calls[i]
              g == Datagrams(c)
          IN  /\ FlattenSeq([k \in 1 .. Len(g) |-> g[k].recs]) = Due(c)
              /\ \A k \in 1 .. Len(g) :
                    /\ g[k].recs # <<>>
                    /\ IF version = 9 THEN g[k].bytes <= NF9_PACKET
                       ELSE Len(g[k].recs) <= MAXFLOWS /\ g[k].monitor = c.monitor
    /\ version = 5 =>
          \A i \in 1 .. Len(sent) :
              sent[i].seq = RecordsIn(SubSeq(sent, 1, i - 1))

(* The filter's meaning, without a search: of the rules whose nets hold the *)
(* flow's addresses, the first quick one decides, or else the last.  A net  *)
(* with host bits holds none; the grammar refuses it unless it is written   *)
(* as one quoted word.                                                      *)
Ruled(flow) ==
    LET Holds(what, r) ==
            LET low == r.match[what][1]
                span == Span[Bits - r.match[what][2]]
            IN  low % span = 0 /\ flow[what] \in low .. low + span - 1
        hits == {i \in 1 .. Len(filter_list) :
                    \A what \in DOMAIN filter_list[i].match :
                        IF what \in filter_list[i].negate
                        THEN ~Holds(what, filter_list[i])
                        ELSE Holds(what, filter_list[i])}
        quick == {i \in hits : filter_list[i].quick}
        rule == filter_list[IF quick # {} THEN Min(quick) ELSE Max(hits)]
    IN  IF hits = {} \/ rule.action = "accept" THEN <<flow>>
        ELSE IF rule.action = "discard" THEN <<>>
        ELSE <<Tagged(flow, rule.tag)>>

(* While flowd has not failed, what flowd-reader gets from the log followed *)
(* by the output queue is what flowd decoded, filtered as the rules mean,   *)
(* whatever was lost, repeated, reordered or flushed early on the way.      *)
StoredAsRuled ==
    crashes = 0 =>
        Reader \o queued =
            FlattenSeq([i \in 1 .. Len(received) |-> Ruled(received[i])])

(* A write that failed and was undone leaves no trace in the log, across    *)
(* restarts; and the words left by a write that could not be undone, or     *)
(* that flowd was killed in, never make flowd-reader report a record that   *)
(* flowd did not write, provided that the log has checksums.                *)
LogReadable ==
    /\ ~torn => Reader = written
    /\ crc => IsPrefix(Reader, written)

=============================================================================
