------------------------------- MODULE MCText -------------------------------
(***************************************************************************)
(* The two texts that become data: the reports that NSP prints and         *)
(* softflowd reads (Wire) and the configuration that flowd reads (Config), *)
(* with the two processes of flowd that read it again and pass it on       *)
(* (Privsep), of which a configuration is only the listeners and logs.     *)
(* They share nothing, so a property of one needs no step of another: part *)
(* says whose steps a behaviour takes.                                     *)
(***************************************************************************)
EXTENDS Wire, Config, Privsep

\* Two hosts, 1 and 2, on either side of two monitors.  The frames: a TCP
\* connection in both directions, a first and a later fragment of it, one cut
\* short, one whose flags are the byte of '#', one from a host to itself, and
\* one each of UDP, ICMP, another protocol, IPv6 and an Ethernet header alone.
MCAsOf == [a \in 1..2 |-> 10 + a]
MCPath == <<21, 22>>

SYN    == <<0, 0, 0, 0, 0, 0, 1, 0>>
SYNACK == <<0, 0, 0, 1, 0, 0, 1, 0>>

Base == [dlt |-> "EN10MB", caplen |-> 60, type |-> 2048, v |-> 4, hl |-> 20,
         src |-> 1, dst |-> 2, len |-> 46, p |-> TCP, off |-> 0, mf |-> FALSE,
         sport |-> 1025, dport |-> 80, flags |-> SYN]
Reply == [Base EXCEPT !.src = 2, !.dst = 1, !.sport = 80, !.dport = 1025, !.flags = SYNACK]

MCFrames ==
    {Base, Reply,
     [Base EXCEPT !.mf = TRUE, !.flags = NUL],
     [Base EXCEPT !.off = 185, !.flags = SYNACK],
     [Base EXCEPT !.caplen = 48],
     [Base EXCEPT !.flags = SEP],
     [Base EXCEPT !.dst = 1],
     [Reply EXCEPT !.p = UDP],
     [Base EXCEPT !.p = ICMP],
     [Base EXCEPT !.p = 47],
     [Base EXCEPT !.type = 34525],
     [Base EXCEPT !.caplen = 14]}

-----------------------------------------------------------------------------
\* Lines of flowd.conf, right ones and wrong ones; addresses have three bits
\* in IPv4 and two in IPv6, and -D defines the macro host.
W(words) == [i \in DOMAIN words |-> [t |-> words[i]]]
Num(n) == <<[t |-> "num", n |-> n]>>
Name(s) == <<[t |-> "name", s |-> s]>>
A4(a) == <<[t |-> "addr", af |-> "inet", a |-> a]>>
A6(a) == <<[t |-> "addr", af |-> "inet6", a |-> a]>>
Net4(a, len) == A4(a) \o W(<<"/">>) \o Num(len)
Quote(text) == <<[t |-> "quote", text |-> text]>>
Macro(s) == <<[t |-> "$", s |-> s]>>
At(sec) == <<[t |-> "time", sec |-> sec]>>
On(sec) == <<[t |-> "date", sec |-> sec]>>
Listen(port) == W(<<"listen", "on">>) \o <<[t |-> "addrport", af |-> "inet", a |-> 0, port |-> port]>>

MCWidth == [inet |-> 3, inet6 |-> 2]
MCCmdLine == [host |-> A4(5)]

Right ==
    {Listen(12345),
     Listen(1) \o W(<<"bufsize">>) \o Num(65536),
     W(<<"logfile">>) \o Quote(Name("log")),
     W(<<"logsock">>) \o Quote(Name("sock")) \o Name("et") \o W(<<"bufsize">>) \o Num(4),
     W(<<"pidfile">>) \o Quote(Name("pid")),
     W(<<"flow", "source">>) \o Net4(4, 1),
     W(<<"join", "group">>) \o A6(3),
     W(<<"store">>) \o Name("SRC_ADDR"),
     Name("net") \o W(<<"=">>) \o Quote(Net4(4, 1)),
     Name("host") \o W(<<"=">>) \o Quote(A4(1)),
     W(<<"discard", "all">>),
     W(<<"discard", "quick", "agent", "!">>) \o Macro("host"),
     W(<<"accept", "tag">>) \o Num(1) \o W(<<"src">>) \o Macro("net") \o W(<<"dst", "!">>) \o Macro("net"),
     W(<<"accept", "dst">>) \o Quote(Net4(6, 2)),
     W(<<"accept", "tag">>) \o Num(2) \o W(<<"dst", "any", "port", "!">>) \o Num(80) \o W(<<"proto">>) \o Name("tcp"),
     W(<<"discard", "src", "!">>) \o A4(1) \o W(<<"dst", "any", "port">>) \o Num(80) \o W(<<"proto">>) \o Num(6),
     W(<<"discard", "proto">>) \o Name("tcp") \o W(<<"tcp_flags", "mask">>) \o Num(18) \o W(<<"!", "equals">>) \o Num(18),
     W(<<"accept", "days">>) \o Name("fri") \o W(<<"-">>) \o Name("mon") \o W(<<"after">>) \o At(8) \o W(<<"before">>) \o At(17),
     W(<<"discard", "after", "date">>) \o On(5) \o W(<<"before", "date">>) \o On(7),
     W(<<"discard", "in_ifndx", "!">>) \o Num(10) \o W(<<"!", "inet6">>)}

MCWrong ==
    {Listen(0),
     W(<<"flow", "source">>) \o Net4(5, 1),
     W(<<"accept", "src">>) \o Net4(5, 1),
     W(<<"discard", "tag">>) \o Num(1) \o W(<<"all">>),
     W(<<"accept", "dst", "any", "port">>) \o Num(80),
     W(<<"accept", "inet", "src">>) \o A6(1),
     W(<<"accept", "proto">>) \o Name("tcp") \o W(<<"agent">>) \o A4(1),
     W(<<"discard", "after">>) \o At(17) \o W(<<"before">>) \o At(8)}

\* Lines after examples of flowd.conf(5) that parse.y refuses
MCRefused ==
    {W(<<"discard", "days">>) \o Name("sat") \o W(<<",">>) \o Name("sun"),
     W(<<"accept", "after">>) \o At(8),
     W(<<"accept", "src">>) \o Net4(4, 1) \o W(<<"dst", "any">>)}

MCLines == Right \cup MCWrong \cup MCRefused

Flow(agent, src, dst, proto, dport, bits, wday, sec, recv) ==
    [agent |-> [af |-> "inet", a |-> agent], src |-> [af |-> "inet", a |-> src],
     dst |-> [af |-> "inet", a |-> dst], proto |-> proto, sport |-> 1024, dport |-> dport,
     tcp_flags |-> bits, tos |-> 0, in_ifndx |-> 10 + (agent % 2), out_ifndx |-> 1,
     wday |-> wday, sec |-> sec, recv |-> recv]

MCFlows ==
    {Flow(5, 4, 7, 6, 80, 18, 5, 12, 6), Flow(5, 4, 1, 6, 80, 2, 0, 17, 7),
     Flow(1, 1, 6, 6, 443, 27, 2, 9, 5), Flow(4, 6, 0, 17, 80, 0, 1, 18, 9),
     [Flow(5, 1, 1, 17, 53, 0, 6, 7, 6) EXCEPT !.src = [af |-> "inet6", a |-> 1],
                                              !.dst = [af |-> "inet6", a |-> 2]]}

-----------------------------------------------------------------------------
File(addrs, groups, log, sock) ==
    [listen_addrs |-> addrs, join_groups |-> groups, errors |-> 0,
     log_file |-> log, log_socket |-> sock]

\* Two configurations that share an address and have a log of their own each,
\* one with another address and another socket, and one without logs.
MCFiles ==
    {File({1}, {"g"}, "a", NoLog), File({1, 2}, {}, "b", "s"),
     File({2}, {"h"}, NoLog, "t"), File({1}, {}, NoLog, NoLog)}

-----------------------------------------------------------------------------
VARIABLE part

\* While one part runs, one initial state of the others is as good as any
TextInit ==
    /\ WireInit /\ ConfigInit /\ Init
    /\ part \in {"reports", "configuration", "processes"}
    /\ part # "processes" => file = CHOOSE f \in Files : Accepts(f)
    /\ part # "configuration" => ~filter_only

Running(action) ==
    part = "processes" /\ action /\ UNCHANGED <<part, wireVars, configVars>>

TextNext ==
    \/ part = "reports" /\ WireNext /\ UNCHANGED <<part, configVars, vars>>
    \/ part = "configuration" /\ ConfigNext /\ UNCHANGED <<part, wireVars, vars>>
    \/ Running(Next)

textVars == <<part, wireVars, configVars, vars>>

\* With the fairness of Privsep
TextSpec ==
    /\ TextInit /\ [][TextNext]_textVars
    /\ WF_textVars(Running(Child)) /\ WF_textVars(Running(Monitor))
=============================================================================
