------------------------------- MODULE Config -------------------------------
(***************************************************************************)
(* flowd.conf: what parse.y makes of its lines, for flowd (privsep.c) and  *)
(* for the filter of flowd-reader (filter_only), and what filter.c and     *)
(* addr.c then decide about a flow.                                        *)
(*                                                                         *)
(* A line is a sequence of tokens, records whose t is the keyword, the     *)
(* punctuation or the kind of string: num (n, below 2^31), addr (af, a),   *)
(* addrport (af, a, port), name (s), time and date (sec; -1 for one that   *)
(* no clock shows), quote (text, the tokens its text would be read as) and *)
(* $ (s, a macro).  Addresses have Width[af] bits.  Comments, blank lines, *)
(* line numbers and messages are left out, and so is what a line that is   *)
(* refused sets: the configuration is then thrown away.                    *)
(***************************************************************************)
EXTENDS Integers, Sequences, FiniteSets, SequencesExt, FiniteSetsExt, Bitwise, TLC

CONSTANTS Lines,      \* the lines a file may have
          Wrong,      \* those flowd.conf(5) does not allow
          Refused,    \* those it allows and parse.y does not
          Flows,      \* the flows to decide about
          CmdLine,    \* macros of the command line, -D
          Width,      \* bits of an address of each family
          MaxLines    \* bound: lines of a file

ASSUME ConfigAssumption == Wrong \cup Refused \subseteq Lines /\ MaxLines \in Nat

VARIABLES filter_only,  \* is it flowd-reader that reads the file
          read,         \* the lines read so far
          conf,         \* the configuration
          symhead,      \* macros: their text, and whether they persist
          errors,
          eaten,        \* the next line belongs to the error of the last one
          ret           \* what parse_config returns

configVars == <<filter_only, read, conf, symhead, errors, eaten, ret>>

Parsing == 1

cmdline_symset == [s \in DOMAIN CmdLine |-> [text |-> CmdLine[s], persist |-> TRUE]]

ConfigInit ==
    /\ filter_only \in BOOLEAN
    /\ read = <<>> /\ errors = FALSE /\ eaten = FALSE /\ ret = Parsing
    /\ conf = [listen |-> <<>>, source |-> <<>>, group |-> <<>>, log_file |-> FALSE,
               log_socket |-> FALSE, pid_file |-> FALSE, store |-> {}, filter |-> <<>>]
    /\ symhead = cmdline_symset

-----------------------------------------------------------------------------
(***************************************************************************)
(* The lexer.  A macro is replaced by its text, in which no other macro is *)
(* known; one that is not defined ends the line, and the rest of the error *)
(* is the next line.                                                       *)
(***************************************************************************)
Tok(r, i) == IF i <= Len(r) THEN r[i] ELSE [t |-> "\n"]
Drop(r, n) == SubSeq(r, n + 1, Len(r))

symget(s) == symhead[s].text

yylex(line) ==
    FlattenSeq([i \in DOMAIN line |-> IF line[i].t = "$" THEN symget(line[i].s) ELSE <<line[i]>>])

Undefined(line) == \E i \in DOMAIN line : line[i].t = "$" /\ line[i].s \notin DOMAIN symhead

IsString(tok) == tok.t \in {"num", "addr", "addrport", "name", "time", "date", "quote"}
Text(tok) == IF tok.t = "quote" THEN tok.text ELSE <<tok>>
Reads(tok, kind) == IsString(tok) /\ Len(Text(tok)) = 1 /\ Text(tok)[1].t = kind
Value(tok) == Text(tok)[1]

atoul(tok) == Value(tok).n
IsNumber(tok, lo, hi) == Reads(tok, "num") /\ atoul(tok) \in lo..hi

-----------------------------------------------------------------------------
(* addr.c *)
addr_unicast_masklen(af) == Width[af]
masklen_valid(af, len) == len \in 0..Width[af]

addr_netmask(af, len) == 2^Width[af] - 2^(Width[af] - len)
addr_and(x, mask) == [x EXCEPT !.a = @ & mask]
addr_cmp(x, y) == x.af = y.af /\ x.a = y.a

addr_host_is_all0s(x, len) == x.a % 2^(Width[x.af] - len) = 0

NoAddr == [af |-> "none", a |-> 0]     \* what any stands for

addr_netmatch(host, net, len) ==
    /\ host.af = net.af
    /\ host.af \in DOMAIN Width
    /\ addr_cmp(addr_and(host, addr_netmask(host.af, len)), net)

addr_pton(tok) == tok.t = "addr"

\* An address, with the length of its network or its own
addr_pton_cidr(text) ==
    /\ Len(text) \in {1, 3}
    /\ addr_pton(text[1])
    /\ Len(text) = 3 => /\ text[2].t = "/"
                        /\ text[3].t = "num"
                        /\ masklen_valid(text[1].af, text[3].n)

Cidr(text) ==
    [net |-> [af |-> text[1].af, a |-> text[1].a],
     len |-> IF Len(text) = 3 THEN text[3].n ELSE addr_unicast_masklen(text[1].af)]

-----------------------------------------------------------------------------
(***************************************************************************)
(* The clauses of a rule.  A parser of a clause takes what has been read   *)
(* so far: the tokens left, whether all was well, and the match so far.    *)
(***************************************************************************)
Nots(p) == IF Tok(p.rest, 2).t = "!" THEN 1 ELSE 0
Arg(p, i) == Tok(p.rest, 1 + Nots(p) + i)
Negated(p, what) == IF Nots(p) = 1 THEN {what} ELSE {}

Clause(p, ok, n, what, neg, v) ==
    [rest |-> Drop(p.rest, n), ok |-> ok, what |-> p.what \cup what,
     neg |-> p.neg \cup neg, v |-> IF ok THEN v @@ p.v ELSE p.v]

\* n words that are, if ok, the address and perhaps the length in text
Network(n, ok, text) ==
    [n |-> n, ok |-> ok] @@ (IF ok THEN Cidr(text) ELSE [net |-> NoAddr, len |-> 0])

\* prefix: an address and '/' number, whose host bits must be 0, or a string
prefix(r) ==
    IF Tok(r, 2).t = "/"
    THEN LET text == Text(r[1]) \o <<r[2], IF Reads(Tok(r, 3), "num") THEN Value(r[3]) ELSE Tok(r, 3)>>
         IN  Network(3, /\ IsString(r[1]) /\ addr_pton_cidr(text)
                        /\ addr_host_is_all0s(Cidr(text).net, Cidr(text).len), text)
    ELSE Network(1, IsString(Tok(r, 1)) /\ addr_pton_cidr(Text(r[1])), Text(Tok(r, 1)))

prefix_or_any(r) ==
    IF Tok(r, 1).t = "any" THEN [n |-> 1, ok |-> TRUE, net |-> NoAddr, len |-> 0]
    ELSE prefix(r)

match_agent(p) ==
    LET x == prefix_or_any(Drop(p.rest, 1 + Nots(p))) IN
    Clause(p, x.ok /\ Arg(p, 1).t # "any", 1 + Nots(p) + x.n, {"agent"}, Negated(p, "agent"),
           "agent" :> x)

\* in_ifndx, out_ifndx, tos
match_number(p, what, lo, hi) ==
    LET ok == IsNumber(Arg(p, 1), lo, hi) IN
    Clause(p, ok, 2 + Nots(p), {what}, Negated(p, what), IF ok THEN what :> atoul(Arg(p, 1)) ELSE <<>>)

match_af(p) ==
    LET n == IF Tok(p.rest, 1).t = "!" THEN 1 ELSE 0 IN
    Clause(p, TRUE, 1 + n, {"af"}, IF n = 1 THEN {"af"} ELSE {}, "af" :> p.rest[1 + n].t)

\* src and dst: any with a port does not look at the address
match_addr(p, what, port) ==
    LET x    == prefix_or_any(Drop(p.rest, 1 + Nots(p)))
        r    == [rest |-> Drop(p.rest, 1 + Nots(p) + x.n)]     \* port, or not
        good == x.ok /\ IsNumber(Arg(r, 1), 1, 65535)
    IN  IF Tok(r.rest, 1).t # "port"
        THEN Clause(p, x.ok, 1 + Nots(p) + x.n, {what}, Negated(p, what), what :> x)
        ELSE Clause(p, good, 3 + Nots(p) + x.n + Nots(r),
                    {port} \cup (IF x.net.af = "none" THEN {} ELSE {what}),
                    Negated(p, what) \cup Negated(r, port),
                    IF good THEN (what :> x) @@ (port :> atoul(Arg(r, 1))) ELSE <<>>)

Protocols == [icmp |-> 1, tcp |-> 6, udp |-> 17]

match_proto(p) ==
    LET x == Arg(p, 1)
        named == Reads(x, "name") /\ Value(x).s \in DOMAIN Protocols
        ok == named \/ IsNumber(x, 1, 255)
    IN  Clause(p, ok, 2 + Nots(p), {"proto"}, Negated(p, "proto"),
               "proto" :> IF named THEN Protocols[Value(x).s] ELSE IF ok THEN atoul(x) ELSE 0)

\* tcp_flags [mask octet] not EQUALS octet
match_tcp_flags(p) ==
    LET masked == Tok(p.rest, 2).t = "mask"
        q  == [rest |-> IF masked THEN Drop(p.rest, 2) ELSE p.rest]
        ok == /\ masked => IsNumber(Tok(p.rest, 3), 0, 255)
              /\ Arg(q, 1).t = "equals" /\ IsNumber(Arg(q, 2), 0, 255)
    IN  Clause(p, ok, (IF masked THEN 2 ELSE 0) + Nots(q) + 3, {"tcp_flags"}, Negated(q, "tcp_flags"),
               IF ok THEN "tcp_flags" :> [mask |-> IF masked THEN atoul(p.rest[3]) ELSE 255,
                                          equals |-> atoul(Arg(q, 2))] ELSE <<>>)

days == <<"sun", "mon", "tue", "wed", "thu", "fri", "sat">>
IsDay(tok) == Reads(tok, "name") /\ Value(tok).s \in Range(days)
dayname(tok) == (CHOOSE i \in 1..7 : days[i] = Value(tok).s) - 1

\* A wrong variant: the range does not wrap around the week
dayrange_Straight(start, finish) == start..finish

dayrange(start, finish) ==
    {i % 7 : i \in start..(IF finish < start THEN finish + 7 ELSE finish)}

\* A range of two days, or a day and those after its commas; n words
dayspec(r) ==
    LET day(i) == Tok(r, 2 * i - 1)
        commas == {k \in 0..Len(r) : \A j \in 1..k : Tok(r, 2 * j).t = ","}
        range  == Tok(r, 2).t = "-"
        last   == IF range THEN 2 ELSE Max(commas) + 1
        ok     == \A i \in 1..last : IsDay(day(i))
    IN  [n |-> 2 * last - 1, ok |-> ok,
         days |-> IF ~ok THEN {}
                  ELSE IF range THEN dayrange(dayname(day(1)), dayname(day(2)))
                  ELSE {dayname(day(i)) : i \in 1..last}]

match_day(p) ==
    LET x == dayspec(Drop(p.rest, 1)) IN
    Clause(p, x.ok, 1 + x.n, {"daytime"}, {}, "days" :> x.days)

daytime(tok) == Reads(tok, "time") /\ Value(tok).sec >= 0
parse_abstime(tok) == Reads(tok, "date")
abstime(tok) == parse_abstime(tok) /\ Value(tok).sec # -1

\* after and before, of a time of day or of a date
match_time(p, time, date) ==
    LET dated == Tok(p.rest, 2).t = "date"
        x     == Tok(p.rest, IF dated THEN 3 ELSE 2)
        ok    == IF dated THEN abstime(x) ELSE daytime(x)
    IN  Clause(p, ok, IF dated THEN 3 ELSE 2, {IF dated THEN "abstime" ELSE "daytime"}, {},
               IF ok THEN (IF dated THEN date ELSE time) :> Value(x).sec ELSE <<>>)

\* The clauses in their order; one that is not there is skipped
CLAUSES == <<"agent", "in_ifndx", "out_ifndx", "af", "src", "dst", "proto", "tos",
             "tcp_flags", "days", "after", "before">>

Starts(p, c) ==
    IF c = "af" THEN {Tok(p.rest, 1).t, IF Tok(p.rest, 1).t = "!" THEN Tok(p.rest, 2).t ELSE ""}
                        \cap {"inet", "inet6"} # {}
    ELSE Tok(p.rest, 1).t = c

ParseClause(p, c) ==
    IF ~p.ok \/ ~Starts(p, c) THEN p
    ELSE CASE c = "agent"                   -> match_agent(p)
           [] c \in {"in_ifndx", "out_ifndx"} -> match_number(p, c, 1, 65535)
           [] c = "af"                      -> match_af(p)
           [] c = "src"                     -> match_addr(p, "src", "sport")
           [] c = "dst"                     -> match_addr(p, "dst", "dport")
           [] c = "proto"                   -> match_proto(p)
           [] c = "tos"                     -> match_number(p, c, 0, 255)
           [] c = "tcp_flags"               -> match_tcp_flags(p)
           [] c = "days"                    -> match_day(p)
           [] c = "after"                   -> match_time(p, "dayafter", "absafter")
           [] c = "before"                  -> match_time(p, "daybefore", "absbefore")

\* The rule on line r, or none: its action, and p, what its clauses gave
Rule(r, tagged, quick, p) ==
    IF p.ok /\ p.rest = <<>> /\ (tagged => Reads(Tok(r, 3), "num") /\ r[1].t = "accept")
    THEN {[action |-> IF tagged THEN "tag" ELSE r[1].t, tag |-> IF tagged THEN atoul(r[3]) ELSE 0,
           quick |-> quick, what |-> p.what, neg |-> p.neg, v |-> p.v]}
    ELSE {}

ParseRule(r) ==
    LET tagged == Tok(r, 2).t = "tag"
        q == IF tagged THEN 3 ELSE 1
        quick == Tok(r, q + 1).t = "quick"
        from == IF quick THEN q + 1 ELSE q
        all  == Tok(r, from + 1).t = "all"
    IN  Rule(r, tagged, quick,
             FoldLeft(ParseClause,
                      [rest |-> Drop(r, IF all THEN from + 1 ELSE from), ok |-> TRUE,
                       what |-> {}, neg |-> {}, v |-> <<>>],
                      IF all THEN <<>> ELSE CLAUSES))

Get(m, k, none) == IF k \in DOMAIN m.v THEN m.v[k] ELSE none

\* The tests of filterrule.  A time of day that is not there is -1, not 0
Consistent(m) ==
    LET dayafter  == Get(m, "dayafter", -1)
        daybefore == Get(m, "daybefore", -1)
        proto     == Get(m, "proto", 0)
        afs       == {m.v[w].net.af : w \in {"src", "dst"} \cap m.what}
    IN  /\ "daytime" \in m.what => dayafter = 0 \/ daybefore = 0 \/ dayafter < daybefore
        /\ {"absafter", "absbefore"} \subseteq DOMAIN m.v =>
              m.v["absafter"] = 0 \/ m.v["absbefore"] = 0 \/ m.v["absafter"] < m.v["absbefore"]
        /\ {"sport", "dport"} \cap m.what # {} => proto \in {6, 17}
        /\ Cardinality(afs) <= 1
        /\ "af" \in m.what => afs \subseteq {m.v["af"]}
        /\ "tcp_flags" \in m.what => proto = 6

filterrule(r) == {m \in ParseRule(r) : Consistent(m)}

-----------------------------------------------------------------------------
(* The other lines. *)
STORE_FIELDS ==
    LET fields == [TAG |-> {"tag"}, RECV_TIME |-> {"recv_time"}, SRC_ADDR4 |-> {"src4"},
                   SRC_ADDR |-> {"src4", "src6"}, DST_ADDR |-> {"dst4", "dst6"},
                   SRCDST_ADDR |-> {"src4", "src6", "dst4", "dst6"},
                   PACKETS |-> {"packets"}, OCTETS |-> {"octets"}, CRC32 |-> {"crc32"}]
    IN  fields @@ [ALL |-> UNION Range(fields)]

address(tok) == Reads(tok, "addr")
address_port(tok) == Reads(tok, "addrport") /\ Value(tok).port \in 1..65535

\* What conf becomes after a line of conf_main, none if it is not one
conf_main(r) ==
    LET Words(s) == Len(r) >= Len(s) /\ \A i \in DOMAIN s : r[i].t = s[i]
        Bufsize(i) == \/ Len(r) = i - 1
                      \/ Len(r) = i + 1 /\ r[i].t = "bufsize" /\ Reads(r[i + 1], "num")
        Buffer(i) == IF Len(r) > i THEN atoul(r[i + 1]) ELSE 0
        StringsTo(i, n) == n >= i /\ \A j \in i..n : IsString(r[j])
        Strings(i) == StringsTo(i, Len(r))
        source == prefix_or_any(Drop(r, 2))
    IN  CASE Words(<<"listen", "on">>) /\ address_port(Tok(r, 3)) /\ Bufsize(4) ->
               {[conf EXCEPT !.listen = Append(@, [at |-> Value(r[3]), bufsiz |-> Buffer(4)])]}
          [] Words(<<"flow", "source">>) /\ source.ok /\ Len(r) = 2 + source.n ->
               {[conf EXCEPT !.source = Append(@, [net |-> source.net, len |-> source.len])]}
          [] Words(<<"join", "group">>) /\ Len(r) = 3 /\ address(Tok(r, 3)) ->
               {[conf EXCEPT !.group = Append(@, Value(r[3]))]}
          [] Words(<<"logfile">>) /\ Strings(2) -> {[conf EXCEPT !.log_file = TRUE]}
          [] Words(<<"logsock">>)
                /\ (Strings(2) \/ (StringsTo(2, Len(r) - 2) /\ Bufsize(Len(r) - 1))) ->
               {[conf EXCEPT !.log_socket = TRUE]}
          [] Words(<<"pidfile">>) /\ Strings(2) -> {[conf EXCEPT !.pid_file = TRUE]}
          [] Words(<<"store">>) /\ Len(r) = 2 /\ Reads(Tok(r, 2), "name")
                /\ Value(r[2]).s \in DOMAIN STORE_FIELDS ->
               {[conf EXCEPT !.store = @ \cup STORE_FIELDS[Value(r[2]).s]]}
          [] Words(<<"accept">>) \/ Words(<<"discard">>) ->
               {[conf EXCEPT !.filter = Append(@, rule)] : rule \in filterrule(r)}
          [] OTHER -> {}

\* STRING '=' string
varset(r) ==
    /\ Len(r) >= 3
    /\ Reads(r[1], "name") /\ r[2].t = "="
    /\ \A i \in 3..Len(r) : IsString(r[i])

\* A macro of the command line stays what it is
symset(r) ==
    LET name == Value(r[1]).s
        text == FlattenSeq([i \in 1..Len(r) - 2 |-> Text(r[i + 2])])
    IN  IF name \in DOMAIN symhead /\ symhead[name].persist THEN symhead
        ELSE (name :> [text |-> text, persist |-> FALSE]) @@ symhead

\* One line of grammar
ParseLine(line) ==
    /\ ret = Parsing /\ Len(read) < MaxLines
    /\ read' = Append(read, line)
    /\ eaten' = Undefined(line)
    /\ IF eaten \/ Undefined(line)
       THEN errors' = TRUE /\ UNCHANGED <<conf, symhead>>
       ELSE \E r \in {yylex(line)} :
              \/ varset(r) /\ symhead' = symset(r) /\ UNCHANGED <<conf, errors>>
              \/ /\ ~varset(r)
                 /\ \E next \in {conf_main(r)} :
                      \/ conf' \in next /\ UNCHANGED <<symhead, errors>>
                      \/ next = {} /\ errors' = TRUE /\ UNCHANGED <<conf, symhead>>
    /\ UNCHANGED <<filter_only, ret>>

\* The end of parse_config
parse_config ==
    LET no_log  == ~filter_only /\ ~conf.log_file /\ ~conf.log_socket
        missing == no_log \/ (~filter_only /\ conf.listen = <<>>)
    IN
    /\ ret = Parsing
    /\ ret' = IF missing \/ errors THEN -1 ELSE 0
    /\ conf' = [conf EXCEPT !.pid_file = @ \/ (~filter_only /\ ~no_log)]
    /\ symhead' = IF missing THEN symhead
                  ELSE [s \in {x \in DOMAIN symhead : symhead[x].persist} |-> symhead[s]]
    /\ UNCHANGED <<filter_only, read, errors, eaten>>

ConfigNext == (\E line \in Lines : ParseLine(line)) \/ parse_config

ConfigSpec == ConfigInit /\ [][ConfigNext]_configVars

-----------------------------------------------------------------------------
(* filter.c *)
flow_daytime_match(f, m) ==
    /\ "days" \in DOMAIN m.v => f.wday \in m.v["days"]
    /\ Get(m, "daybefore", -1) # -1 => f.sec <= m.v["daybefore"]
    /\ Get(m, "dayafter", -1) # -1 => f.sec >= m.v["dayafter"]

FieldMatch(m, w, f) ==
    CASE w \in {"agent", "src", "dst"} -> addr_netmatch(f[w], m.v[w].net, m.v[w].len)
      [] w \in {"in_ifndx", "out_ifndx", "sport", "dport", "proto", "tos"} -> f[w] = m.v[w]
      [] w = "af" -> m.v["af"] \in {f.src.af, f.dst.af}
      [] w = "tcp_flags" -> (f.tcp_flags & m.v[w].mask) = m.v[w].equals
      [] w = "daytime" -> flow_daytime_match(f, m)
      [] w = "abstime" -> /\ Get(m, "absbefore", 0) > 0 => f.recv < m.v["absbefore"]
                          /\ Get(m, "absafter", 0) > 0 => f.recv > m.v["absafter"]

flow_match(m, f) == \A w \in m.what : FieldMatch(m, w, f) # (w \in m.neg)

\* The action of the last rule that matches, or of the first one that is quick
filter_flow(rules, f) ==
    LET hits  == {i \in DOMAIN rules : flow_match(rules[i], f)}
        quick == {i \in hits : rules[i].quick}
    IN  IF hits = {} THEN <<"accept", 0>>
        ELSE LET rule == rules[IF quick = {} THEN Max(hits) ELSE Min(quick)] IN <<rule.action, rule.tag>>

-----------------------------------------------------------------------------
(***************************************************************************)
(* What the lines say, by position of their words and without a grammar.   *)
(***************************************************************************)
Definitions(s, i) ==
    {j \in 1..i - 1 : Len(read[j]) >= 3 /\ Reads(read[j][1], "name")
                      /\ Value(read[j][1]).s = s /\ read[j][2].t = "="}

Defined(i) ==
    \A k \in DOMAIN read[i] : read[i][k].t = "$" =>
        read[i][k].s \in DOMAIN CmdLine \/ Definitions(read[i][k].s, i) # {}

Flat(line) == FlattenSeq([k \in DOMAIN line |-> Text(line[k])])

\* Line i with its macros and without its quotes
Full(i) ==
    Flat(FlattenSeq([k \in DOMAIN read[i] |->
        LET tok == read[i][k] IN
        IF tok.t # "$" THEN <<tok>>
        ELSE IF tok.s \in DOMAIN CmdLine THEN CmdLine[tok.s]
        ELSE Drop(Flat(read[Max(Definitions(tok.s, i))]), 2)]))

Denied(r, i) == Tok(r, i + 1).t = "!"
ArgAt(r, i) == IF Denied(r, i) THEN i + 2 ELSE i + 1

In(x, r, j) ==
    LET len == IF Tok(r, j + 1).t = "/" THEN r[j + 2].n ELSE Width[r[j].af]
        size == 2^(Width[r[j].af] - len)
    IN  x.af = r[j].af /\ x.a \div size = r[j].a \div size

DaySays(r, i, d) ==
    LET first == dayname(r[i + 1]) IN
    IF Tok(r, i + 2).t = "-"
    THEN LET last == dayname(r[i + 3]) IN
         IF first <= last THEN first <= d /\ d <= last ELSE first <= d \/ d <= last
    ELSE \E k \in i + 1..Len(r) : IsDay(r[k]) /\ dayname(r[k]) = d

\* What the word at i of rule r says of flow f
Says(r, i, f) ==
    LET word == r[i].t  j == ArgAt(r, i) IN
    CASE word \in {"agent", "src", "dst"} -> r[j].t = "any" \/ In(f[word], r, j) # Denied(r, i)
      [] word = "port" ->
           LET of == r[Max({k \in 1..i : r[k].t \in {"src", "dst"}})].t
           IN  (f[IF of = "src" THEN "sport" ELSE "dport"] = r[j].n) # Denied(r, i)
      [] word \in {"in_ifndx", "out_ifndx", "tos"} -> (f[word] = r[j].n) # Denied(r, i)
      [] word \in {"inet", "inet6"} -> (word \in {f.src.af, f.dst.af}) # (r[i - 1].t = "!")
      [] word = "proto" ->
           (f.proto = IF r[j].t = "num" THEN r[j].n ELSE Protocols[r[j].s]) # Denied(r, i)
      [] word = "equals" ->
           LET mask == {k \in 1..i : r[k].t = "mask"} IN
           ((f.tcp_flags & (IF mask = {} THEN 255 ELSE r[Max(mask) + 1].n)) = r[i + 1].n)
              # (r[i - 1].t = "!")
      [] word = "days" -> DaySays(r, i, f.wday)
      [] word = "after" -> IF r[j].t = "date" THEN f.recv > r[j + 1].sec ELSE f.sec > r[j].sec
      [] word = "before" -> IF r[j].t = "date" THEN f.recv < r[j + 1].sec ELSE f.sec < r[j].sec
      [] OTHER -> TRUE

Has(r, words) == \E i \in DOMAIN r : r[i].t \in words

\* any is an address of its own where no port follows it
BareAny(r) == \E i \in DOMAIN r : r[i].t = "any" /\ Tok(r, i + 1).t # "port"

Verdict(f) ==
    LET rules == {i \in DOMAIN read : Has(read[i], {"accept", "discard"})}
        hits  == {i \in rules : \A k \in DOMAIN Full(i) : Says(Full(i), k, f)}
        quick == {i \in hits : Has(read[i], {"quick"})}
    IN  IF hits = {} THEN <<"accept", 0>>
        ELSE LET r == Full(IF quick = {} THEN Max(hits) ELSE Min(quick)) IN
             IF Has(r, {"tag"}) THEN <<"tag", r[3].n>> ELSE <<r[1].t, 0>>

Documented == \A i \in DOMAIN read : read[i] \notin Wrong /\ Defined(i)

Complete ==
    filter_only \/ \A words \in {{"listen"}, {"logfile", "logsock"}} :
                      \E i \in DOMAIN read : Has(read[i], words)

\* Is f of the very second that a rule names
OnTheSecond(f) ==
    \E i \in DOMAIN read :
        Range(Full(i)) \cap {[t |-> "time", sec |-> f.sec], [t |-> "date", sec |-> f.recv]} # {}

(***************************************************************************)
(* parse_config accepts a file exactly when all of its lines are right and *)
(* none is of those that it refuses against flowd.conf(5), every macro is  *)
(* defined before it is used, and the file has what flowd needs to start;  *)
(* and then every flow meets the fate that the lines, read one by one,     *)
(* give it (parse.y, filter.c, addr.c).  The second half leaves out the    *)
(* files that use any without a port, which no address matches, and the    *)
(* flows of the very second of a rule: the code includes it in a time of   *)
(* day and not in a date, and the manual does not say.                     *)
(***************************************************************************)
ConfigAsWritten ==
    ret # Parsing =>
        /\ ret = 0 <=> Documented /\ Complete /\ \A i \in DOMAIN read : read[i] \notin Refused
        /\ (ret = 0 /\ \A i \in DOMAIN read : ~BareAny(read[i])) =>
               \A f \in Flows : ~OnTheSecond(f) => filter_flow(conf.filter, f) = Verdict(f)

(***************************************************************************)
(* parse_config accepts a file whose lines are those of flowd.conf(5).  It *)
(* does not: the tests of filterrule take a time of day that is not given  *)
(* for -1, so that a rule with days or after alone starts after it ends,   *)
(* and the family of any for one that differs from that of an address.     *)
(***************************************************************************)
DocumentedAccepted == ret # Parsing /\ Documented /\ Complete => ret = 0

=============================================================================
