--------------------------- MODULE PrivsepProofs ---------------------------
(***************************************************************************)
(* Proofs about module Privsep: the two processes of flowd agree on the    *)
(* configuration whenever it matters, and never stand in their own way     *)
(* when they bind listeners, for every set of configuration files and any  *)
(* number of edits, signals and kills.                                     *)
(***************************************************************************)
EXTENDS Privsep, SequenceTheorems, TLAPS

-----------------------------------------------------------------------------
(* The inductive invariant *)

MonitorPcs == {"boot", "read", "config", "listen", "accept", "refuse", "adopt", "ended"}
ChildPcs == {"boot", "top", "work", "open", "log", "socket", "reconf", "poll",
             "leaving", "ended"}

Refusal == [ok |-> 0]

(* The monitor is at work on a RECONFIGURE it has read.                    *)
Serving == mpc \in {"config", "listen", "accept", "refuse"}

(* The new configuration and its listeners are on their way to the child.  *)
ConfigSent ==
    \E f : /\ answers = <<[ok |-> 1, conf |-> newconf, fds |-> f]>>
           /\ Addrs(f) = newconf.listen_addrs

(* Reconfiguring, from the child's request to the answer it has yet to read *)
Reconfiguring ==
    Serving \/ requests = <<"RECONFIGURE">> \/ answers = <<Refusal>> \/ ConfigSent

(* A descriptor is on its way to the child: of the log it waits for.       *)
DescriptorSent ==
    \E n : /\ answers = <<[ok |-> 1, open |-> n]>>
           /\ cpc = "log" => n = cconf.log_file
           /\ cpc = "socket" => n = cconf.log_socket

(* Opening a log, from the child's request to the answer it has yet to     *)
(* read.                                                                   *)
Opening == requests \in {<<"OPEN_LOG">>, <<"OPEN_SOCKET">>} \/ DescriptorSent

(* One request at a time: it is in the socket, or the monitor works on it, *)
(* or its answer is in the socket, and the child waits or has ended.       *)
OneAtATime ==
    /\ requests \in {<<>>, <<"OPEN_LOG">>, <<"OPEN_SOCKET">>, <<"RECONFIGURE">>}
    /\ answers = <<>> \/ answers = <<Refusal>> \/ DescriptorSent \/ ConfigSent
    /\ requests # <<>> => answers = <<>>
    /\ Serving => requests = <<>> /\ answers = <<>>
    /\ mpc = "boot" => answers = <<>>
    /\ mpc = "adopt" => answers = <<>> \/ ConfigSent
    /\ answers = <<Refusal>> => mpc = "ended"
    /\ Reconfiguring => cpc \in {"reconf", "ended"}
    /\ Opening => cpc \in {"log", "socket", "ended"}
    /\ requests = <<"OPEN_LOG">> => cpc # "socket"
    /\ requests = <<"OPEN_SOCKET">> => cpc # "log"

(* Who has which listeners open                                            *)
ListenersHeld ==
    /\ mpc \in {"read", "config", "listen"} => mfds = {}
    /\ mpc = "accept" => Addrs(mfds) = newconf.listen_addrs
    /\ cpc \in {"reconf", "ended"} => cfds = {}
    /\ cpc \notin {"reconf", "ended"} => Addrs(cfds) = cconf.listen_addrs

(* The monitor's configuration is the child's but between the two halves   *)
(* of a reconfiguration.                                                   *)
ConfigsMatch ==
    /\ mpc = "read" /\ ConfigSent => mconf = newconf
    /\ ~Ended(cpc) =>
          /\ mpc \in {"boot", "config", "listen", "accept", "refuse"} => mconf = cconf
          /\ mpc = "read" /\ ~ConfigSent => mconf = cconf
          /\ mpc = "adopt" /\ answers = <<>> => cconf = newconf

(* A child that polls has the logs its configuration asks for.  A log that *)
(* is open is that of the configuration, unless it is about to be closed;  *)
(* and when the child asks for another configuration it has no log open,   *)
(* or is about to close it.                                                *)
LogsRight ==
    /\ reconf_flag \in {0, 1} /\ reopen_flag \in {0, 1}
    /\ cpc = "poll" => ~NeedsLog /\ ~NeedsSocket
    /\ reopen_flag = 0 => /\ log_fd \in {NoLog, cconf.log_file}
                          /\ log_socket \in {NoLog, cconf.log_socket}
    /\ reconf_flag = 1 \/ cpc = "reconf" =>
          \/ reopen_flag = 1
          \/ cpc \in {"work", "reconf", "ended"} /\ log_fd = NoLog /\ log_socket = NoLog

(* One request at a time, from a child that has closed its listeners       *)
IndInv ==
    /\ mpc \in MonitorPcs /\ cpc \in ChildPcs
    /\ OneAtATime
    /\ ListenersHeld
    /\ ConfigsMatch
    /\ LogsRight

-----------------------------------------------------------------------------
(* Lemmas *)

(* Each address of a set of listeners is there.                            *)
LEMMA ListenersAddrs == ASSUME NEW A, NEW g PROVE Addrs(Listeners(A, g)) = A
<1> DEFINE L(a) == [addr |-> a, groups |-> g]
<1>1. ASSUME NEW x \in A PROVE x \in Addrs(Listeners(A, g))
  <2>1. L(x) \in Listeners(A, g) /\ L(x).addr = x
    BY DEF Listeners
  <2>2. QED
    BY <2>1 DEF Addrs
<1>2. ASSUME NEW x \in Addrs(Listeners(A, g)) PROVE x \in A
  <2>1. PICK l \in Listeners(A, g) : x = l.addr
    BY DEF Addrs
  <2>2. PICK a \in A : l = L(a)
    BY DEF Listeners
  <2>3. QED
    BY <2>1, <2>2
<1>3. QED
  BY <1>1, <1>2

(* No descriptors, no addresses.                                           *)
LEMMA NoAddrs == Addrs({}) = {}
BY DEF Addrs

(* The answers that are not a configuration                                *)
LEMMA NotConfig == answers \in {<<>>, <<Refusal>>} => ~ConfigSent
<1> SUFFICES ASSUME answers \in {<<>>, <<Refusal>>}, ConfigSent PROVE FALSE
  OBVIOUS
<1>1. PICK f : answers = <<[ok |-> 1, conf |-> newconf, fds |-> f]>>
  BY DEF ConfigSent
<1>2. CASE answers = <<>>
  BY <1>1, <1>2
<1>3. CASE answers = <<Refusal>>
  <2>1. answers[1].ok = 1
    BY <1>1
  <2>2. answers[1].ok = 0
    BY <1>3 DEF Refusal
  <2>3. QED
    BY <2>1, <2>2
<1>4. QED
  BY <1>2, <1>3

(* A descriptor is neither.                                                *)
LEMMA NotDescriptor ==
    (answers \in {<<>>, <<Refusal>>} \/ ConfigSent) => ~DescriptorSent
<1> SUFFICES ASSUME answers \in {<<>>, <<Refusal>>} \/ ConfigSent, DescriptorSent PROVE FALSE
  OBVIOUS
<1>1. PICK n : answers = <<[ok |-> 1, open |-> n]>>
  BY DEF DescriptorSent
<1>2. CASE answers = <<>>
  BY <1>1, <1>2
<1>3. CASE answers = <<Refusal>>
  <2>1. answers[1].ok = 1
    BY <1>1
  <2>2. answers[1].ok = 0
    BY <1>3 DEF Refusal
  <2>3. QED
    BY <2>1, <2>2
<1>4. CASE ConfigSent
  <2>1. PICK f : answers = <<[ok |-> 1, conf |-> newconf, fds |-> f]>>
    BY <1>4 DEF ConfigSent
  <2>2. [ok |-> 1, open |-> n] = [ok |-> 1, conf |-> newconf, fds |-> f]
    BY <1>1, <2>1
  <2>3. DOMAIN [ok |-> 1, open |-> n] = {"ok", "open"}
    OBVIOUS
  <2>4. "fds" \in DOMAIN [ok |-> 1, conf |-> newconf, fds |-> f]
    OBVIOUS
  <2>5. QED
    BY <2>2, <2>3, <2>4
<1>5. QED
  BY <1>2, <1>3, <1>4

(* The same after a step.                                                  *)
LEMMA NotConfigNext ==
    /\ (answers \in {<<>>, <<Refusal>>} => ~ConfigSent)'
    /\ ((answers \in {<<>>, <<Refusal>>} \/ ConfigSent) => ~DescriptorSent)'
BY NotConfig, NotDescriptor, PTL

(* A configuration on its way stays there while the socket and newconf     *)
(* do not change.                                                          *)
LEMMA ConfigStays == UNCHANGED <<answers, newconf>> => (ConfigSent' <=> ConfigSent)
BY DEF ConfigSent

(* So does a descriptor, while the child waits for it, and when it ends.   *)
LEMMA DescriptorStays ==
    UNCHANGED answers =>
        /\ UNCHANGED <<cpc, cconf>> => (DescriptorSent' <=> DescriptorSent)
        /\ cpc' = "ended" /\ DescriptorSent => DescriptorSent'
BY DEF DescriptorSent

(* What is in the socket when the child does not wait for an answer        *)
LEMMA ChildFree ==
    ASSUME IndInv, cpc \notin {"reconf", "log", "socket", "ended"}
    PROVE  requests = <<>> /\ answers = <<>> /\ ~Serving /\ ~ConfigSent /\ ~DescriptorSent
BY DEF IndInv, OneAtATime, Reconfiguring, Opening

(* The state after the fork                                                *)
LEMMA InitInd == Init => IndInv
<1> SUFFICES ASSUME Init PROVE IndInv
  OBVIOUS
<1>1. requests = <<>> /\ answers = <<>> /\ mpc = "boot" /\ cpc = "boot" /\ mconf = cconf
  BY DEF Init
<1>2. ~ConfigSent /\ ~DescriptorSent
  BY <1>1, NotConfig, NotDescriptor
<1>3. OneAtATime
  BY <1>1, <1>2 DEF OneAtATime, Serving, Reconfiguring, Opening
<1>4. ListenersHeld
  BY <1>1, ListenersAddrs DEF Init, ListenersHeld
<1>5. ConfigsMatch
  BY <1>1, <1>2 DEF ConfigsMatch
<1>6. LogsRight
  BY <1>1 DEF Init, LogsRight
<1>7. QED
  BY <1>1, <1>3, <1>4, <1>5, <1>6 DEF IndInv, MonitorPcs, ChildPcs

(* The child ends, wherever it is: nobody waits for an answer any more.    *)
LEMMA ChildEndsInd ==
    ASSUME IndInv, ChildEnds,
           UNCHANGED <<mpc, mconf, newconf, mfds, requests, reconf_flag, reopen_flag>>,
           answers' \in {answers, <<>>}
    PROVE  IndInv'
<1>1. cpc' = "ended" /\ cfds' = {} /\ UNCHANGED <<cconf, log_fd, log_socket>>
  BY DEF ChildEnds
<1>2. (ConfigSent' => ConfigSent) /\ (answers' = answers => (ConfigSent' <=> ConfigSent))
  BY NotConfigNext, ConfigStays
<1>3. answers' = answers /\ DescriptorSent => DescriptorSent'
  BY <1>1, DescriptorStays
<1>4. OneAtATime'
  BY <1>1, <1>2, <1>3 DEF IndInv, OneAtATime, Serving, Reconfiguring, Opening
<1>5. ListenersHeld'
  BY <1>1 DEF IndInv, ListenersHeld
<1>6. ConfigsMatch'
  BY <1>1, <1>2 DEF IndInv, ConfigsMatch, Ended
<1>7. LogsRight'
  BY <1>1 DEF IndInv, LogsRight
<1>8. QED
  BY <1>1, <1>4, <1>5, <1>6, <1>7 DEF IndInv, ChildPcs

(* The child goes on without a message; its listeners stay as they are.    *)
LEMMA ChildMovesInd ==
    ASSUME IndInv, cpc \notin {"reconf", "log", "socket", "ended"},
           cpc' \in {"top", "work", "open", "poll", "leaving", cpc}, LogsRight',
           UNCHANGED <<mpc, mconf, newconf, mfds, cconf, cfds, requests, answers>>
    PROVE  IndInv'
<1>1. ConfigSent' <=> ConfigSent
  BY ConfigStays
<1>2. /\ requests = <<>> /\ answers = <<>> /\ ~Serving /\ ~ConfigSent
      /\ ~DescriptorSent'
  BY ChildFree, NotConfigNext
<1>3. OneAtATime'
  BY <1>1, <1>2 DEF IndInv, OneAtATime, Serving, Reconfiguring, Opening, Refusal
<1>4. ListenersHeld'
  BY DEF IndInv, ListenersHeld
<1>5. ConfigsMatch'
  BY <1>1, <1>2 DEF IndInv, ConfigsMatch, Ended
<1>6. QED
  BY <1>3, <1>4, <1>5 DEF IndInv, ChildPcs

(* The child asks.                                                         *)
LEMMA AskInd ==
    ASSUME IndInv, client_reconfigure \/ client_open_log \/ client_open_socket
    PROVE  IndInv'
<1>1. /\ cpc \in {"work", "open"}
      /\ UNCHANGED <<mpc, mconf, newconf, mfds, cconf, answers, log_fd, log_socket,
                     reconf_flag, reopen_flag>>
      /\ \/ /\ cpc' = "reconf" /\ cfds' = {} /\ reconf_flag = 1
            /\ requests' = Append(requests, "RECONFIGURE")
         \/ /\ cpc' = "log" /\ cfds' = cfds /\ cpc = "open"
            /\ requests' = Append(requests, "OPEN_LOG")
         \/ /\ cpc' = "socket" /\ cfds' = cfds /\ cpc = "open"
            /\ requests' = Append(requests, "OPEN_SOCKET")
  BY DEF client_reconfigure, client_open_log, client_open_socket, Ask, monitor, flags
<1>2. /\ requests = <<>> /\ answers = <<>> /\ ~Serving /\ ~ConfigSent
      /\ ~DescriptorSent'
  BY <1>1, ChildFree, NotConfigNext
<1>3. ConfigSent' <=> ConfigSent
  BY <1>1, ConfigStays
<1>4. \/ cpc' = "reconf" /\ cfds' = {} /\ requests' = <<"RECONFIGURE">>
      \/ cpc' = "log" /\ cfds' = cfds /\ requests' = <<"OPEN_LOG">>
      \/ cpc' = "socket" /\ cfds' = cfds /\ requests' = <<"OPEN_SOCKET">>
  BY <1>1, <1>2
<1>5. OneAtATime'
  BY <1>1, <1>2, <1>3, <1>4
     DEF IndInv, OneAtATime, Serving, Reconfiguring, Opening, Refusal
<1>6. ListenersHeld'
  BY <1>1, <1>4 DEF IndInv, ListenersHeld
<1>7. ConfigsMatch'
  BY <1>1, <1>2, <1>3, <1>4 DEF IndInv, ConfigsMatch, Ended
<1>8. LogsRight'
  BY <1>1 DEF IndInv, LogsRight
<1>9. QED
  BY <1>1, <1>4, <1>5, <1>6, <1>7, <1>8 DEF IndInv, ChildPcs

(* The child has its answer.                                               *)
LEMMA AnsweredInd ==
    ASSUME IndInv, receive_fd \/ recv_config
    PROVE  IndInv'
<1>1. CASE receive_fd
  <2>1. /\ cpc \in {"log", "socket"} /\ cpc' = "open"
        /\ answers # <<>> /\ answers' = Tail(answers)
        /\ log_fd' = IF cpc = "log" THEN Head(answers).open ELSE log_fd
        /\ log_socket' = IF cpc = "socket" THEN Head(answers).open ELSE log_socket
        /\ UNCHANGED <<mpc, mconf, newconf, mfds, cconf, cfds, requests, reconf_flag,
                       reopen_flag>>
    BY <1>1 DEF receive_fd, monitor, flags
  <2>2. DescriptorSent /\ requests = <<>> /\ ~Serving /\ ~ConfigSent
    BY <2>1 DEF IndInv, OneAtATime, Reconfiguring
  <2>3. PICK n : /\ answers = <<[ok |-> 1, open |-> n]>>
                 /\ cpc = "log" => n = cconf.log_file
                 /\ cpc = "socket" => n = cconf.log_socket
    BY <2>2 DEF DescriptorSent
  <2>4. Head(answers).open = n /\ Tail(answers) = <<>>
    BY <2>3
  <2>5. answers' = <<>> /\ ~ConfigSent' /\ ~DescriptorSent'
    BY <2>1, <2>4, NotConfigNext
  <2>6. OneAtATime'
    BY <2>1, <2>2, <2>5
       DEF IndInv, OneAtATime, Serving, Reconfiguring, Opening, Refusal
  <2>7. ListenersHeld'
    BY <2>1 DEF IndInv, ListenersHeld
  <2>8. ConfigsMatch'
    BY <2>1, <2>2, <2>3, <2>5 DEF IndInv, OneAtATime, ConfigsMatch, Ended
  <2>9. LogsRight'
    <3>1. log_fd' \in {log_fd, cconf.log_file} /\ log_socket' \in {log_socket, cconf.log_socket}
      BY <2>1, <2>3, <2>4
    <3>2. QED
      BY <2>1, <3>1 DEF IndInv, LogsRight
  <2>10. QED
    BY <2>1, <2>6, <2>7, <2>8, <2>9 DEF IndInv, ChildPcs
<1>2. CASE recv_config
  <2>1. /\ cpc = "reconf" /\ answers # <<>> /\ answers' = Tail(answers)
        /\ UNCHANGED <<mpc, mconf, newconf, mfds, requests, reopen_flag>>
        /\ IF Head(answers).ok = 0 THEN ChildEnds /\ UNCHANGED reconf_flag
           ELSE /\ cconf' = Head(answers).conf /\ cfds' = Head(answers).fds
                /\ cpc' = "open" /\ reconf_flag' = 0 /\ UNCHANGED <<log_fd, log_socket>>
    BY <1>2 DEF recv_config, monitor
  <2>2. requests = <<>> /\ ~Serving /\ (answers = <<Refusal>> \/ ConfigSent)
    BY <2>1 DEF IndInv, OneAtATime, Opening
  <2>3. CASE answers = <<Refusal>>
    <3>1. Head(answers).ok = 0 /\ Tail(answers) = <<>>
      BY <2>3 DEF Refusal
    <3>2. QED
      BY <2>1, <3>1, ChildEndsInd
  <2>4. CASE ConfigSent
    <3>1. PICK f : /\ answers = <<[ok |-> 1, conf |-> newconf, fds |-> f]>>
                   /\ Addrs(f) = newconf.listen_addrs
      BY <2>4 DEF ConfigSent
    <3>2. /\ Head(answers).ok = 1 /\ Head(answers).conf = newconf
          /\ Head(answers).fds = f /\ Tail(answers) = <<>>
      BY <3>1
    <3>3. /\ cconf' = newconf /\ cfds' = f /\ cpc' = "open" /\ answers' = <<>>
          /\ reconf_flag' = 0 /\ UNCHANGED <<log_fd, log_socket>>
      BY <2>1, <3>2
    <3>4. ~ConfigSent' /\ ~DescriptorSent'
      BY <3>3, NotConfigNext
    <3>5. mpc \notin {"boot", "config", "listen", "accept", "refuse"}
      BY <2>2, <3>1 DEF IndInv, OneAtATime, Serving
    <3>6. OneAtATime'
      <4>1. /\ requests' = <<>> /\ mpc' = mpc /\ mpc \notin {"config", "listen", "accept", "refuse"}
            /\ answers' # <<Refusal>>
        BY <2>1, <2>2, <3>3 DEF Serving
      <4>2. QED
        BY <3>3, <3>4, <4>1 DEF OneAtATime, Serving, Reconfiguring, Opening
    <3>7. ListenersHeld'
      BY <2>1, <3>1, <3>3 DEF IndInv, ListenersHeld
    <3>8. ConfigsMatch'
      BY <2>1, <2>4, <3>3, <3>4, <3>5 DEF IndInv, ConfigsMatch, Ended
    <3>9. LogsRight'
      BY <2>1, <3>3 DEF IndInv, LogsRight
    <3>10. QED
      BY <2>1, <3>3, <3>6, <3>7, <3>8, <3>9 DEF IndInv, ChildPcs
  <2>5. QED
    BY <2>2, <2>3, <2>4
<1>3. QED
  BY <1>1, <1>2

(* The main thread of the child ends.                                      *)
LEMMA MainEndsInd ==
    ASSUME IndInv, MainEnds, cpc \notin {"reconf", "log", "socket", "ended"},
           reopen_flag = 1 \/ reconf_flag = 0 \/ cpc # "work",
           UNCHANGED <<mpc, mconf, newconf, mfds, requests, answers, reconf_flag, reopen_flag>>
    PROVE  IndInv'
<1>1. CASE ChildEnds
  BY <1>1, ChildEndsInd
<1>2. CASE cpc' = "leaving" /\ UNCHANGED <<cconf, cfds, log_fd, log_socket, estimation>>
  <2>1. LogsRight'
    BY <1>2 DEF IndInv, LogsRight
  <2>2. QED
    BY <1>2, <2>1, ChildMovesInd
<1>3. QED
  BY <1>1, <1>2 DEF MainEnds

(* Every step of the child keeps the invariant.                            *)
LEMMA ChildInd ==
    ASSUME IndInv, Child \/ ChildWakes
    PROVE  IndInv'
<1> USE DEF monitor, socket, flags
<1>1. CASE ChildBoot
  <2>1. LogsRight'
    BY <1>1 DEF ChildBoot, IndInv, LogsRight
  <2>2. QED
    BY <1>1, <2>1, ChildMovesInd DEF ChildBoot
<1>2. CASE ChildExits
  BY <1>2, MainEndsInd DEF ChildExits
<1>3. CASE ChildReopens
  <2>1. LogsRight'
    BY <1>3 DEF ChildReopens, IndInv, LogsRight
  <2>2. QED
    BY <1>3, <2>1, ChildMovesInd DEF ChildReopens
<1>4. CASE AskInVain
  BY <1>4, ChildEndsInd DEF AskInVain
<1>5. CASE NoReconfigure
  <2>1. LogsRight'
    BY <1>5 DEF NoReconfigure, IndInv, LogsRight
  <2>2. QED
    BY <1>5, <2>1, ChildMovesInd DEF NoReconfigure
<1>6. CASE ChildPolls
  <2>1. LogsRight'
    BY <1>6 DEF ChildPolls, IndInv, LogsRight, NeedsLog, NeedsSocket
  <2>2. QED
    BY <1>6, <2>1, ChildMovesInd DEF ChildPolls
<1>7. CASE ChildHangup
  BY <1>7, ChildEndsInd, MainEndsInd DEF ChildHangup
<1>8. CASE ThreadsEnd
  BY <1>8, ChildEndsInd DEF ThreadsEnd
<1>9. CASE ChildWakes
  <2>1. LogsRight'
    BY <1>9 DEF ChildWakes, IndInv, LogsRight
  <2>2. QED
    BY <1>9, <2>1, ChildMovesInd DEF ChildWakes
<1>10. QED
  BY <1>1, <1>2, <1>3, <1>4, <1>5, <1>6, <1>7, <1>8, <1>9, AskInd, AnsweredInd DEF Child

(* The monitor ends, wherever it is.                                       *)
LEMMA MonitorEndsInd ==
    ASSUME IndInv, MonitorEnds, UNCHANGED <<child, reconf_flag, reopen_flag>>,
           requests' \in {requests, <<>>},
           \/ answers' = answers
           \/ answers = <<>> /\ Serving /\ answers' = <<Refusal>>
    PROVE  IndInv'
<1>1. /\ mpc' = "ended" /\ UNCHANGED <<mconf, newconf, cpc, cconf, cfds, log_fd, log_socket>>
  BY DEF MonitorEnds, child
<1>2. /\ ConfigSent' => ConfigSent /\ answers' = answers
      /\ DescriptorSent' => DescriptorSent /\ answers' = answers
  BY <1>1, NotConfigNext, ConfigStays, DescriptorStays
<1>3. OneAtATime'
  BY <1>1, <1>2, ConfigStays, DescriptorStays
     DEF IndInv, OneAtATime, Serving, Reconfiguring, Opening, Refusal
<1>4. ListenersHeld'
  BY <1>1 DEF IndInv, ListenersHeld
<1>5. ConfigsMatch'
  BY <1>1 DEF ConfigsMatch
<1>6. LogsRight'
  BY <1>1 DEF IndInv, LogsRight, NeedsLog, NeedsSocket
<1>7. QED
  BY <1>1, <1>3, <1>4, <1>5, <1>6 DEF IndInv, MonitorPcs

(* The monitor answers a request for a log.                                *)
LEMMA OpenInd ==
    ASSUME IndInv, answer_open_log \/ answer_open_socket
    PROVE  IndInv'
<1>1. PICK what \in {"OPEN_LOG", "OPEN_SOCKET"} :
          \E name :
          /\ name = IF what = "OPEN_LOG" THEN mconf.log_file ELSE mconf.log_socket
          /\ mpc = "read" /\ requests # <<>> /\ Head(requests) = what
          /\ requests' = Tail(requests)
          /\ UNCHANGED <<child, flags>>
          /\ \/ Answer([ok |-> 1, open |-> name], "read")
             \/ MonitorEnds /\ UNCHANGED answers
  <2>1. CASE answer_open_log
    BY <2>1 DEF answer_open_log, AnswerOpen
  <2>2. CASE answer_open_socket
    BY <2>2 DEF answer_open_socket, AnswerOpen
  <2>3. QED
    BY <2>1, <2>2
<1> DEFINE name == IF what = "OPEN_LOG" THEN mconf.log_file ELSE mconf.log_socket
<1>2. /\ requests = <<what>> /\ requests' = <<>>
      /\ answers = <<>> /\ ~ConfigSent
  <2>1. requests \in {<<"OPEN_LOG">>, <<"OPEN_SOCKET">>, <<"RECONFIGURE">>}
    BY <1>1 DEF IndInv, OneAtATime
  <2>2. \A w : requests = <<w>> => Head(requests) = w /\ Tail(requests) = <<>>
    OBVIOUS
  <2>3. requests = <<what>>
    BY <1>1, <2>1, <2>2
  <2>4. answers = <<>>
    BY <1>1 DEF IndInv, OneAtATime
  <2>5. QED
    BY <1>1, <2>2, <2>3, <2>4, NotConfig
<1>3. CASE MonitorEnds /\ UNCHANGED answers
  BY <1>1, <1>2, <1>3, MonitorEndsInd DEF flags
<1>4. CASE ~Closed /\ Answer([ok |-> 1, open |-> name], "read")
  <2>1. /\ answers' = <<[ok |-> 1, open |-> name]>> /\ mpc' = "read"
        /\ UNCHANGED <<mconf, newconf, mfds, cpc, cconf, cfds, log_fd, log_socket,
                       reconf_flag, reopen_flag>>
    BY <1>1, <1>2, <1>4 DEF Answer, child, flags
  <2>2. cpc = IF what = "OPEN_LOG" THEN "log" ELSE "socket"
    BY <1>2, <1>4 DEF IndInv, OneAtATime, Opening, Closed, Ended
  <2>3. mconf = cconf
    BY <1>1, <1>2, <2>2 DEF IndInv, ConfigsMatch, Ended
  <2>4. DescriptorSent'
    BY <2>1, <2>2, <2>3 DEF DescriptorSent
  <2>5. ~ConfigSent'
    BY <2>4, NotConfigNext
  <2>6. answers' \notin {<<>>, <<Refusal>>}
    BY <2>4, NotConfigNext
  <2>7. OneAtATime'
    BY <1>1, <1>2, <2>1, <2>2, <2>4, <2>5, <2>6
       DEF IndInv, OneAtATime, Serving, Reconfiguring, Opening
  <2>8. ListenersHeld'
    BY <1>1, <2>1 DEF IndInv, ListenersHeld
  <2>9. ConfigsMatch'
    BY <1>1, <1>2, <2>1, <2>3, <2>5 DEF IndInv, ConfigsMatch, Ended
  <2>10. LogsRight'
    BY <2>1 DEF IndInv, LogsRight, NeedsLog, NeedsSocket
  <2>11. QED
    BY <1>1, <2>1, <2>7, <2>8, <2>9, <2>10 DEF IndInv
<1>5. QED
  BY <1>1, <1>3, <1>4 DEF Answer

(* The monitor reads RECONFIGURE, gets the configuration and binds.        *)
LEMMA ServeInd ==
    ASSUME IndInv, answer_reconfigure \/ child_get_config \/ open_listener
    PROVE  IndInv'
<1>1. /\ UNCHANGED <<mconf, cpc, cconf, cfds, log_fd, log_socket, answers, reconf_flag,
                     reopen_flag>>
      /\ \/ /\ mpc = "read" /\ mpc' = "config" /\ UNCHANGED <<newconf, mfds>>
            /\ requests # <<>> /\ Head(requests) = "RECONFIGURE" /\ requests' = Tail(requests)
         \/ /\ mpc = "config" /\ mpc' \in {"listen", "refuse"} /\ UNCHANGED <<mfds, requests>>
         \/ /\ mpc = "listen" /\ mpc' = "refuse" /\ UNCHANGED <<mfds, newconf, requests>>
         \/ /\ mpc = "listen" /\ mpc' = "accept" /\ UNCHANGED <<newconf, requests>>
            /\ mfds' = Listeners(newconf.listen_addrs, mconf.join_groups)
  BY DEF answer_reconfigure, child_get_config, open_listener, child, socket, flags
<1>2. answers = <<>> /\ ~ConfigSent
  BY <1>1, NotConfig DEF IndInv, OneAtATime, Serving
<1>3. ~ConfigSent' /\ ~DescriptorSent'
  BY <1>1, <1>2, NotConfigNext
<1>4. requests' = <<>> /\ cpc \in {"reconf", "ended"}
  BY <1>1 DEF IndInv, OneAtATime, Serving, Reconfiguring
<1>5. OneAtATime'
  BY <1>1, <1>2, <1>3, <1>4
     DEF IndInv, OneAtATime, Serving, Reconfiguring, Opening, Refusal
<1>6. ListenersHeld'
  BY <1>1, ListenersAddrs DEF IndInv, ListenersHeld
<1>7. ConfigsMatch'
  BY <1>1, <1>2, <1>3 DEF IndInv, ConfigsMatch, Ended
<1>8. LogsRight'
  BY <1>1 DEF IndInv, LogsRight, NeedsLog, NeedsSocket
<1>9. QED
  BY <1>1, <1>5, <1>6, <1>7, <1>8 DEF IndInv, MonitorPcs

(* The configuration is sent, and adopted once it has been.                *)
LEMMA AcceptInd ==
    ASSUME IndInv, send_config \/ replace_conf
    PROVE  IndInv'
<1>1. CASE send_config /\ Closed
  BY <1>1, MonitorEndsInd DEF send_config, Answer, flags
<1>2. CASE send_config /\ ~Closed
  <2>1. /\ mpc = "accept" /\ mpc' = "adopt"
        /\ answers' = Append(answers, [ok |-> 1, conf |-> newconf, fds |-> mfds])
        /\ UNCHANGED <<mconf, newconf, mfds, cpc, cconf, cfds, log_fd, log_socket, requests,
                       reconf_flag, reopen_flag>>
    BY <1>2 DEF send_config, Answer, child, flags
  <2>2. answers = <<>> /\ requests = <<>> /\ cpc \in {"reconf", "ended"}
    BY <2>1 DEF IndInv, OneAtATime, Serving, Reconfiguring
  <2>3. answers' = <<[ok |-> 1, conf |-> newconf', fds |-> mfds]>>
    BY <2>1, <2>2
  <2>4. ConfigSent'
    BY <2>1, <2>3 DEF IndInv, ListenersHeld, ConfigSent
  <2>5. answers' # <<>> /\ answers' # <<Refusal>>
    BY <2>4, NotConfigNext
  <2>6. ~DescriptorSent'
    BY <2>4, NotConfigNext
  <2>7. OneAtATime'
    BY <2>1, <2>2, <2>4, <2>5, <2>6
       DEF IndInv, OneAtATime, Serving, Reconfiguring, Opening
  <2>8. ListenersHeld'
    BY <2>1 DEF IndInv, ListenersHeld
  <2>9. ConfigsMatch'
    BY <2>1, <2>5 DEF IndInv, ConfigsMatch
  <2>10. LogsRight'
    BY <2>1 DEF IndInv, LogsRight, NeedsLog, NeedsSocket
  <2>11. QED
    BY <2>1, <2>7, <2>8, <2>9, <2>10 DEF IndInv, MonitorPcs
<1>3. CASE replace_conf
  <2>1. /\ mpc = "adopt" /\ mpc' = "read" /\ mfds' = {} /\ mconf' = newconf
        /\ UNCHANGED <<newconf, cpc, cconf, cfds, log_fd, log_socket, requests, answers,
                       reconf_flag, reopen_flag>>
    BY <1>3 DEF replace_conf, child, socket, flags
  <2>2. /\ (ConfigSent' <=> ConfigSent) /\ (answers = <<>> \/ ConfigSent)
        /\ DescriptorSent' <=> DescriptorSent
    BY <2>1, ConfigStays, DescriptorStays DEF IndInv, OneAtATime
  <2>3. OneAtATime'
    BY <2>1, <2>2 DEF IndInv, OneAtATime, Serving, Reconfiguring, Opening
  <2>4. ListenersHeld'
    BY <2>1 DEF IndInv, ListenersHeld
  <2>5. ConfigsMatch'
    BY <2>1, <2>2 DEF IndInv, ConfigsMatch, Ended
  <2>6. LogsRight'
    BY <2>1 DEF IndInv, LogsRight, NeedsLog, NeedsSocket
  <2>7. QED
    BY <2>1, <2>3, <2>4, <2>5, <2>6 DEF IndInv, MonitorPcs
<1>4. QED
  BY <1>1, <1>2, <1>3

(* Every step of the monitor keeps the invariant.                          *)
LEMMA MonitorInd ==
    ASSUME IndInv, Monitor
    PROVE  IndInv'
<1>1. CASE MonitorBoot
  <2>1. /\ mpc = "boot" /\ mpc' = "read" /\ mfds' = {}
        /\ UNCHANGED <<mconf, newconf, cpc, cconf, cfds, log_fd, log_socket, requests, answers,
                       reconf_flag, reopen_flag>>
    BY <1>1 DEF MonitorBoot, child, socket, flags
  <2>2. answers = <<>> /\ ~ConfigSent /\ ~ConfigSent' /\ ~DescriptorSent'
    BY <2>1, NotConfig, NotConfigNext, ConfigStays DEF IndInv, OneAtATime
  <2>3. OneAtATime'
    BY <2>1, <2>2 DEF IndInv, OneAtATime, Serving, Reconfiguring, Opening
  <2>4. ListenersHeld'
    BY <2>1 DEF IndInv, ListenersHeld
  <2>5. ConfigsMatch'
    BY <2>1, <2>2 DEF IndInv, ConfigsMatch, Ended
  <2>6. LogsRight'
    BY <2>1 DEF IndInv, LogsRight, NeedsLog, NeedsSocket
  <2>7. QED
    BY <2>1, <2>3, <2>4, <2>5, <2>6 DEF IndInv, MonitorPcs
<1>2. CASE Refuse
  <2>1. Serving /\ answers = <<>>
    BY <1>2 DEF Refuse, Serving, IndInv, OneAtATime
  <2>2. answers' = answers \/ answers' = <<Refusal>>
    BY <1>2, <2>1 DEF Refuse, Refusal
  <2>3. MonitorEnds /\ UNCHANGED <<child, reconf_flag, reopen_flag>> /\ requests' = requests
    BY <1>2 DEF Refuse, flags
  <2>4. QED
    BY <2>1, <2>2, <2>3, MonitorEndsInd
<1>3. CASE MonitorExits
  BY <1>3, MonitorEndsInd DEF MonitorExits, socket, flags
<1>4. QED
  BY <1>1, <1>2, <1>3, OpenInd, ServeInd, AcceptInd DEF Monitor

(* A step that leaves both processes and the socket alone                  *)
LEMMA OutsideInd ==
    ASSUME IndInv,
           UNCHANGED <<mpc, mconf, newconf, mfds, cpc, cconf, cfds, log_fd, log_socket,
                       requests, answers>>,
           LogsRight'
    PROVE  IndInv'
<1>1. (ConfigSent' <=> ConfigSent) /\ (DescriptorSent' <=> DescriptorSent)
  BY ConfigStays, DescriptorStays
<1>2. OneAtATime'
  BY <1>1 DEF IndInv, OneAtATime, Serving, Reconfiguring, Opening
<1>3. ListenersHeld'
  BY DEF IndInv, ListenersHeld
<1>4. ConfigsMatch'
  BY <1>1 DEF IndInv, ConfigsMatch, Ended
<1>5. QED
  BY <1>2, <1>3, <1>4 DEF IndInv

(* A signal reaches the child.                                             *)
LEMMA ChildTakesInd ==
    ASSUME IndInv, NEW flag, "reconf" \in flag => "reopen" \in flag, ChildTakes(flag),
           UNCHANGED <<mpc, mconf, newconf, mfds, requests, answers>>
    PROVE  IndInv'
<1>1. CASE cpc = "boot"
  BY <1>1, ChildEndsInd DEF ChildTakes, flags
<1>2. CASE cpc # "boot"
  <2>1. /\ cpc' = IF cpc = "poll" THEN "top" ELSE cpc
        /\ reconf_flag' \in {reconf_flag, 1} /\ reopen_flag' \in {reopen_flag, 1}
        /\ reconf_flag' # reconf_flag => reopen_flag' = 1
        /\ UNCHANGED <<cconf, cfds, log_fd, log_socket>>
    BY <1>2 DEF ChildTakes
  <2>2. LogsRight'
    BY <2>1 DEF IndInv, LogsRight, NeedsLog, NeedsSocket
  <2>3. CASE cpc = "poll"
    BY <2>1, <2>2, <2>3, ChildMovesInd
  <2>4. CASE cpc # "poll"
    BY <2>1, <2>2, <2>4, OutsideInd
  <2>5. QED
    BY <2>3, <2>4
<1>3. QED
  BY <1>1, <1>2

(* Signals, edits and kills keep the invariant.                            *)
LEMMA EnvironmentInd ==
    ASSUME IndInv,
           \/ SignalEarly \/ sighand_exit \/ sighand_relay \/ EditFile \/ Kill
           \/ EstimationStarts \/ EstimationDone \/ UNCHANGED vars
    PROVE  IndInv'
<1> USE DEF socket, flags
<1>1. CASE SignalEarly
  BY <1>1, MonitorEndsInd DEF SignalEarly, Sent
<1>2. CASE sighand_exit
  BY <1>2, ChildTakesInd DEF sighand_exit, Sent
<1>3. CASE sighand_relay
  BY <1>3, ChildTakesInd DEF sighand_relay, Sent, monitor
<1>4. ASSUME UNCHANGED <<mpc, mconf, newconf, mfds, cpc, cconf, cfds, log_fd, log_socket,
                         requests, answers, reconf_flag, reopen_flag>>
      PROVE  IndInv'
  <2>1. LogsRight'
    BY <1>4 DEF IndInv, LogsRight, NeedsLog, NeedsSocket
  <2>2. QED
    BY <1>4, <2>1, OutsideInd
<1>5. CASE EditFile \/ EstimationStarts \/ UNCHANGED vars
  BY <1>4, <1>5 DEF EditFile, EstimationStarts, monitor, child, vars
<1>6. CASE EstimationDone
  BY <1>4, <1>6, ChildEndsInd DEF EstimationDone, monitor
<1>7. CASE Kill
  <2>1. CASE MonitorEnds /\ UNCHANGED child
    BY <1>7, <2>1, MonitorEndsInd DEF Kill
  <2>2. CASE ChildEnds /\ UNCHANGED monitor
    BY <1>7, <2>2, ChildEndsInd DEF Kill, monitor
  <2>3. QED
    BY <1>7, <2>1, <2>2 DEF Kill
<1>8. QED
  BY <1>1, <1>2, <1>3, <1>5, <1>6, <1>7

-----------------------------------------------------------------------------
(* Theorems *)

(* The invariant holds in every state of the two processes.                *)
LEMMA Invariance == Spec => []IndInv
<1>1. IndInv /\ [Next]_vars => IndInv'
  BY ChildInd, MonitorInd, EnvironmentInd DEF Next
<1>2. QED
  BY <1>1, InitInd, PTL DEF Spec

(* The monitor answers a request with the configuration of the child that  *)
(* sent it, and a child in poll has the listeners of its configuration and *)
(* a log for each it names, which is that very configuration's unless      *)
(* reopen_flag still tells it to close it, wherever edits, signals and     *)
(* kills fall.                                                             *)
THEOREM ConfigCorrect == Spec => []ConfigAgreed
<1>1. IndInv => ConfigAgreed
  <2> SUFFICES ASSUME IndInv PROVE ConfigAgreed
    OBVIOUS
  <2>1. ASSUME mpc = "read", requests # <<>>, ~Ended(cpc) PROVE mconf = cconf
    <3>1. ~ConfigSent
      BY <2>1, NotConfig DEF IndInv, OneAtATime
    <3>2. QED
      BY <2>1, <3>1 DEF IndInv, ConfigsMatch
  <2>2. ASSUME cpc = "poll"
        PROVE  /\ Addrs(cfds) = cconf.listen_addrs
               /\ ~NeedsLog /\ ~NeedsSocket
               /\ reopen_flag = 0 => log_fd = cconf.log_file /\ log_socket = cconf.log_socket
    BY <2>2 DEF IndInv, ListenersHeld, LogsRight, NeedsLog, NeedsSocket
  <2>3. QED
    BY <2>1, <2>2 DEF ConfigAgreed
<1>2. QED
  BY <1>1, Invariance, PTL

(* When answer_reconfigure binds the listeners of the new configuration,   *)
(* no process of flowd and no message between them holds one of their      *)
(* addresses.                                                              *)
THEOREM BindCorrect == Spec => []BindFree
<1>1. IndInv => BindFree
  <2> SUFFICES ASSUME IndInv, mpc = "listen" PROVE BindFree
    BY DEF BindFree
  <2>1. mfds = {} /\ cfds = {} /\ answers = <<>>
    BY DEF IndInv, OneAtATime, Reconfiguring, Serving, ListenersHeld
  <2>2. InFlight = {}
    <3>1. {k \in 1 .. Len(answers) : "fds" \in DOMAIN answers[k]} = {}
      BY <2>1
    <3>2. QED
      BY <3>1 DEF InFlight
  <2>3. Addrs(mfds \cup cfds \cup InFlight) = {}
    BY <2>1, <2>2, NoAddrs
  <2>4. QED
    BY <2>3 DEF BindFree
<1>2. QED
  BY <1>1, Invariance, PTL

=============================================================================
