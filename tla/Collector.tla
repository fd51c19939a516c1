----------------------------- MODULE Collector -----------------------------
(***************************************************************************)
(* flowd, the NetFlow collector: flowd_mainloop and what it calls          *)
(* (flowd.c), the table of peers (peer.c) and the signals that set its     *)
(* flags at any moment.                                                    *)
(*                                                                         *)
(* One round of the loop tests the flags, sleeps in poll, receives a batch *)
(* of datagrams into input_queue, processes them into flow records, and    *)
(* writes output_queue to the log.  A datagram is received under one peer  *)
(* and processed later, when its peer may have been evicted.               *)
(*                                                                         *)
(* A datagram is a record: its source (the emulated monitor named in the   *)
(* header or, failing that, the sender), its version, how well formed it   *)
(* is and its number of flows.  The listening sockets are taken together.  *)
(* Peer statistics and info_flag are only printed and are left out; what   *)
(* process_netflow_v7 and process_netflow_v9 do is out of reach, because   *)
(* receive_packet drops these versions.                                    *)
(***************************************************************************)
EXTENDS Naturals, Sequences, SequencesExt, FiniteSets

CONSTANTS
    Sources,        \* addresses of exporters
    Datagrams,      \* what may arrive
    Configs,        \* what the configuration file may say
    MaxPeers,       \* peers.max_peers
    InputMax,       \* INPUT_MAX_PACKET_PER_FD
    OutputInitial,  \* OUTPUT_INITIAL_QLEN, in records
    OutputMax,      \* OUTPUT_MAX_QLEN, in records
    ReopenErrors,   \* LOGSOCK_REOPEN_ERROR_COUNT
    MaxDatagrams,   \* bound: datagrams that arrive
    MaxSignals      \* bound: signals that arrive

Shapes == {"flows", "bad", "short"}

(* "bad": wrong number of flows or length; "short": not even a header      *)
DatagramType == [src : Sources, version : Nat, shape : Shapes, nflows : Nat \ {0}]

(* allowed_devices (empty: everybody), log_file, log_socket                *)
ConfigType == [allowed : SUBSET Sources, log : BOOLEAN, sock : BOOLEAN]

(* The lengths that doubling OUTPUT_INITIAL_QLEN leads to                  *)
Doubled[x \in 0 .. OutputMax] ==
    IF x = 0 THEN OutputInitial ELSE 2 * Doubled[x - 1]

(* OUTPUT_MAX_QLEN "must be 2^x multiple of initial"                       *)
ASSUME CollectorAssumption ==
    /\ Datagrams \subseteq DatagramType
    /\ Configs \subseteq ConfigType
    /\ Configs # {}
    /\ MaxPeers \in Nat \ {0}
    /\ InputMax \in Nat \ {0}
    /\ OutputInitial \in Nat \ {0}
    /\ OutputMax \in Nat
    /\ \E x \in 0 .. OutputMax : OutputMax = Doubled[x]
    /\ ReopenErrors \in Nat
    /\ MaxDatagrams \in Nat
    /\ MaxSignals \in Nat

VARIABLES
    pc,                    \* where flowd_mainloop is
    exit_flag, reconf_flag, reopen_flag,
    file,                  \* the configuration file
    conf,                  \* the configuration in use
    peer_list,             \* sources, most recently updated first
    num_peers,
    batch,                 \* datagrams this receive_many has read
    input_queue,
    todo,                  \* flows left in the datagram being processed
    log_fd, log_socket,    \* open?
    output_queue_alloc,
    output_queue_offset,
    logsock_num_errors,
    logsock_first_error,   \* set?
    received,              \* datagrams received
    signals,               \* signals delivered
    unwritten,             \* history: records accepted for the log, not written
    stale,                 \* history: a SIGHUP waits for a new configuration
    rotate,                \* history: a signal waits for the log to be reopened
    leaving                \* history: a SIGTERM waits for the end of flowd

flagVars == <<exit_flag, reconf_flag, reopen_flag>>
peerVars == <<peer_list, num_peers>>
outVars == <<output_queue_alloc, output_queue_offset, unwritten>>
sockVars == <<logsock_num_errors, logsock_first_error>>
logVars == <<log_fd, log_socket>>
inVars == <<batch, input_queue, todo, received>>
envVars == <<file, signals>>
histVars == <<stale, rotate, leaving>>
vars == <<pc, flagVars, conf, peerVars, outVars, sockVars, logVars, inVars,
          envVars, histVars>>

Init ==
    /\ pc = "top"
    /\ exit_flag = FALSE /\ reconf_flag = FALSE /\ reopen_flag = FALSE
    /\ file \in Configs
    /\ conf = file
    /\ peer_list = <<>>
    /\ num_peers = 0
    /\ batch = 0
    /\ input_queue = <<>>
    /\ todo = 0
    /\ log_fd = FALSE /\ log_socket = FALSE
    /\ output_queue_alloc = 0
    /\ output_queue_offset = 0
    /\ logsock_num_errors = 0
    /\ logsock_first_error = FALSE
    /\ received = 0
    /\ signals = 0
    /\ unwritten = 0
    /\ stale = FALSE /\ rotate = FALSE /\ leaving = FALSE

Running == pc \notin {"exited", "died"}

-----------------------------------------------------------------------------
(* The flags *)

(* for(;exit_flag == 0;) *)
MainExit ==
    /\ pc = "top"
    /\ exit_flag
    /\ pc' = "exited"
    /\ UNCHANGED <<flagVars, conf, peerVars, outVars, sockVars, logVars, inVars,
                   envVars, histVars>>

MainTop ==
    /\ pc = "top"
    /\ ~exit_flag
    /\ pc' = "reopen"
    /\ UNCHANGED <<flagVars, conf, peerVars, outVars, sockVars, logVars, inVars,
                   envVars, histVars>>

(* Too many errors, the first one long enough ago: the socket is closed.   *)
LogsockReopen ==
    /\ pc = "top"
    /\ ~exit_flag
    /\ log_socket
    /\ logsock_num_errors > ReopenErrors
    /\ log_socket' = FALSE
    /\ logsock_num_errors' = 0
    /\ logsock_first_error' = FALSE
    /\ pc' = "reopen"
    /\ UNCHANGED <<flagVars, conf, peerVars, outVars, log_fd, inVars, envVars, histVars>>

(* A requested reopen closes the log first ...                             *)
ReopenTest ==
    /\ pc = "reopen"
    /\ IF reopen_flag /\ (log_fd \/ log_socket)
       THEN pc' = "close" /\ log_fd' = FALSE /\ log_socket' = FALSE
       ELSE pc' = "reconf" /\ UNCHANGED logVars
    /\ UNCHANGED <<flagVars, conf, peerVars, outVars, sockVars, inVars, envVars, histVars>>

(* ... and forgets the request afterwards.                                 *)
ReopenClear ==
    /\ pc = "close"
    /\ reopen_flag' = FALSE
    /\ pc' = "reconf"
    /\ UNCHANGED <<exit_flag, reconf_flag, conf, peerVars, outVars, sockVars,
                   logVars, inVars, envVars, histVars>>

(* The walk of scrub_peers along the list                                  *)
Kept(list, allowed) ==
    LET kept[i \in 0 .. Len(list)] ==
            IF i = 0 THEN <<>>
            ELSE IF list[i] \in allowed THEN Append(kept[i - 1], list[i])
            ELSE kept[i - 1]
    IN  kept[Len(list)]

(* scrub_peers: peers that are no longer allowed go.                       *)
scrub_peers(new) ==
    /\ peer_list' = IF new.allowed = {} THEN peer_list
                    ELSE Kept(peer_list, new.allowed)
    /\ num_peers' = num_peers - (Len(peer_list) - Len(peer_list'))

(* client_reconfigure, init_pfd and scrub_peers                            *)
Reconfigure ==
    /\ pc = "reconf"
    /\ reconf_flag
    /\ conf' = file
    /\ scrub_peers(file)
    /\ stale' = FALSE
    /\ pc' = "reread"
    /\ UNCHANGED <<flagVars, outVars, sockVars, logVars, inVars, envVars, rotate, leaving>>

ReconfigureClear ==
    /\ pc = "reread"
    /\ reconf_flag' = FALSE
    /\ pc' = "open"
    /\ UNCHANGED <<exit_flag, reopen_flag, conf, peerVars, outVars, sockVars,
                   logVars, inVars, envVars, histVars>>

NoReconfigure ==
    /\ pc = "reconf"
    /\ ~reconf_flag
    /\ pc' = "open"
    /\ UNCHANGED <<flagVars, conf, peerVars, outVars, sockVars, logVars, inVars,
                   envVars, histVars>>

(* start_log and start_socket for what is configured and not open          *)
OpenLogs ==
    /\ pc = "open"
    /\ log_fd' = (log_fd \/ conf.log)
    /\ log_socket' = (log_socket \/ conf.sock)
    /\ rotate' = (rotate /\ log_fd)
    /\ pc' = "poll"
    /\ UNCHANGED <<flagVars, conf, peerVars, outVars, sockVars, inVars, envVars, stale,
                   leaving>>

(* logerrx: an invalid configuration, a log that cannot be opened          *)
SetupFails ==
    /\ \/ pc = "reconf" /\ reconf_flag
       \/ pc = "open" /\ ((conf.log /\ ~log_fd) \/ (conf.sock /\ ~log_socket))
    /\ pc' = "died"
    /\ UNCHANGED <<flagVars, conf, peerVars, outVars, sockVars, logVars, inVars,
                   envVars, histVars>>

-----------------------------------------------------------------------------
(* Receiving *)

(* poll returns because a datagram is there.                               *)
PollReady ==
    /\ pc = "poll"
    /\ received < MaxDatagrams
    /\ batch' = 0
    /\ pc' = "receive"
    /\ UNCHANGED <<flagVars, conf, peerVars, outVars, sockVars, logVars,
                   input_queue, todo, received, envVars, histVars>>

(* poll returns because the privileged monitor has gone.                   *)
PollMonitorClosed ==
    /\ pc = "poll"
    /\ pc' = "exited"
    /\ UNCHANGED <<flagVars, conf, peerVars, outVars, sockVars, logVars, inVars,
                   envVars, histVars>>

(* recvfrom in receive_packet *)
Receive ==
    /\ pc = "receive"
    /\ batch < InputMax
    /\ received < MaxDatagrams
    /\ received' = received + 1
    /\ batch' = batch + 1
    /\ UNCHANGED <<flagVars, conf, outVars, sockVars, logVars, todo, envVars, histVars>>

(* return (0) ends the loop of receive_many.                               *)
GoOn == pc' = "receive"
Stop == pc' = "process"

(* The emulator addin knows versions 1 and 5.  For any other version the   *)
(* function returns without a value: receive_many may go on or stop.       *)
ReceiveUnsupported(d) ==
    /\ Receive
    /\ d.version \notin {1, 5}
    /\ GoOn \/ Stop
    /\ UNCHANGED <<peerVars, input_queue>>

Authorised(s) == conf.allowed = {} \/ s \in conf.allowed

ReceiveUnauthorised(d) ==
    /\ Receive
    /\ d.version \in {1, 5}
    /\ d.src \notin Range(peer_list)
    /\ ~Authorised(d.src)
    /\ GoOn
    /\ UNCHANGED <<peerVars, input_queue>>

(* Mutated form: a peer is evicted although there is room for one more.    *)
new_peer_Early(s) ==
    IF num_peers > 0 /\ num_peers + 1 >= MaxPeers
    THEN /\ peer_list' = <<s>> \o Front(peer_list)
         /\ num_peers' = num_peers
    ELSE /\ peer_list' = <<s>> \o peer_list
         /\ num_peers' = num_peers + 1

(* new_peer: when the table is full the last of the list goes.             *)
new_peer(s) ==
    IF num_peers + 1 > MaxPeers
    THEN /\ peer_list' = <<s>> \o Front(peer_list)
         /\ num_peers' = num_peers
    ELSE /\ peer_list' = <<s>> \o peer_list
         /\ num_peers' = num_peers + 1

FindOrNewPeer(s) ==
    IF s \in Range(peer_list) THEN UNCHANGED peerVars
    ELSE Authorised(s) /\ new_peer(s)

(* The peer exists or is created before the datagram is looked at.         *)
ReceivePacket(d) ==
    /\ Receive
    /\ d.version \in {1, 5}
    /\ FindOrNewPeer(d.src)
    /\ \/ d.shape = "short" /\ GoOn /\ UNCHANGED input_queue
       \/ d.shape # "short" /\ GoOn /\ input_queue' = Append(input_queue, d)
       \/ d.shape # "short" /\ Stop /\ UNCHANGED input_queue   \* malloc fails

(* recvfrom finds nothing more, an allocation fails, or the batch is full. *)
ReceiveDone ==
    /\ pc = "receive"
    /\ pc' = "process"
    /\ UNCHANGED <<flagVars, conf, peerVars, outVars, sockVars, logVars, inVars,
                   envVars, histVars>>

-----------------------------------------------------------------------------
(* Processing *)

(* update_peer: to the front of the list                                   *)
update_peer(s) ==
    \E i \in DOMAIN peer_list :
        /\ peer_list[i] = s
        /\ peer_list' = <<s>> \o RemoveAt(peer_list, i)

(* process_packet finds the peer again: it may be gone.                    *)
ProcessPacket ==
    LET d == Head(input_queue) IN
    /\ pc = "process"
    /\ todo = 0
    /\ input_queue # <<>>
    /\ input_queue' = Tail(input_queue)
    /\ IF d.src \in Range(peer_list) /\ d.shape = "flows"
       THEN update_peer(d.src) /\ todo' = d.nflows
       ELSE UNCHANGED <<peer_list, todo>>
    /\ UNCHANGED <<pc, flagVars, conf, num_peers, outVars, sockVars, logVars,
                   batch, received, envVars, histVars>>

(* The size the queue grows to for one more record *)
Grown ==
    LET a == IF output_queue_alloc = 0 THEN OutputInitial ELSE output_queue_alloc
    IN IF output_queue_offset + 1 > a THEN 2 * a ELSE a

(* Mutated form: the overflow is flushed but the record not entered again. *)
Enqueue_Once ==
    \/ /\ output_queue_offset + 1 <= OutputMax
       /\ output_queue_alloc' = Grown
       /\ output_queue_offset' = output_queue_offset + 1
       /\ unwritten' = unwritten + 1
    \/ /\ output_queue_offset + 1 > OutputMax
       /\ unwritten' = unwritten - output_queue_offset + 1
       /\ output_queue_offset' = 0
       /\ UNCHANGED output_queue_alloc

(* output_flow_enqueue; when the queue is full, or cannot be made larger,  *)
(* output_flow_flush and once more.                                        *)
Enqueue ==
    \/ /\ output_queue_offset + 1 <= OutputMax
       /\ output_queue_alloc' = Grown
       /\ output_queue_offset' = output_queue_offset + 1
       /\ unwritten' = unwritten + 1
    \/ /\ \/ output_queue_offset + 1 > OutputMax
          \/ output_queue_alloc > 0 /\ Grown > output_queue_alloc
       /\ unwritten' = unwritten - output_queue_offset + 1
       /\ output_queue_offset' = 1
       /\ UNCHANGED output_queue_alloc

(* Mutated form: the time of the first error outlives the errors.          *)
SendOk_KeepsTime ==
    /\ logsock_num_errors' = IF logsock_num_errors > 0 THEN logsock_num_errors - 1 ELSE 0
    /\ UNCHANGED logsock_first_error

(* send on the log socket succeeds, or there is no socket                  *)
SendOk ==
    /\ logsock_num_errors' = IF logsock_num_errors > 0 THEN logsock_num_errors - 1 ELSE 0
    /\ logsock_first_error' = (logsock_first_error /\ logsock_num_errors' # 0)

(* send fails; ENOBUFS is not counted                                      *)
SendFails ==
    /\ log_socket
    /\ \/ /\ logsock_num_errors' = logsock_num_errors + 1
          /\ logsock_first_error' = TRUE
       \/ UNCHANGED sockVars

(* process_flow for a flow the filter accepts                              *)
StoreFlow ==
    /\ pc = "process"
    /\ todo > 0
    /\ todo' = todo - 1
    /\ IF log_fd THEN Enqueue ELSE UNCHANGED outVars
    /\ SendOk \/ SendFails
    /\ UNCHANGED <<pc, flagVars, conf, peerVars, logVars, batch, input_queue,
                   received, envVars, histVars>>

(* process_flow for a flow the filter discards                             *)
DiscardFlow ==
    /\ pc = "process"
    /\ todo > 0
    /\ todo' = todo - 1
    /\ UNCHANGED <<pc, flagVars, conf, peerVars, outVars, sockVars, logVars, batch,
                   input_queue, received, envVars, histVars>>

ProcessDone ==
    /\ pc = "process"
    /\ todo = 0
    /\ input_queue = <<>>
    /\ pc' = "flush"
    /\ UNCHANGED <<flagVars, conf, peerVars, outVars, sockVars, logVars, inVars,
                   envVars, histVars>>

(* output_flow_flush at the end of the round                               *)
Flush ==
    /\ pc = "flush"
    /\ IF log_fd
       THEN unwritten' = unwritten - output_queue_offset /\ output_queue_offset' = 0
       ELSE UNCHANGED <<unwritten, output_queue_offset>>
    /\ pc' = "top"
    /\ UNCHANGED <<flagVars, conf, peerVars, output_queue_alloc, sockVars, logVars,
                   inVars, envVars, histVars>>

(* logerrx: store_put_buf fails, here or in the overflow of Enqueue, or    *)
(* the output queue cannot be allocated                                    *)
WriteFails ==
    /\ log_fd
    /\ \/ pc = "flush" /\ output_queue_offset > 0
       \/ pc = "process" /\ todo > 0
          /\ (output_queue_offset > 0 \/ output_queue_alloc = 0)
    /\ pc' = "died"
    /\ UNCHANGED <<flagVars, conf, peerVars, outVars, sockVars, logVars, inVars,
                   envVars, histVars>>

Main ==
    \/ MainExit \/ MainTop \/ LogsockReopen \/ ReopenTest \/ ReopenClear
    \/ Reconfigure \/ ReconfigureClear \/ NoReconfigure \/ OpenLogs
    \/ SetupFails \/ ReceiveDone \/ ProcessPacket \/ StoreFlow \/ DiscardFlow
    \/ ProcessDone \/ Flush \/ WriteFails

-----------------------------------------------------------------------------
(* Signals and the environment *)

(* A signal that arrives in poll ends it with EINTR.                       *)
Signal ==
    /\ Running
    /\ signals < MaxSignals
    /\ signals' = signals + 1
    /\ pc' = IF pc = "poll" THEN "top" ELSE pc
    /\ UNCHANGED <<conf, peerVars, outVars, sockVars, logVars, inVars, file>>

(* A signal that arrives in its round after the test of its flag and       *)
(* before poll has to wait for the next datagram or signal, and a SIGHUP   *)
(* between client_reconfigure and reconf_flag = 0 is forgotten: the        *)
(* history variables note the others.                                      *)

sighand_exit ==
    /\ Signal
    /\ exit_flag' = TRUE
    /\ leaving' = (leaving \/ pc \notin {"reopen", "close", "reconf", "reread", "open"})
    /\ UNCHANGED <<reconf_flag, reopen_flag, stale, rotate>>

Rotates == rotate' = (rotate \/ pc \notin {"reconf", "reread", "open"})

(* Mutated form: the flag is not set.                                      *)
sighand_reconf_ReopenOnly ==
    /\ Signal
    /\ reopen_flag' = TRUE
    /\ stale' = (stale \/ pc \notin {"reread", "open"})
    /\ Rotates
    /\ UNCHANGED <<exit_flag, reconf_flag, leaving>>

sighand_reconf ==
    /\ Signal
    /\ reconf_flag' = TRUE
    /\ reopen_flag' = TRUE
    /\ stale' = (stale \/ pc \notin {"reread", "open"})
    /\ Rotates
    /\ UNCHANGED <<exit_flag, leaving>>

sighand_reopen ==
    /\ Signal
    /\ reopen_flag' = TRUE
    /\ Rotates
    /\ UNCHANGED <<exit_flag, reconf_flag, stale, leaving>>

(* The administrator edits the file; bound: one edit that is not in use.   *)
EditConfig ==
    /\ Running
    /\ file = conf
    /\ file' \in Configs \ {file}
    /\ UNCHANGED <<pc, flagVars, conf, peerVars, outVars, sockVars, logVars,
                   inVars, signals, histVars>>

Next ==
    \/ Main
    \/ PollReady \/ PollMonitorClosed
    \/ \E d \in Datagrams :
        ReceiveUnsupported(d) \/ ReceiveUnauthorised(d) \/ ReceivePacket(d)
    \/ sighand_exit \/ sighand_reconf \/ sighand_reopen
    \/ EditConfig

Spec == Init /\ [][Next]_vars

(* The process runs whenever it does not sleep in poll; nothing is assumed *)
(* about datagrams and signals.                                            *)
FairSpec == Spec /\ WF_vars(Main)

-----------------------------------------------------------------------------
(* Properties *)

(* Whatever evictions and reconfigurations came in which order, the table  *)
(* of peers is within max_peers, the counter that new_peer, delete_peer    *)
(* and scrub_peers keep is its size, no source is in it twice, flowd keeps *)
(* state for allowed devices only, and a datagram finds its source gone    *)
(* ("was expired between reception and processing") only when the table is *)
(* full: scrub_peers never hits a source with a datagram in input_queue.   *)
PeersExact ==
    /\ num_peers = Len(peer_list)
    /\ num_peers <= MaxPeers
    /\ IsInjective(peer_list)
    /\ \A s \in Range(peer_list) : Authorised(s)
    /\ \A i \in 1 .. Len(input_queue) :
          input_queue[i].src \notin Range(peer_list) => num_peers = MaxPeers

(* Every record accepted for the log is written or in output_queue, and    *)
(* output_queue is empty whenever the log may be closed or left: rotating  *)
(* the log and exiting lose none.  The queue never runs over its           *)
(* allocation, though it doubles, is flushed when full and starts again.   *)
RecordsWritten ==
    /\ unwritten = output_queue_offset
    /\ pc \notin {"process", "flush", "died"} => output_queue_offset = 0
    /\ output_queue_offset <= output_queue_alloc
    /\ output_queue_alloc <= OutputMax

(* logsock_first_error is set exactly while errors are counted, so that    *)
(* the delay before a reopen starts with the first of them.                *)
LogsockClock == logsock_first_error <=> logsock_num_errors > 0

(* flowd.8: a SIGHUP has the configuration read again, SIGHUP and SIGUSR1  *)
(* have the log opened again, and SIGTERM ends flowd without a further     *)
(* datagram, wherever in the loop they arrive but in the gaps that the     *)
(* handlers' comment names.                                                *)
SignalsHonoured ==
    /\ stale ~> (~stale \/ ~Running)
    /\ rotate ~> (~rotate \/ ~log_fd \/ ~Running)
    /\ leaving ~> ~Running

=============================================================================
