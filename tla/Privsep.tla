------------------------------- MODULE Privsep -------------------------------
(* flowd's two processes and the socket between them (privsep.c,            *)
(* privsep_fdpass.c): the privileged monitor opens the log and the          *)
(* listeners, reads the configuration through a third, short-lived process, *)
(* and relays signals; the unprivileged child runs flowd_mainloop.          *)
(* A configuration is its listening addresses, its multicast groups, its    *)
(* log file and its log socket, NoLog where it names none.  A listener is   *)
(* an address with the groups it has joined, and is closed when no process  *)
(* has a descriptor of it and none is on its way in the socket.             *)
(* The first flow starts two more threads in the child, Estimation and      *)
(* Compteur: they keep the process, and what it has open, after its main    *)
(* thread has left.                                                         *)
EXTENDS Integers, FiniteSets, Sequences

CONSTANTS
    Files,       \* what the configuration file may contain
    MaxEdits,    \* bound on the edits of the file
    MaxSignals,  \* bound on the signals sent to the monitor
    MaxKills     \* bound on the processes killed from outside

VARIABLES
    file,       \* contents of the configuration file
    edits, signals, kills,
    mpc,        \* where the monitor is
    mconf,      \* the monitor's configuration
    newconf,    \* the one that answer_reconfigure is about to adopt
    mfds,       \* listeners open in the monitor
    cpc,        \* where the child is
    cconf,      \* the child's configuration
    cfds,       \* listeners open in the child
    log_fd, log_socket,                 \* the log and the socket the child has open
    estimation, \* where the child's estimation thread is
    exit_flag, reconf_flag, reopen_flag,
    requests,   \* messages from the child to the monitor
    answers,    \* from the monitor to the child
    shut,       \* has the monitor shut the socket down
    term        \* has the monitor been sent SIGTERM

env == <<file, edits, signals, kills, term>>
monitor == <<mpc, mconf, newconf, mfds, shut>>
flags == <<exit_flag, reconf_flag, reopen_flag>>
child == <<cpc, cconf, cfds, log_fd, log_socket, estimation>>
socket == <<requests, answers>>
vars == <<env, monitor, child, flags, socket>>

NoLog == ""

Listeners(addrs, groups) == {[addr |-> a, groups |-> groups] : a \in addrs}
Addrs(fds) == {l.addr : l \in fds}

(* parse_config accepts the file.                                           *)
Accepts(f) ==
    /\ f.errors = 0
    /\ f.log_file # NoLog \/ f.log_socket # NoLog
    /\ f.listen_addrs # {}

(* The state after the fork of privsep_init: both processes have the        *)
(* listeners that main opened, and neither has set its signal handlers.     *)
Init ==
    /\ file \in {f \in Files : Accepts(f)}
    /\ edits = 0 /\ signals = 0 /\ kills = 0 /\ term = FALSE
    /\ mpc = "boot" /\ mconf = file /\ newconf = file
    /\ mfds = Listeners(file.listen_addrs, file.join_groups)
    /\ cpc = "boot" /\ cconf = file /\ cfds = mfds
    /\ log_fd = NoLog /\ log_socket = NoLog /\ estimation = "none"
    /\ exit_flag = 0 /\ reconf_flag = 0 /\ reopen_flag = 0
    /\ requests = <<>> /\ answers = <<>> /\ shut = FALSE

Ended(pc) == pc = "ended"
Closed == shut \/ Ended(mpc) \/ Ended(cpc)

(* exit of the whole process *)
ChildEnds ==
    /\ cpc' = "ended" /\ cfds' = {}
    /\ UNCHANGED <<cconf, log_fd, log_socket, estimation>>

(* The end of main: Emulation = 0 and pthread_exit, which ends the process  *)
(* if no other thread is left in it.                                        *)
MainEnds ==
    IF estimation = "none" THEN ChildEnds
    ELSE cpc' = "leaving" /\ UNCHANGED <<cconf, cfds, log_fd, log_socket, estimation>>

MonitorEnds == mpc' = "ended" /\ mfds' = {} /\ UNCHANGED <<mconf, newconf, shut>>

-----------------------------------------------------------------------------
(* The child.                                                               *)

ChildBoot ==
    /\ cpc = "boot" /\ cpc' = "top"
    /\ UNCHANGED <<env, monitor, cconf, cfds, log_fd, log_socket, estimation,
                   flags, socket>>

(* The test of flowd_mainloop's for.                                        *)
ChildExits ==
    /\ cpc = "top" /\ exit_flag # 0
    /\ MainEnds
    /\ UNCHANGED <<env, monitor, flags, socket>>

ChildReopens ==
    /\ cpc = "top" /\ exit_flag = 0
    /\ cpc' = "work"
    /\ IF reopen_flag = 1 /\ (log_fd # NoLog \/ log_socket # NoLog)
       THEN log_fd' = NoLog /\ log_socket' = NoLog /\ reopen_flag' = 0
       ELSE UNCHANGED <<log_fd, log_socket, reopen_flag>>
    /\ UNCHANGED <<env, monitor, cconf, cfds, estimation, exit_flag, reconf_flag, socket>>

(* The child asks; a write to a socket that is shut ends it.                *)
Ask(what, wait) ==
    /\ requests' = Append(requests, what)
    /\ cpc' = wait
    /\ UNCHANGED <<env, monitor, cconf, log_fd, log_socket, estimation, flags, answers>>

NeedsLog == log_fd = NoLog /\ cconf.log_file # NoLog
NeedsSocket == log_socket = NoLog /\ cconf.log_socket # NoLog

AskInVain ==
    /\ Closed
    /\ \/ cpc = "work" /\ reconf_flag = 1
       \/ cpc = "open" /\ (NeedsLog \/ NeedsSocket)
    /\ ChildEnds
    /\ UNCHANGED <<env, monitor, flags, socket>>

(* A wrong variant: the child keeps its listeners until the answer.         *)
client_reconfigure_late ==
    /\ cpc = "work" /\ reconf_flag = 1 /\ ~Closed
    /\ UNCHANGED cfds
    /\ Ask("RECONFIGURE", "reconf")

(* client_reconfigure: the child closes its listeners before it asks.       *)
client_reconfigure ==
    /\ cpc = "work" /\ reconf_flag = 1 /\ ~Closed
    /\ cfds' = {}
    /\ Ask("RECONFIGURE", "reconf")

NoReconfigure ==
    /\ cpc = "work" /\ reconf_flag = 0
    /\ cpc' = "open"
    /\ UNCHANGED <<env, monitor, cconf, cfds, log_fd, log_socket, estimation,
                   flags, socket>>

client_open_log ==
    /\ cpc = "open" /\ NeedsLog /\ ~Closed
    /\ UNCHANGED cfds
    /\ Ask("OPEN_LOG", "log")

client_open_socket ==
    /\ cpc = "open" /\ ~NeedsLog /\ NeedsSocket /\ ~Closed
    /\ UNCHANGED cfds
    /\ Ask("OPEN_SOCKET", "socket")

ChildPolls ==
    /\ cpc = "open" /\ ~NeedsLog /\ ~NeedsSocket
    /\ cpc' = "poll"
    /\ UNCHANGED <<env, monitor, cconf, cfds, log_fd, log_socket, estimation,
                   flags, socket>>

(* The answer to client_open_log or client_open_socket: a descriptor.       *)
receive_fd ==
    /\ cpc \in {"log", "socket"} /\ answers # <<>>
    /\ log_fd' = IF cpc = "log" THEN Head(answers).open ELSE log_fd
    /\ log_socket' = IF cpc = "socket" THEN Head(answers).open ELSE log_socket
    /\ answers' = Tail(answers) /\ cpc' = "open"
    /\ UNCHANGED <<env, monitor, cconf, cfds, estimation, flags, requests>>

(* The answer to client_reconfigure: 0, or the configuration and its        *)
(* listeners; only then is reconf_flag cleared.                             *)
recv_config ==
    /\ cpc = "reconf" /\ answers # <<>>
    /\ IF Head(answers).ok = 0
       THEN ChildEnds /\ UNCHANGED reconf_flag
       ELSE /\ cconf' = Head(answers).conf /\ cfds' = Head(answers).fds
            /\ reconf_flag' = 0 /\ cpc' = "open"
            /\ UNCHANGED <<log_fd, log_socket, estimation>>
    /\ answers' = Tail(answers)
    /\ UNCHANGED <<env, monitor, exit_flag, reopen_flag, requests>>

(* The child reads the end of the socket, instead of an answer or in poll.  *)
ChildHangup ==
    /\ cpc \in {"log", "socket", "reconf", "poll"} /\ answers = <<>>
    /\ shut \/ Ended(mpc)
    /\ IF cpc = "poll" THEN MainEnds ELSE ChildEnds
    /\ UNCHANGED <<env, monitor, flags, socket>>

(* A datagram wakes poll; the monitor's socket is looked at first.  A flow  *)
(* in it starts the other threads, if it is the first.                      *)
ChildWakes ==
    /\ cpc = "poll" /\ cpc' = "top"
    /\ ~(shut \/ Ended(mpc))
    /\ estimation' \in {estimation, IF estimation = "none" THEN "idle" ELSE estimation}
    /\ UNCHANGED <<env, monitor, cconf, cfds, log_fd, log_socket, flags, socket>>

(* The estimation thread tests Emulation and begins a round, in which it    *)
(* asks NSP for paths and sends it rates.                                   *)
EstimationStarts ==
    /\ estimation = "idle" /\ cpc \notin {"leaving", "ended"}
    /\ estimation' = "round"
    /\ UNCHANGED <<env, monitor, cpc, cconf, cfds, log_fd, log_socket, flags, socket>>

(* The round is over, or SendControlPacket has ended the process because it *)
(* got no socket.  It reads NSP's answers without a timeout: it may as well *)
(* never be over.                                                           *)
EstimationDone ==
    /\ estimation = "round" /\ ~Ended(cpc)
    /\ \/ /\ estimation' = "idle"
          /\ UNCHANGED <<cpc, cconf, cfds, log_fd, log_socket>>
       \/ ChildEnds
    /\ UNCHANGED <<env, monitor, flags, socket>>

(* Estimation and Compteur find Emulation = 0: the last thread is gone.     *)
ThreadsEnd ==
    /\ cpc = "leaving" /\ estimation = "idle"
    /\ ChildEnds
    /\ UNCHANGED <<env, monitor, flags, socket>>

Child ==
    \/ ChildBoot \/ ChildExits \/ ChildReopens \/ AskInVain
    \/ client_reconfigure \/ NoReconfigure
    \/ client_open_log \/ client_open_socket \/ ChildPolls
    \/ receive_fd \/ recv_config \/ ChildHangup \/ ThreadsEnd

-----------------------------------------------------------------------------
(* The monitor.                                                             *)

(* The parent's side of privsep_init: it closes its copies of the listeners *)
(* and sets its signal handlers.                                            *)
MonitorBoot ==
    /\ mpc = "boot" /\ mpc' = "read" /\ mfds' = {}
    /\ UNCHANGED <<env, mconf, newconf, shut, child, flags, socket>>

(* An answer of the monitor, after which it goes on at pc; a write to a     *)
(* socket that is shut ends it.                                             *)
Answer(answer, pc) ==
    IF Closed THEN MonitorEnds /\ UNCHANGED answers
    ELSE /\ answers' = Append(answers, answer) /\ mpc' = pc
         /\ UNCHANGED <<mconf, newconf, mfds, shut>>

(* answer_open_log and answer_open_socket: the monitor exits when the       *)
(* configuration names none, or when it cannot be opened.                   *)
AnswerOpen(what, name) ==
    /\ mpc = "read" /\ requests # <<>> /\ Head(requests) = what
    /\ requests' = Tail(requests)
    /\ \/ name # NoLog /\ Answer([ok |-> 1, open |-> name], "read")
       \/ MonitorEnds /\ UNCHANGED answers
    /\ UNCHANGED <<env, child, flags>>

answer_open_log == AnswerOpen("OPEN_LOG", mconf.log_file)
answer_open_socket == AnswerOpen("OPEN_SOCKET", mconf.log_socket)

answer_reconfigure ==
    /\ mpc = "read" /\ requests # <<>> /\ Head(requests) = "RECONFIGURE"
    /\ requests' = Tail(requests)
    /\ mpc' = "config"
    /\ UNCHANGED <<env, mconf, newconf, mfds, shut, child, flags, answers>>

(* child_get_config: a process of its own reads and parses the file, and    *)
(* sends what it found to the monitor.                                      *)
child_get_config ==
    /\ mpc = "config"
    /\ \/ Accepts(file) /\ newconf' = file /\ mpc' = "listen"
       \/ UNCHANGED newconf /\ mpc' = "refuse"
    /\ UNCHANGED <<env, mconf, mfds, shut, child, flags, socket>>

(* Listeners whose descriptor is in the socket.                             *)
InFlight == UNION {a.fds : a \in {answers[i] : i \in
                {k \in 1 .. Len(answers) : "fds" \in DOMAIN answers[k]}}}

(* open_listener for each address.  It fails when the address is in use, by *)
(* flowd itself or by another program.  The groups joined are those of the  *)
(* old configuration.                                                       *)
open_listener ==
    /\ mpc = "listen"
    /\ \/ /\ newconf.listen_addrs \cap Addrs(mfds \cup cfds \cup InFlight) = {}
          /\ mfds' = Listeners(newconf.listen_addrs, mconf.join_groups)
          /\ mpc' = "accept"
       \/ UNCHANGED mfds /\ mpc' = "refuse"
    /\ UNCHANGED <<env, mconf, newconf, shut, child, flags, socket>>

(* The monitor answers 0, and exits.                                        *)
Refuse ==
    /\ mpc = "refuse"
    /\ answers' = IF Closed THEN answers ELSE Append(answers, [ok |-> 0])
    /\ MonitorEnds
    /\ UNCHANGED <<env, child, flags, requests>>

send_config ==
    /\ mpc = "accept"
    /\ Answer([ok |-> 1, conf |-> newconf, fds |-> mfds], "adopt")
    /\ UNCHANGED <<env, child, flags, requests>>

(* A wrong variant: the monitor keeps its configuration.                    *)
replace_conf_not ==
    /\ mpc = "adopt" /\ mpc' = "read"
    /\ mfds' = {}
    /\ UNCHANGED <<env, mconf, newconf, shut, child, flags, socket>>

(* The monitor closes its copies and adopts the configuration.              *)
replace_conf ==
    /\ mpc = "adopt" /\ mpc' = "read"
    /\ mfds' = {} /\ mconf' = newconf
    /\ UNCHANGED <<env, newconf, shut, child, flags, socket>>

(* privsep_master reads the end of the socket, or finds that the child has  *)
(* exited.                                                                  *)
MonitorExits ==
    /\ mpc = "read"
    /\ Ended(cpc) \/ (shut /\ requests = <<>>)
    /\ MonitorEnds
    /\ UNCHANGED <<env, child, flags, socket>>

Monitor ==
    \/ MonitorBoot \/ answer_open_log \/ answer_open_socket
    \/ answer_reconfigure \/ child_get_config \/ open_listener
    \/ Refuse \/ send_config \/ replace_conf \/ MonitorExits

-----------------------------------------------------------------------------
(* Signals to the monitor.  Their handlers interrupt it anywhere; before it *)
(* has set them they end it, and the same goes for the child.               *)

(* The child takes a signal that sets the given flags; poll is interrupted. *)
ChildTakes(flag) ==
    IF cpc = "boot" THEN ChildEnds /\ UNCHANGED flags
    ELSE /\ cpc' = IF cpc = "poll" THEN "top" ELSE cpc
         /\ exit_flag' = IF "exit" \in flag THEN 1 ELSE exit_flag
         /\ reconf_flag' = IF "reconf" \in flag THEN 1 ELSE reconf_flag
         /\ reopen_flag' = IF "reopen" \in flag THEN 1 ELSE reopen_flag
         /\ UNCHANGED <<cconf, cfds, log_fd, log_socket, estimation>>

Sent(isTerm) ==
    /\ signals < MaxSignals /\ signals' = signals + 1
    /\ term' = (term \/ isTerm)
    /\ UNCHANGED <<file, edits, kills, socket>>

SignalEarly ==
    /\ mpc = "boot"
    /\ MonitorEnds
    /\ \E isTerm \in BOOLEAN : Sent(isTerm)
    /\ UNCHANGED <<child, flags>>

(* A wrong variant: the signal is passed on but the socket is left alone.   *)
sighand_exit_kill ==
    /\ mpc \notin {"boot", "ended"}
    /\ ChildTakes({"exit"})
    /\ Sent(TRUE)
    /\ UNCHANGED monitor

(* SIGTERM: the socket is shut down, which also wakes a child that has      *)
(* tested exit_flag but not yet called poll, and the signal is passed on.   *)
sighand_exit ==
    /\ mpc \notin {"boot", "ended"}
    /\ shut' = TRUE
    /\ ChildTakes({"exit"})
    /\ Sent(TRUE)
    /\ UNCHANGED <<mpc, mconf, newconf, mfds>>

(* SIGHUP and SIGUSR1.                                                      *)
sighand_relay ==
    /\ mpc \notin {"boot", "ended"}
    /\ ChildTakes({"reconf", "reopen"}) \/ ChildTakes({"reopen"})
    /\ Sent(FALSE)
    /\ UNCHANGED monitor

EditFile ==
    /\ edits < MaxEdits /\ edits' = edits + 1
    /\ file' \in Files \ {file}
    /\ UNCHANGED <<signals, kills, term, monitor, child, flags, socket>>

Kill ==
    /\ kills < MaxKills /\ kills' = kills + 1
    /\ \/ ~Ended(mpc) /\ MonitorEnds /\ UNCHANGED child
       \/ ~Ended(cpc) /\ ChildEnds /\ UNCHANGED monitor
    /\ UNCHANGED <<file, edits, signals, term, flags, socket>>

Next ==
    \/ Child \/ ChildWakes \/ EstimationStarts \/ EstimationDone \/ Monitor
    \/ SignalEarly \/ sighand_exit \/ sighand_relay \/ EditFile \/ Kill

(* Each process that can take a step takes one; nothing is assumed of       *)
(* datagrams, signals, edits and kills, nor of NSP's answers to a round of  *)
(* the estimation.                                                          *)
Spec == Init /\ [][Next]_vars /\ WF_vars(Child) /\ WF_vars(Monitor)

-----------------------------------------------------------------------------
(* When the monitor reads a request it has the configuration of the child   *)
(* that sent it, so that the log it opens is the one the child means and it *)
(* never meets "attempt to open NULL log"; a child that waits for datagrams *)
(* has the listeners of its configuration and a log for each it names, and  *)
(* these are the logs of this very configuration but for the one pass of    *)
(* flowd_mainloop that a SIGHUP after the test of reopen_flag leads to,     *)
(* with the flag still set.                                                 *)
ConfigAgreed ==
    /\ (mpc = "read" /\ requests # <<>> /\ ~Ended(cpc)) => mconf = cconf
    /\ cpc = "poll" =>
          /\ Addrs(cfds) = cconf.listen_addrs
          /\ ~NeedsLog /\ ~NeedsSocket
          /\ reopen_flag = 0 => log_fd = cconf.log_file /\ log_socket = cconf.log_socket

(* flowd never stands in its own way: when answer_reconfigure binds the new *)
(* listeners no process of flowd holds one of their addresses, though the   *)
(* descriptors of the old ones were shared between the processes.           *)
BindFree ==
    mpc = "listen" =>
        newconf.listen_addrs \cap Addrs(mfds \cup cfds \cup InFlight) = {}

(* What may keep the child's process after its main thread has ended: a     *)
(* round of the estimation that waits for NSP.                              *)
Lingers == cpc = "leaving" /\ estimation = "round"

(* Neither process outlives the other, and SIGTERM ends both, wherever they *)
(* were; only a child whose estimation waits for NSP for ever stays, and    *)
(* the monitor has ended then all the same.                                 *)
NoneLeftBehind ==
    (term \/ Ended(mpc) \/ Ended(cpc)) ~> (Ended(mpc) /\ (Ended(cpc) \/ []Lingers))

=============================================================================
