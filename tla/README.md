# A TLA+ model of MonLab (NSP, softflowd, flowd)

The repository is a network monitoring emulation framework. It has three
programs:

    NSP  --reports of emulated packets (UDP)-->  softflowd  --NetFlow (UDP)-->  flowd
     ^                                                                            |
     '----------------- sampling rates, paths (TCP) ------------------------------'

* **NSP** (C++) plays traffic traces through an emulated network of ASes and
  routers, samples packets at every monitored interface, and reports the sampled
  ones to softflowd.
* **softflowd** (C, extended from the original) turns packets, its own captures
  or the reports of NSP, into flows, keeps them in a table, and exports expired
  ones as NetFlow datagrams. It can sample by itself; a control server changes
  the rates.
* **flowd** (C, extended) collects NetFlow datagrams, filters and logs the flows,
  estimates the traffic from them, and sends new sampling rates back.

## Inventory

| component | state | operations | what is hard |
|---|---|---|---|
| sampling (`softflowd/SamplingModule.c`, twin in `NSP/Router.cpp`) | list of nodes; per node rate P1/P2, axis, random table, semaphore | decide a packet, change a rate, add a node | three critical sections per decision, a list walked without a lock, a rate that changes within a window |
| flow table (`softflowd/softflowd.c`, `EmulatorInterface.c`) | tree of flows, tree of expiry events, counters, per-monitor statistics | packet, timed, forced and total expiry, delete-all | marks inside `expires_at`, failed allocations, a full table, three modes |
| threads and shutdown (`softflowd.c`, `EmulatorInterface.c`, `ControlServer.c`) | `flow_expiry_sem`, `end_msg`, stop flags | rounds of main, emulator thread, "end", signal handler | flags that are read again between wait and post, a handler that takes a semaphore |
| NetFlow export (`netflow1/5/9.c`) | datagram being filled, sequence and template counters | send the expired flows | packing limits, failed sends, one call per monitor |
| collector, peers (`flowd/flowd.c`, `peer.c`) | flags, peers, input and output queue, log, log socket | receive, process, flush, reopen, reconfigure | signals at any point, eviction between reception and processing, a queue at its limit, UDP |
| store (`flowd/store.c`) | log file | append, read back | short writes, crashes, checksums |
| privilege separation (`flowd/privsep.c`, `privsep_fdpass.c`) | two processes, descriptors, configuration on both sides | open log, reconfigure, relay signals | descriptors in flight, binding while old listeners are open, either process dying |
| configuration, filter (`flowd/parse.y`, `filter.c`, `addr.c`) | macros, rules | parse, match a flow | optional parts, negations, macros, rule order |
| estimation, rate control (`flowd/GlobalEstimation.c`, `ClientController.c`) | lists of records per pair of ASes, counters, rates | append a record, estimate, reconfigure, free | three threads with one semaphore, used for half of the accesses; a monitor that does not answer |
| NSP control server (`SamplingManager.cpp`) | one connection at a time | rate request, path request | clients that die, nodes that packets make meanwhile |
| play-back (`SamplingPlatform.cpp`, `TraficLoader.cpp`, `SoftflowdInterface.cpp`) | time axis, matrix of packets, buffer of reports | load, dispatch, route, report | three threads, two semaphores, time stamps out of order |
| routing (`TransitNetwork.cpp`, `Router.cpp`) | cost and predecessor tables | explore, forward, answer a path | tables changed while they are read |
| wire format (`TraficLoader.cpp`, `SoftflowdInterface.cpp`, `EmulatorInterface.c`) | none | decode, print, parse | separators, raw bytes, byte order, fragments |

What makes them correct: every packet is decided and counted once; tables stay
in their bounds and their counters exact; flows are neither expired early nor
forgotten; records accepted for the log are written and read back; signals and
"end" stop the programs; the rates and paths flowd estimates with are those of
the monitors.

The hazards, each with its line and the properties that would catch it, are
listed in `PROJECT.json`.

## Modules

| module | models | instance |
|---|---|---|
| `Sampling` | `SamplingModule.c`, requests of `ControlServer.c`, and the sampling of `Router.cpp` (`Distinct = TRUE`) | `MCSampling`, `EmulatorProofs` |
| `FlowTrack` | the flow table and the loop of main that expires flows | `MCFlowTrack`, `FlowTrackProofs` |
| `Softflowd` | the threads of softflowd, their semaphores, the end of the emulation and signals | `MCSoftflowd`, itself (`softflowd_signal`), `SoftflowdProofs` |
| `Export` | `netflow1/5/9.c`, UDP, decoding, filtering and storing in flowd, the log across crashes, the reader | `MCSoftflowd`, `SoftflowdProofs` |
| `Collector` | flowd's main loop, peers, queues, log socket and signals | `MCCollector`, `CollectorProofs` |
| `Privsep` | flowd's monitor, its child and the parser process | `MCText`, `PrivsepProofs` |
| `Feedback` | `Add_flow`, the estimation and counter threads, rate requests and the nodes of NSP they reach | `MCFeedback`, `FeedbackProofs` |
| `Routing` | `ExploreGraph`, hop by hop forwarding, the monitored interfaces, the path flowd is told | `MCNsp`, `NspProofs` |
| `ReportQueue` | abstract: what softflowd is promised of the reports | (property of `Playback`) |
| `Playback` | loader, sender and interface threads of NSP | `MCNsp`, `NspProofs` |
| `Manager` | NSP's control server and its clients | `MCFeedback` |
| `Wire` | a frame's way through NSP and the text of a report to a flow | `MCText`, `EmulatorProofs` |
| `Config` | flowd.conf: words, grammar, rules, filter, addresses | `MCText` |
| `Induction` | no code: induction over numbers and finite sets, recursive functions and sums, for the proofs | (lemmas) |

Every action that stands for code names the function in its comment or carries
its name; `PROJECT.json` maps each definition to its lines. Definitions that a
comment calls a mutated form or a wrong variant (`Draws_OneMore`, `FullLate`) are
plausible mistakes in the definition that follows them, and show that a property
would notice. They are not part of any specification.

### Sampling

The packet thread (`RandomPeriodicNodeSampling`) and the control thread
(`HandleTCPClient`, `FindSamplingNode`, `ChangeSamplingRateInNode`) run
concurrently. A critical section under a node's semaphore is one step; the three
sections of a decision are three steps. `AddNode` stores the address of the new
node before its fields, so adding is three steps, and the control thread may
meet a node in between (`FindHalfBuilt`, undefined behaviour: afterwards `ub` is
set and nothing is claimed). `Draws` is the set of random tables: with
replacement in softflowd, without in NSP.

### FlowTrack

A flow is a member of `Keys`, a packet a record with its flow, direction,
length, TCP flag and reporting monitor. `expiries` are the flows with an expiry
event, `orphans` those whose event could not be allocated. `check_expired`,
`force_expire` and `process_*` are one step each: in the emulator mode main and
the emulator thread exclude each other by `flow_expiry_sem` (see `Softflowd`),
in the other modes there is one thread. In these modes no round gets as far as
`check_expired`: main evaluates `GetStopsEmulatorThread` first (`softflowd.c:2215`,
`2217`), which waits for ever (`status = "hung"`), as the run `flowtrack_file`
shows. Allocations of a flow, of its expiry event and of the array of expired
flows may fail.

### Softflowd

The table is abstracted to the number of its flows and of the marked ones.
`GetStopsEmulatorThread` is two steps, because a signal may interrupt a thread
between them. The handler runs on top of the thread it interrupts (`host`),
which stands still meanwhile.

### Export

A call of a sender is one step: it packs the batch that `check_expired` gives it
into datagrams, some of whose sends fail. `net` holds what was sent and not lost;
receiving may leave a datagram there (a duplicate) and takes any (reordering).
flowd decodes a datagram, filters record by record, queues and flushes; a write
may be short and is undone, may be short and leave a part of its records behind
(a pipe, or a failing `lseek` or `ftruncate`: `store.c:471`-`478`), or flowd is
killed in the middle of it and started again on the same log. The log is a sequence of words of a header or record;
`Reader` is what flowd-reader makes of them. The rules match agent, source and
destination, with negations, quick rules and tags; the other criteria are in
`Config`. A net is any address with any mask: the grammar refuses one with host
bits (`parse.y:268`) unless it is one quoted word, and such a net then holds no
address.

### Collector

One round of `flowd_mainloop` is cut at every test of a flag and at poll, where
signals may arrive, and at every datagram and flow. Listening sockets are taken
together. The length of a record is the unit of the output queue. History
variables note, for each kind of signal, whether one is still to be honoured.

### Privsep

Both processes are sequences of steps cut at every read, write and system call
that another process can see. A descriptor is in the monitor, in the child or in
flight; a listener is closed when none of the three has it. Signals, edits of the
configuration file and a kill of either process may come at any step. The first
flow starts the estimation threads in the child; when its main thread ends with
`pthread_exit` (`flowd.c:1680`) the process and its descriptors stay until these
threads have seen `Emulation = 0`, which one that waits for NSP never does
(`Lingers`).

### Feedback

A list of records is a sequence of records with their mark; `picEnd` is the
position of `PicFlow_End`. The collector's `Add_flow` holds `semFlows` and is two
steps (link, count), since the estimation reads the lists without it. A rate is
multiplied or divided by the step and kept within its limits, as in the code;
which monitors the estimates single out to be lowered is nondeterministic. A
request may fail before or after the monitor has executed it, it ends the process
when there is no socket (`ClientController.c:70`), and since its `read` has no
timeout it may wait for ever (`est = "hung"`).

### Routing

Every labelled network of `N` routers is an initial state, so the order of the
pointers in `std::map` is covered. `ExploreGraph` keeps the predecessor that was
inserted first (`insert` does not replace): `Fresh` is the set of tables in which
none went stale. `Back` follows the predecessors back from a destination, as
`GetNextRouterToward` does. `Monitored` says which interfaces of the monitors are
sampled in which direction (`GetInterfaceMonitoringStatus`). The reference for the costs is `WalkCosts`: the least
cost of a walk of at most n links, which knows no visited routers.

### Playback and ReportQueue

The three threads hand packets over through `sendingSem` and `semListPackets`; a
thread that throws leaves its semaphore taken. `pcap_dispatch` returns 0 when it
meets the end of a file, also after it has delivered packets. When the last
dispatch leaves a slot or more to play and the loader has ended before it is
played out, main stops the control server and the interface thread, which sends
"end" last, and NSP leaves; a draw of an AS may fail, which drops the packet. The list of pairs of ASs
(`lAsCouples`), the packets a trace may have and the interfaces on a route are
constants. `Scan` is the walk along the list of one pair, `Batch` the walk along
all of them. `ReportQueue` is the promise to softflowd: reports are about packets
that were loaded, name a monitored interface, arrive in order and once, and the
first of a packet is marked as such. `ImplementsReportQueue` is the refinement,
with `timeAxisSize` for the packets loaded, `buffer` and `wire` for the abstract
queue and its output.

### Manager

The server handles one connection after the other, the clients are instances of
flowd one after the other, each of which may die at any step and leave its
request in the backlog. Packets add sampling nodes meanwhile. "end" from a client,
or main at its own end, sets `StopsControlServer`, which the server tests before it
accepts and after it has served; an `accept` that fails ends the thread with the
listening socket open. That both threads walk one list of nodes is in `Sampling`.

### Wire

A report is a sequence of tokens with separators; a TCP flag byte is appended as
a character. The separators are found one after the other (`strchr`), so a byte
that happens to be one shifts the parts behind it. The reference is what
`ipv4_to_flowrec` and `transport_to_flowrec` make of the same frame when softflowd
captures it itself. `FlowAsCaptured` compares which packets are gathered in one
flow, its addresses and its counts, and not the values of the ports: the run
`text_ports` shows that these are swapped.

The text has no length here. In the code it has: NSP prints the second, ten
digits of it, and each port into `char tmp[10]` (`SoftflowdInterface.cpp:77`,
`110`), and softflowd copies a report into `char tmpPacket[100]`
(`EmulatorInterface.c:155`, `677`, `810`). What happens when they do not fit is
outside the model.

### Config

A line is a sequence of words; the actions of the grammar are operators on the
configuration so far. The map gives their lines in `parse.c`, the translation of
`parse.y` that is in the repository and that flowd is compiled from: its `#line`
marks name the lines of `parse.y`. The reference (`Says`, `Verdict`) reads a line
by the position of its words, without grammar or rule structures. Three kinds of
lines that `flowd.conf.5` documents are refused by the parser (constant `Refused`):
`ConfigAsWritten` expects of them that they are, and the run `text_documented`
shows the disagreement. "After" and "before" mean what they say, and the flows of
the very second a rule names, of which the manual says nothing, are left out
(`OnTheSecond`).

## Runs

| run | result | shows |
|---|---|---|
| `sampling` | holds | `TableReadInBounds`, `WindowQuota`: two monitors, rates of two window sizes and an invalid one |
| `sampling_live` | holds | `WindowExact`, `LockReleased`, `NobodyStuck` under the rates flowd sends (one P2) |
| `flowtrack` | holds | exact counters, bounds of table and lifetimes, packets counted once, empty table at the end, expiry neither early nor overdue in emulator mode (`ExpirySound`) |
| `flowtrack_file` | violated | a capture file is not processed: main hangs in its first round (`softflowd.8:135`) |
| `softflowd` | holds | `Softflowd`: exclusion in the table; "end" ends the process; a signal ends it except in two named situations. `Export`: every flow in one record, in order, within the limits; the log is what was decoded and ruled; crashes and failed writes, also those that leave part of a record, make a reader report nothing false |
| `softflowd_signal` | violated | the first of these: the handler waits for its own thread (`softflowd.8:323`) |
| `collector` | holds | peers, queues and log socket stay consistent; signals are honoured |
| `feedback` | holds | `Feedback`: no record is lost or estimated twice, an acknowledged rate is in force, everything is freed in the end unless NSP never answers. `Manager`: answers are given and stand, unless the server has been stopped or has died |
| `nsp` | holds | `Playback`: nothing passed over, replies reversed, the refinement, all played and NSP gone or less than a slot left. `Routing`: costs are exact; packets arrive where no predecessor is stale; they are offered to the monitored interfaces of the path flowd is told |
| `text` | holds | `Wire`: emulated packets gather in the flows a capture would have made, each counted once in its flow. `Config`: files are accepted, and flows decided, as the lines say. `Privsep`: both processes agree on the configuration, a polling child has the logs of its own, flowd never blocks its own bind, none is left behind but a child whose estimation waits for NSP |
| `text_ports` | violated | the ports of an emulated flow are not in network byte order (`softflowd.h:181`) |
| `text_documented` | violated | `days` alone, `after` alone and one address with `any` are refused (`flowd.conf.5:491`, `443`, `74`) |

`softflowd`, `nsp`, `feedback` and `text` check components that share no variable
in one run: the variable `part` says whose steps a behaviour takes. A property of
one component does not depend on steps of another, so this loses nothing.

### Bounds

* `sampling`: windows of up to three packets suffice for a rate change in the
  first, a middle and the last position; two monitors for a half built node
  behind another one.
* `flowtrack`: `MaxFlows = 2` with three flows forces evictions; four packets let
  a flow be opened, updated, expired and opened again; `MaxTime` exceeds every
  timeout; one failing allocation at any point; `OctetLimit = 3` stands for 2^31.
* `softflowd`, threads: two flows beyond `max_flows`; nothing else is bounded.
* `softflowd`, export: `MAXFLOWS = 3` (30 in the code) with batches that fill a datagram
  exactly, over and under; two-bit addresses; one duplicate, one crash.
* `collector`: three sources for two peers, three datagrams of up to three flows
  for an output queue of one record that grows once, two signals.
* `text`, processes: two edits, three signals, one kill.
* `feedback`, estimation: two couples, two monitors, three records with a threshold of two:
  a record can come before, during and after an estimation.
* `nsp`, routers: all networks of four routers with costs 1, 2 and 5, enough for a
  detour of three links that is cheaper than a direct one; one monitor samples some
  of its interfaces, the other all of them both ways.
* `feedback`, control server: two networks of three routers, two clients.
* `nsp`, playback: two ASes, five packets in two files with all orders of time
  stamps, a slot and a dispatch of two.
* `text`, reports: two frames of twelve kinds (one from a host to itself) past two
  monitors.
* `text`, configuration: files of up to three lines of 31 (20 right, 8 wrong, 3
  documented and refused), five flows, addresses of three and two bits.

Where the system may stop (a process that has ended, bounds that are used up),
the configuration says `CHECK_DEADLOCK FALSE`.

### Fairness

Threads and processes are scheduled by the system: `WF` of each one's own steps,
and nothing about the arrival of packets, records, requests, datagrams, signals,
edits or failures. In particular NSP need not answer flowd: a step of the
estimation that asks it may end in a wait for ever (`Feedback`), a round of it may
never be over (`Privsep`), and what is claimed is claimed for the other cases. In
`Softflowd` main asks for `end_msg` all the time; that a
thread which waits for the semaphore gets it in the end is `SF` of `EmuTake` and
`HandlerStop`. POSIX semaphores wake a waiter and Linux schedules it fairly;
`StopsOnRequest` depends on it. In `Manager` a client that is connected writes
its request unless it dies.

In `Collector` two kinds of signals are excluded from what is claimed, and
stated where they are: a signal between the test of its flag and poll waits for
the next datagram, and a SIGHUP between `client_reconfigure` and
`reconf_flag = 0` is forgotten.

## Proofs

| theorem | for all | argument |
|---|---|---|
| `EmulatorProofs!TypeCorrect`, `TableReadSafe` | monitors, rates | `IndInv`: between the second and third critical section the axis is 0 or lies inside the table, since only the packet thread moves it and a rate change does not touch the table |
| `EmulatorProofs!LockSafe` | rates with one common P2 not below the initial one (what flowd sends) | the axis stays below P2, so one of the branches that post is taken |
| `EmulatorProofs!QuotaCorrect`, `ExactCorrect` | monitors, rates, draws; `ExactCorrect` for the draw without replacement | `WindowInv`: `taken` is the number of ones of the table up to the axis, or in all of it when the axis is back at 0, and the table is a draw for the rate of the node, unless a change is pending; a change is pending whenever the packet thread is about to draw |
| `FlowTrackProofs!TypeCorrect`, `NumFlowsCorrect`, `LifetimeCorrect`, `EndExportsAllCorrect` | keys, packets, timeouts, `max_flows` | `Core`: `num_flows` is the cardinality of `expiries` (needed for its type already: it is only ever decremented by the size of a subset), and `flow_update_expiry` caps `expires_at` |
| `FlowTrackProofs!AccountsCorrect` | the same, and any failed allocations | `Accounts`: `FlowsAccounted` with the sum of the `expired_*` counters as a `Total`, which an expired batch raises by its size |
| `FlowTrackProofs!ConservationCorrect` | the same | `Conserved`: a flow has counts of monitors of the list only, and the counts of the tracked flows, summed, are what was reported and not exported; a packet changes one term, an expiry splits the sum |
| `FlowTrackProofs!ExpiryCorrect` | the same, in emulator mode | `Events`: unless it is one of the marks 0 and 1, an `expires_at` is what `flow_update_expiry` would compute for the record as it is *now*, and a mark 0 has a cause; flow numbers differ, so the tree has a first event and `next_expire` looks at it |
| `SoftflowdProofs!TypeCorrect`, `TableSafe` | `max_flows`, capacity | `SemaphoreOwned`: one owner at most, and main at "leave" is the owner whatever the flag; `FlagSetBy`: before the handler only an emulator thread that is on its way out sets the flag |
| `CollectorProofs!PeersCorrect` | sources, datagrams, `max_peers` | the lists of peers stay without repetition through insertion, move to the front, eviction and scrubbing (`KeptProperties`); a datagram is queued only between poll and its processing |
| `CollectorProofs!RecordsCorrect`, `ClockCorrect` | lengths of the output queue | `QueueInv`: the length of the queue is one that doubling reaches, and the limit is one too, so doubling until the record fits does not pass a limit that was tested before (`DoublingFits`); records are queued only while the log is open |
| `PrivsepProofs!ConfigCorrect`, `BindCorrect` | configurations, any number of edits, signals and kills | `OneAtATime`: at most one request or answer is between the processes; `ListenersHeld`: who holds descriptors of which generation at each point of a reconfiguration; `ConfigsMatch`; `LogsRight`: an open log is that of the child's configuration, or `reopen_flag` is set and it is about to be closed |
| `FeedbackProofs!NothingLostCorrect`, `OneResultCorrect` | couples, monitors, records, thresholds | `Counted`: `taille` is the sum of the lengths of the lists, less the record that is linked and not yet counted; the walk with its marks is shown to build the groups that the definition by sets has (`WalkGroup`, `ExactGroups`) |
| `FeedbackProofs!AckedRateCorrect` | rates, steps, limits | `AckInv`: a monitor that answered its last request has a sampling node, which a later packet therefore does not make anew, and that node has flowd's rate up to the digits that are sent |
| `NspProofs!SentCorrect` | traces, ASs, pairs in any order, slots | a packet that waits has its entry, with its time stamp, on what is left of the axis; the lists are in the order of the axis; so the packet of the current entry is the first of its list and the scan takes it |
| `NspProofs!ReplyCorrect` | the three methods | `KnownOnce`: no key is known to two ASs, but for that of a packet from an address to itself; a draw in vain (`DrawnInVain`) teaches at most the source |
| `NspProofs!QueueImplemented` | routes, bounds | `Marked`: of the packets that wait or are to be sent only the first to be sent can have a report, and it has one exactly when `forwardedToSoftflowd` is set; then each step is a step of `ReportQueue` or leaves its variables alone; `Stopped`: the interface thread ends only with an empty buffer that nobody fills any more, so leaving drops no report |
| `NspProofs!CostsCorrect` | connected networks of any size, costs | `AboveWalks`: a cost is not below that of a walk with at most one link more than routers were visited; `Settled`: no walk to a visited router is cheaper than its cost; `Followed`: the links of the visited routers have been applied. So the router that `Mini` picks is settled, and a walk with as many links as there are routers is never the cheaper one |
| `NspProofs!ReportsCorrect` | the same, and any monitored interfaces | `PrevInv`: the predecessors are routers, and a direct link that is a shortest path has none; `NextInv`: the tables that packets are forwarded by say what the predecessors say; `WayInv`: a packet is on the path flowd is told, at each router for the first time, or circles for ever and never arrives |
| `SoftflowdProofs!SendersExact` | batches, versions, `MAXFLOWS`, the size of a version 9 datagram, its template interval, failed sends | `Packed` and `Packed9`: after i flows the closed datagrams and the open one hold the records of exactly these flows in order, each within its limit; an empty open version 9 datagram has room for a flow with templates, so the retry ends; `Numbered`: sequence numbers count the records before, sent or not |
| `SoftflowdProofs!LogAlwaysReadable` | any number of crashes, short writes, undone or not, rules | `LogShape`: the log is whole records, or torn once, by a kill or by a write that could not be undone (`PartlyLog`), and then a reader is stuck or lost behind the tear and delivers nothing wrong: the words it waits for include a header, so their checksum fails |
| `SoftflowdProofs!StoredRuled` | rules and addresses of any width | `Found`: where `filter_flow` is after i rules is the rule that decides among them; `KeptInv`: without a crash, what is written and queued is what the decoded flows, each ruled, leave |
| `EmulatorProofs!CapturedCorrect` | capture files, paths, ASs, losses, expiries | `TextRead`: the text of a frame is read as what the frame said; `WireInd`: the counts of a flow are those of its packets (`FlowGood`), a TCP report that reads as the first of its packet is the first in the queue and its packet is in no flow (`Fresh`), and neither is a packet that is not marked yet (`HeldGood`); two flows of the table differ in their identity (`Apart`), and swapping the ports of two packets makes them neither more nor less alike (`SameFlow`) |

The induction theorems of the library take an operator, which the provers cannot
instantiate. `Induction` states induction with the set of the numbers (or of the
subsets of a finite set) that have a property, and derives from it that a
recursive function with values in a set exists and is typed (`RecursionExists`,
`RecursionTyped`), and that the sum `Total` of a function over a finite set does
not depend on the order and can be split (`TotalSplit`, `TotalChange`). Each
proof module brings its own recursive functions (`Kept` and `Doubled` of
`Collector`, `SumTo` and `Estimated` of `Feedback`, `Scan` and `Batch` of
`Playback`, `Back` and `WalkCosts` of `Routing`, the packing, the search among the
rules and the reader of `Export`, `Separators` of `Wire`) into that form.

The assumptions on the constants are the named `ASSUME`s of the modules; TLC
evaluates them on every run. They say of what kind a constant is, and beside that:

* the limit of flowd's output queue is the initial length doubled some number of
  times, as `flowd.c` demands (`CollectorAssumption`);
* the list of pairs has every pair of ASs once (`CouplesAssumption`), and no two
  ASs have the same class of addresses (`ClassAssumption`), as NSP builds them;
* a link costs at least 1 and is not dearer than what `Dijkstra` takes for no path
  (`CostsAssumption`);
* a version 9 datagram is a multiple of 4 bytes long and holds the templates and
  both directions of a flow; the longest record fits into flowd's output queue
  (`ExportAssumption`);
* an expired flow has octets in some direction, those of its first packet
  (`BatchesAssumption`);
* the fields of a captured frame have their widths, and the addresses NSP plays
  have an AS (`FramesAssumption`).

Two theorems have hypotheses: `LockSafe` has `FlowdRegime`, the rates that flowd
sends, and `ExactCorrect` has `Distinct`, the draw of NSP.

Only model-checked:

* liveness (`NobodyStuck`, `StopsOnRequest`, `SignalsHonoured`, `AllFreed`,
  `NoneLeftBehind`, `FreshDelivers`, `TailBelowSlot`, `AnswersStand`), because
  fairness and ENABLED are out of the prover's reach;
* `ConfigAsWritten`: `Config` masks addresses with `Bitwise`, which no proof can
  reach, and which lines are wrong is given by the instance, line by line.

## What the models show of the code

Behaviours met while modelling, which the properties above name as exceptions or
leave out, with the lines where they are:

* **Sampling.** A rate change to a smaller P2 inside a window leads past every
  branch of `RandomPeriodicNodeSampling` (`SamplingModule.c:274`): no value is
  returned and the semaphore stays taken (`PastWindow`). flowd's rates share one
  P2 and do not reach this.
* **Flow table.** A flow of one emulated packet keeps `expires_at = 1`, which
  `check_expired` skips: it leaves only by a full table or at the end; `CE_EXPIRE_ALL`
  skips it too. A live capture and a capture file end in the first round in
  `GetStopsEmulatorThread`, whose semaphore only the emulator mode initialises
  (`softflowd.c:2087`, `2215`, `2217`).
* **Reports.** The ports of emulated flows are swapped once too often
  (`EmulatorInterface.c:822`; `softflowd.h:181` says network byte order). A
  report marked as already counted that arrives after its flow has expired opens
  the flow again and is counted again (`EmulatorInterface.c:200`, comment at
  361). The fragment flag, and the ICMP type, of a UDP or ICMP report are read
  uninitialised. The flag byte 0x23 reads as a separator.
* **Export.** Without the emulator `softflowd` exports nothing in version 1; its
  version 1 record has 56 bytes and flowd expects 52, so flowd refuses them all.
  flowd drops versions 7 and 9 on reception (`flowd.c:1302`), although
  `flowd/README:43` lists them. Version 9 templates count as sent although the
  send fails, and a flow without octets makes the version 9 sender loop.
* **Privilege separation.** An invalid configuration on SIGHUP ends flowd; a
  SIGHUP during a reconfiguration is forgotten; one that comes after the test of
  `reopen_flag` leaves the child in poll with the log of the old configuration until
  the next datagram; a changed `pidfile` has no effect. The child's process may stay
  behind an estimation that waits for NSP.
* **Configuration.** A rule with days but no times (`flowd.conf.5:491`), with
  `after` alone (443), or with one address and `any` (74), is refused (`parse.y:577`,
  `611`). A time of day includes the very second it names, a date does not. A
  bare `any` matches no flow, and `flow source any` admits no device. An
  undefined macro makes the parser skip the next line; a quoted prefix escapes
  the check for host bits; numbers are truncated to their fields.
* **Estimation.** A lone last record gives no result; the reset of `overhead` may
  erase an alarm (the next minute makes up for it); an estimation within
  the first second of a count divides by zero (`GlobalEstimation.c:1183`), a failed path request is
  dereferenced, an agent that is no monitor is looked for past the end of
  `les_moniteurs`; `SendControlPacket` returns 0 for the answer "Error occured".
* **Routing.** `prevRouters.insert` keeps the old predecessor of a router whose
  cost was lowered (`TransitNetwork.cpp:665`): in such networks packets may
  circle for ever.
* **NSP.** The last packets, fewer than a slot, are never played, and NSP then does
  not end and softflowd never hears of the end. It ends by itself only when the
  last dispatch leaves a slot or more and the loader has ended before that is
  played out. A loader or interface thread that fails keeps its semaphore.
  `AddSourceAs` never advances its iterator (`TransitNetwork.cpp:154`). An empty
  control request is not answered and the function returns without a value;
  without `SO_REUSEADDR` a restarted NSP may be left without a control server;
  path requests are always answered from the first network.

## Not modelled

* The trace files that softflowd writes, statistics that are only printed,
  logging, softflowctl and the parsing of options.
* The values of the floating-point estimates: which monitors they single out is
  a nondeterministic choice.
* Decoders and template cache of NetFlow v7 and v9 in flowd, which no datagram
  reaches; `store-v2.c`, the converter of old logs.
* Code that nothing calls: `Remplir.c`, `StoredFlows.c`, `Router::ForwardPacket` and
  `TransitNetwork::ForwardPacket`, `LoadTrafficFile`, `SendData`,
  `AddPacketToTheBufferThread`, `SamplingManager::SendEndMsg`.
* Reading the topology from XML and IPv6 in NSP, which it has no routing for.
* TinyXML, the BSD tree and queue macros, compatibility functions, configure
  scripts.
* The lengths of the buffers that texts are printed into (see Wire).
* Data races on single words (`num_flows` at `softflowd.c:2214`) are explored as
  both outcomes of the test that uses them; torn reads of the trees are not.

## Plan

Done: all the modules above, and proofs of every safety invariant that a run
checks but `ConfigAsWritten`, of the action property `ExpirySound` and of the
refinement. Left:

1. That `Softflowd` implements the locking `FlowTrack` assumes, and `Privsep` the
   view that `Collector` has of it.
2. `Config` without `Bitwise` (a mask as a division by a power of two, as in
   `Export`), with the wrong lines characterised rather than listed; then a proof
   of `ConfigAsWritten`.
