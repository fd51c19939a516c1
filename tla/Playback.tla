------------------------------ MODULE Playback ------------------------------
(***************************************************************************)
(* The threads of NSP while it plays traces: the loader thread             *)
(* (TraficLoader.cpp) reads the trace files and dispatches their packets   *)
(* to pairs of ASs, the main thread (StartSendingPackets) routes them in   *)
(* the order of the time axis, and the interface thread                    *)
(* (SoftflowdThreadProcess) sends the routers' reports to softflowd.  The  *)
(* loader and the sender share sendingSem, the sender and the interface    *)
(* thread semListPackets.  What a packet's route is comes from Routing;    *)
(* here it is the sequence of the monitored interfaces it passes.          *)
(***************************************************************************)
EXTENDS Naturals, Sequences, FiniteSets, SequencesExt

CONSTANTS Ases,            \* AS numbers
          lAsCouples,      \* the list of every pair of them
          Packets,         \* packets a trace file may have
          Traces,          \* the sequences of trace files that may be given
          Prefix,          \* ApplyMask of an address
          ClassOf,         \* GetClass of an address
          AsClass,         \* the UniqueIpClass of an AS
          Interfaces,      \* interfaces that are monitored
          Route,           \* those on the way between two ASs
          TimeAxisSlot,    \* TIME_AXIS_SLOT
          MaxLoopPackets   \* MAX_TL_LOOP_PACKETS

ASSUME BoundsAssumption == TimeAxisSlot \in Nat \ {0} /\ MaxLoopPackets \in Nat \ {0}
ASSUME TracesAssumption == \A t \in Traces : t \in Seq(Seq(Packets)) /\ t # <<>>
ASSUME ClassAssumption == \A a, b \in Ases : AsClass[a] = AsClass[b] => a = b
ASSUME CouplesAssumption ==
    /\ Ases \subseteq Nat
    /\ lAsCouples \in Seq(Ases \X Ases)
    /\ IsInjective(lAsCouples) /\ Range(lAsCouples) = Ases \X Ases
ASSUME RouteAssumption == \A c \in Ases \X Ases : Route[c] \in Seq(Interfaces)

VARIABLES method,      \* dispatchingMethod
          left,        \* the files still to read, the current one first
          loader,      \* where the loader thread is
          got,         \* packets read by the current pcap_dispatch
          loading,     \* loadingThreadStatus
          known,       \* prefMap or flowsMap of every AS
          sendingSem,  \* who holds it
          timeAxis, timeAxisSize, lastTimeAxisSize,
          matrix,      \* ListOfPacketMatrix
          sender,      \* where the main thread is
          uaxe,        \* entries of the axis played
          toSend,      \* pListOfPacketToSend
          hop,         \* interfaces passed by the packet being routed
          fwd,         \* its forwardedToSoftflowd
          stopSending,
          iface,       \* where the interface thread is
          bufSem,      \* who holds semListPackets
          buffer,      \* packetsBuffer
          wire,        \* what was sent to softflowd
          endMsg       \* and after it, the end message

loaderVars == <<left, loader, got, loading, known>>
axisVars   == <<timeAxis, timeAxisSize, matrix>>
senderVars == <<sender, uaxe, lastTimeAxisSize, toSend, hop, fwd, stopSending>>
ifaceVars  == <<iface, wire, endMsg>>
vars == <<method, loaderVars, sendingSem, axisVars, senderVars, ifaceVars, bufSem, buffer>>

Couples == Ases \X Ases
Free == "free"

Init ==
    /\ method \in {1, 2, 3}
    /\ left \in Traces
    /\ loader = "idle" /\ got = 0 /\ loading = TRUE
    /\ known = [a \in Ases |-> {}]
    /\ sendingSem = Free
    /\ timeAxis = <<>> /\ timeAxisSize = 0 /\ lastTimeAxisSize = 0
    /\ matrix = [c \in Couples |-> <<>>]
    /\ sender = "idle" /\ uaxe = 0 /\ toSend = <<>> /\ hop = 0 /\ fwd = FALSE
    /\ stopSending = FALSE
    /\ iface = "idle" /\ bufSem = Free /\ buffer = <<>> /\ wire = <<>> /\ endMsg = FALSE

\* A wrong variant: one entry more than the slot
DataNeededOneMore == timeAxisSize - lastTimeAxisSize <= TimeAxisSlot

DataNeeded ==
    timeAxisSize - lastTimeAxisSize < TimeAxisSlot \/ timeAxisSize = lastTimeAxisSize

(***************************************************************************)
(* Dispatching a packet of the trace.  Methods 1 and 3 look the source and *)
(* the destination up in the ASs and give an AS drawn at random to the one *)
(* that none knows; method 2 goes by the class of the addresses.           *)
(***************************************************************************)
SourceKey(p) == IF method = 1 THEN <<Prefix[p.src]>> ELSE <<p.src, p.dst>>
DestKey(p)   == IF method = 1 THEN <<Prefix[p.dst]>> ELSE <<p.dst, p.src>>

FindAs(key) == {a \in Ases : key \in known[a]}
FirstAs(S) == CHOOSE a \in S : \A b \in S : a <= b

SelectAs(found, a) == IF found = {} THEN TRUE ELSE a = FirstAs(found)

\* A wrong variant: the two prefixes are not compared
SameUnknownIgnored(p) == FALSE

\* With method 1, source and destination of one unknown prefix share the AS
SameUnknown(p) == method = 1 /\ FindAs(SourceKey(p)) = {} /\ SourceKey(p) = DestKey(p)

\* AddPrefix or AddFlow, for a key that no AS knew
NewKey(chosen, key) == IF chosen /\ FindAs(key) = {} THEN {key} ELSE {}

Learn(p, s, d) ==
    [a \in Ases |-> known[a] \cup NewKey(a = s, SourceKey(p)) \cup NewKey(a = d, DestKey(p))]

DispatchByKey(p, s, d) ==
    /\ method \in {1, 3}
    /\ SelectAs(FindAs(SourceKey(p)), s)
    /\ IF SameUnknown(p) THEN d = s ELSE SelectAs(FindAs(DestKey(p)), d)
    /\ known' = Learn(p, s, d)

\* GetRandomAsNumber finds no AS with the number drawn in its interval and
\* returns anything: the packet is dropped, after its source was learnt if it
\* is the destination that is drawn in vain
DrawFails(p) ==
    /\ method \in {1, 3}
    /\ \/ FindAs(SourceKey(p)) = {} /\ UNCHANGED known
       \/ /\ FindAs(DestKey(p)) = {} /\ ~SameUnknown(p)
          /\ \E s \in Ases :
               /\ SelectAs(FindAs(SourceKey(p)), s)
               /\ known' = [a \in Ases |-> known[a] \cup NewKey(a = s, SourceKey(p))]
    /\ UNCHANGED axisVars

DispatchByClass(p, s, d) ==
    /\ method = 2
    /\ ClassOf[p.src] = AsClass[s]
    /\ ClassOf[p.dst] = AsClass[d]
    /\ UNCHANGED known

Undispatched(p) ==
    /\ \/ ~p.valid
       \/ method = 2 /\ \E ip \in {p.src, p.dst} : \A a \in Ases : ClassOf[ip] # AsClass[a]
    /\ UNCHANGED <<known, axisVars>>

\* A packet is known by its place on the time axis
Loaded(p, s, d) ==
    [id |-> timeAxisSize + 1, ts |-> p.ts, src |-> p.src, dst |-> p.dst, couple |-> <<s, d>>]

\* A wrong variant: push_front
PushPacketFront(q, list) == <<q>> \o list

PushPacket(q, list) == Append(list, q)

PerPacketCallBackFunction(p) ==
    \/ Undispatched(p)
    \/ p.valid /\ DrawFails(p)
    \/ /\ p.valid
       /\ \E s, d \in Ases :
            /\ DispatchByKey(p, s, d) \/ DispatchByClass(p, s, d)
            /\ timeAxis' = Append(timeAxis, p.ts)
            /\ timeAxisSize' = timeAxisSize + 1
            /\ matrix' = [matrix EXCEPT ![<<s, d>>] = PushPacket(Loaded(p, s, d), @)]

(***************************************************************************)
(* The loader thread.                                                      *)
(***************************************************************************)
LoaderTakes ==
    /\ loader = "idle" /\ DataNeeded /\ sendingSem = Free
    /\ sendingSem' = "loader" /\ loader' = "test"
    /\ UNCHANGED <<method, left, got, loading, known, axisVars, senderVars, ifaceVars, bufSem, buffer>>

LoaderDispatch ==
    /\ loader = "test" /\ DataNeeded
    /\ loader' = "read" /\ got' = 0
    /\ UNCHANGED <<method, left, loading, known, sendingSem, axisVars, senderVars, ifaceVars, bufSem, buffer>>

ReadPacket ==
    /\ loader = "read" /\ got < MaxLoopPackets /\ Head(left) # <<>>
    /\ PerPacketCallBackFunction(Head(Head(left)))
    /\ left' = <<Tail(Head(left))>> \o Tail(left)
    /\ got' = got + 1
    /\ UNCHANGED <<method, loader, loading, sendingSem, senderVars, ifaceVars, bufSem, buffer>>

\* pcap_dispatch returned a number of packets
DispatchReturns ==
    /\ loader = "read" /\ got > 0
    /\ got = MaxLoopPackets \/ Head(left) = <<>>
    /\ loader' = "test"
    /\ UNCHANGED <<method, left, got, loading, known, sendingSem, axisVars, senderVars, ifaceVars, bufSem, buffer>>

\* pcap_dispatch returned -1: the thread ends without releasing sendingSem
LoaderFails ==
    /\ loader = "read" /\ got < MaxLoopPackets /\ Head(left) # <<>>
    /\ loader' = "dead"
    /\ UNCHANGED <<method, left, got, loading, known, sendingSem, axisVars, senderVars, ifaceVars, bufSem, buffer>>

LoaderReleases ==
    /\ loader = "test" /\ ~DataNeeded
    /\ sendingSem' = Free /\ loader' = "idle"
    /\ UNCHANGED <<method, left, got, loading, known, axisVars, senderVars, ifaceVars, bufSem, buffer>>

\* pcap_dispatch returned 0: it met the end of the file, and of the packets it
\* read before that it says nothing
EndOfFile ==
    /\ loader = "read" /\ got < MaxLoopPackets /\ Head(left) = <<>>
    /\ sendingSem' = Free
    /\ IF Len(left) > 1 THEN left' = Tail(left) /\ loader' = "idle"
                        ELSE UNCHANGED left /\ loader' = "last"
    /\ UNCHANGED <<method, got, loading, known, axisVars, senderVars, ifaceVars, bufSem, buffer>>

TraficLoadingEnded ==
    /\ loader = "last"
    /\ loading' = FALSE /\ loader' = "ended"
    /\ UNCHANGED <<method, left, got, known, sendingSem, axisVars, senderVars, ifaceVars, bufSem, buffer>>

(***************************************************************************)
(* The main thread.  The second disjunct of its test (MAX_ITERATIONS) only *)
(* repeats an empty batch.                                                 *)
(***************************************************************************)
SenderTakes ==
    /\ sender = "idle" /\ ~stopSending /\ ~DataNeeded /\ sendingSem = Free
    /\ sendingSem' = "sender" /\ sender' = "axis"
    /\ UNCHANGED <<method, loaderVars, axisVars, uaxe, lastTimeAxisSize, toSend, hop, fwd, stopSending, ifaceVars, bufSem, buffer>>

\* The scan of one list: take the packets of time ts, stop at a later one
Scan(list, ts) ==
    LET scan[i \in 0..Len(list)] ==
            IF i = 0 THEN [due |-> <<>>, kept |-> <<>>, stop |-> FALSE]
            ELSE LET before == scan[i - 1]
                 IN  IF ~before.stop /\ list[i].ts = ts
                     THEN [before EXCEPT !.due = Append(@, list[i])]
                     ELSE [before EXCEPT !.kept = Append(@, list[i]),
                                         !.stop = @ \/ list[i].ts > ts]
    IN  scan[Len(list)]

\* The scans of all the lists
Batch(ts) ==
    LET batch[k \in 0..Len(lAsCouples)] ==
            IF k = 0 THEN <<>> ELSE batch[k - 1] \o Scan(matrix[lAsCouples[k]], ts).due
    IN  batch[Len(lAsCouples)]

UpdateTheListOfPacketsToSend ==
    /\ sender = "axis" /\ uaxe < timeAxisSize
    /\ toSend' = Batch(Head(timeAxis))
    /\ matrix' = [c \in Couples |-> Scan(matrix[c], Head(timeAxis)).kept]
    /\ sender' = "send" /\ hop' = 0 /\ fwd' = FALSE
    /\ UNCHANGED <<method, loaderVars, sendingSem, timeAxis, timeAxisSize, uaxe, lastTimeAxisSize, stopSending, ifaceVars, bufSem, buffer>>

\* A wrong variant: the packet is marked before it is copied
ReportOfMarked(p, at) == [id |-> p.id, at |-> at, first |-> FALSE]

\* PreparePacketToBeSent: the copy keeps the mark the packet had until now
ReportOf(p, at) == [id |-> p.id, at |-> at, first |-> ~fwd]

Report ==
    LET p == Head(toSend) IN
    /\ sender = "send" /\ toSend # <<>> /\ hop < Len(Route[p.couple])
    /\ bufSem = Free
    /\ buffer' = Append(buffer, ReportOf(p, Route[p.couple][hop + 1]))
    /\ fwd' = TRUE /\ hop' = hop + 1
    /\ UNCHANGED <<method, loaderVars, sendingSem, axisVars, sender, uaxe, lastTimeAxisSize, toSend, stopSending, ifaceVars, bufSem>>

\* RandomPeriodicNodeSampling passed the packet over at this interface
NotSampled ==
    /\ sender = "send" /\ toSend # <<>> /\ hop < Len(Route[Head(toSend).couple])
    /\ hop' = hop + 1
    /\ UNCHANGED <<method, loaderVars, sendingSem, axisVars, sender, uaxe, lastTimeAxisSize, toSend, fwd, stopSending, ifaceVars, bufSem, buffer>>

PacketSent ==
    /\ sender = "send" /\ toSend # <<>> /\ hop = Len(Route[Head(toSend).couple])
    /\ toSend' = Tail(toSend) /\ hop' = 0 /\ fwd' = FALSE
    /\ UNCHANGED <<method, loaderVars, sendingSem, axisVars, sender, uaxe, lastTimeAxisSize, stopSending, ifaceVars, bufSem, buffer>>

EntrySent ==
    /\ sender = "send" /\ toSend = <<>>
    /\ uaxe' = uaxe + 1 /\ timeAxis' = Tail(timeAxis)
    /\ stopSending' = (stopSending \/ ~loading)
    /\ sender' = "axis"
    /\ UNCHANGED <<method, loaderVars, sendingSem, timeAxisSize, matrix, lastTimeAxisSize, toSend, hop, fwd, ifaceVars, bufSem, buffer>>

SenderReleases ==
    /\ sender = "axis" /\ uaxe = timeAxisSize
    /\ lastTimeAxisSize' = uaxe /\ sendingSem' = Free /\ sender' = "idle"
    /\ UNCHANGED <<method, loaderVars, axisVars, uaxe, toSend, hop, fwd, stopSending, ifaceVars, bufSem, buffer>>

\* The control server is told to stop, see Manager, and so is the interface
Shutdown ==
    /\ sender = "idle" /\ stopSending
    /\ sender' = "stopping"
    /\ UNCHANGED <<method, loaderVars, sendingSem, axisVars, uaxe, lastTimeAxisSize, toSend, hop, fwd, stopSending, ifaceVars, bufSem, buffer>>

\* ~SoftflowdInterface drops what is left in the buffer, and NSP exits
Leave ==
    /\ sender = "stopping" /\ iface = "ended" /\ bufSem = Free
    /\ buffer' = <<>>
    /\ sender' = "done"
    /\ UNCHANGED <<method, loaderVars, sendingSem, axisVars, uaxe, lastTimeAxisSize, toSend, hop, fwd, stopSending, ifaceVars, bufSem>>

(***************************************************************************)
(* The interface thread.                                                   *)
(***************************************************************************)
IfaceTakes ==
    /\ iface = "idle" /\ buffer # <<>> /\ bufSem = Free
    /\ bufSem' = "iface" /\ iface' = "send"
    /\ UNCHANGED <<method, loaderVars, sendingSem, axisVars, senderVars, wire, endMsg, buffer>>

IfaceSends ==
    /\ iface = "send" /\ buffer # <<>>
    /\ wire' = Append(wire, Head(buffer)) /\ buffer' = Tail(buffer)
    /\ UNCHANGED <<method, loaderVars, sendingSem, axisVars, senderVars, iface, endMsg, bufSem>>

\* sendto failed: the thread ends without releasing semListPackets
IfaceFails ==
    /\ iface = "send" /\ buffer # <<>>
    /\ iface' = "dead"
    /\ UNCHANGED <<method, loaderVars, sendingSem, axisVars, senderVars, wire, endMsg, bufSem, buffer>>

IfaceReleases ==
    /\ iface = "send" /\ buffer = <<>>
    /\ bufSem' = Free /\ iface' = "idle"
    /\ UNCHANGED <<method, loaderVars, sendingSem, axisVars, senderVars, wire, endMsg, buffer>>

\* The end message goes out last; that it does not is only logged
IfaceEnds ==
    /\ iface = "idle" /\ buffer = <<>> /\ sender = "stopping"
    /\ endMsg' \in BOOLEAN
    /\ iface' = "ended"
    /\ UNCHANGED <<method, loaderVars, sendingSem, axisVars, senderVars, wire, bufSem, buffer>>

LoaderStep ==
    \/ LoaderTakes
    \/ LoaderDispatch
    \/ ReadPacket
    \/ DispatchReturns
    \/ LoaderReleases
    \/ EndOfFile
    \/ TraficLoadingEnded

SenderStep ==
    \/ SenderTakes
    \/ UpdateTheListOfPacketsToSend
    \/ Report
    \/ NotSampled
    \/ PacketSent
    \/ EntrySent
    \/ SenderReleases
    \/ Shutdown
    \/ Leave

IfaceStep == IfaceTakes \/ IfaceSends \/ IfaceReleases \/ IfaceEnds

Next == LoaderStep \/ LoaderFails \/ SenderStep \/ IfaceStep \/ IfaceFails

\* Three threads of the kernel's scheduler, none of which starves: a thread
\* that waits for a semaphore is the only one that waits for it
Fairness == WF_vars(LoaderStep) /\ WF_vars(SenderStep) /\ WF_vars(IfaceStep)

Spec == Init /\ [][Next]_vars /\ Fairness

(***************************************************************************)
(* Properties.                                                             *)
(***************************************************************************)
Waiting == UNION {Range(matrix[c]) : c \in Couples}

(***************************************************************************)
(* Whatever the order of the timestamps in the files, the packet of an     *)
(* entry of the time axis has been taken to be sent by the time its entry  *)
(* has been played: no packet is passed over by the scans that take the    *)
(* packets of a time and stop at a later one.                              *)
(***************************************************************************)
SentByItsTurn == \A p \in Waiting : p.id > uaxe

(***************************************************************************)
(* A reply travels between the ASs of the packet it answers, the other way *)
(* round: softflowd and flowd meet both directions of a flow on one path.  *)
(***************************************************************************)
ReplyReversed ==
    \A p, q \in Waiting \cup Range(toSend) :
        (p.src # p.dst /\ q.src = p.dst /\ q.dst = p.src)
            => q.couple = <<p.couple[2], p.couple[1]>>

(***************************************************************************)
(* The threads implement the queue of reports that softflowd relies on.    *)
(***************************************************************************)
Queue == INSTANCE ReportQueue WITH loaded <- timeAxisSize, queue <- buffer, received <- wire
ImplementsReportQueue == Queue!Spec

(***************************************************************************)
(* Unless a thread died, in which case the others wait for ever for what   *)
(* it holds, the last file ends in one of two ways: NSP has played all of  *)
(* the time axis, passed every report on and left; or less than a slot of  *)
(* it stays unplayed, every report has been passed on, and the main thread *)
(* waits for packets for ever, so that softflowd never hears of the end.   *)
(***************************************************************************)
Alive == loader # "dead" /\ iface # "dead"
Waits == sender = "idle" /\ ~stopSending /\ timeAxisSize - uaxe < TimeAxisSlot
Left == sender = "done" /\ uaxe = timeAxisSize
TailBelowSlot == (loader = "ended") ~> [](Alive => buffer = <<>> /\ (Waits \/ Left))

=============================================================================
