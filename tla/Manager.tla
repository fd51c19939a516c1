------------------------------ MODULE Manager ------------------------------
(***************************************************************************)
(* The control server of NSP (SamplingManager.cpp): one thread that serves *)
(* one connection after the other, and for a rate looks for the router and *)
(* the sampling node of the interface named, while the packet thread makes *)
(* the nodes.  The clients are flowd (ClientController.c) and, where flowd *)
(* died at any point, the next flowd: what the first one left in the       *)
(* backlog is still there.                                                 *)
(*                                                                         *)
(* A router is <<n, i>>, the i-th of network n.  That the control thread   *)
(* may meet a node half made is in module Sampling.                        *)
(***************************************************************************)
EXTENDS Integers, Sequences, FiniteSets, FiniteSetsExt

CONSTANTS Networks,   \* the adapters of every router of every transit network
          Requests,   \* what a client may ask for
          Initial,    \* INITIAL_SAMPLING_RATE_P1 and P2
          NbClients   \* bound: clients, one after the other

ASSUME ManagerAssumption == NbClients \in Nat

Routers == UNION {{<<n, i>> : i \in DOMAIN Networks[n]} : n \in DOMAIN Networks}
ListOfAdapters(r) == Networks[r[1]][r[2]]
Clients == 1..NbClients

NoRequest == [kind |-> "none"]
NoOne == 0

VARIABLES listNodes,  \* the sampling nodes of every router, with their rates
          client,     \* where each client is, its request and its answer; known is
                      \* history: the interface it names had a node already
          backlog,    \* connections not accepted yet
          server,     \* where the server's thread is
          served,     \* the client it serves
          ret,        \* what ChangeSamplingRate returned
          stops,      \* StopsControlServer
          running     \* NSP itself

managerVars == <<listNodes, client, backlog, server, served, ret, stops, running>>
serverVars == <<server, served, ret>>

ManagerInit ==
    /\ listNodes = [r \in Routers |-> <<>>]
    /\ client = [c \in Clients |-> [pc |-> "new", req |-> NoRequest, ack |-> "none", known |-> FALSE]]
    /\ backlog = <<>>
    /\ server = "starting" /\ served = NoOne /\ ret = -1
    /\ stops = FALSE /\ running = TRUE

\* The rates some router samples interface ip with
InForce(ip) == {listNodes[r][ip] : r \in {q \in Routers : ip \in DOMAIN listNodes[q]}}

-----------------------------------------------------------------------------
(* The packet thread, at an interface of a router that monitors it. *)
FindSamplingNode(r, ip) == ip \in DOMAIN listNodes[r]

GetSamplingNode(r, ip) ==
    /\ running
    /\ ~FindSamplingNode(r, ip)
    /\ listNodes' = [listNodes EXCEPT ![r] =
                        [a \in DOMAIN @ \cup {ip} |-> IF a = ip THEN Initial ELSE @[a]]]
    /\ UNCHANGED <<client, backlog, serverVars, stops, running>>

-----------------------------------------------------------------------------
(* A client: SendControlPacket, SendPathRequestPacket or SendEndMsg. *)
Gone(c) == client[c].pc \in {"answered", "refused", "closed", "dead"}

Connect(c) ==
    /\ client[c].pc = "new"
    /\ \A d \in 1..c - 1 : Gone(d)
    /\ IF running /\ server \notin {"starting", "failed", "ended"}
       THEN /\ client' = [client EXCEPT ![c].pc = "connected"]
            /\ backlog' = Append(backlog, c)
       ELSE /\ client' = [client EXCEPT ![c].pc = "refused"]
            /\ UNCHANGED backlog
    /\ UNCHANGED <<listNodes, serverVars, stops, running>>

Write(c, req) ==
    /\ client[c].pc = "connected"
    /\ client' = [client EXCEPT ![c].pc = "sent", ![c].req = req,
                               ![c].known = req.kind = "rate" /\ InForce(req.ip) # {}]
    /\ UNCHANGED <<listNodes, backlog, serverVars, stops, running>>

Die(c) ==
    /\ client[c].pc \in {"connected", "sent"}
    /\ client' = [client EXCEPT ![c].pc = "dead"]
    /\ UNCHANGED <<listNodes, backlog, serverVars, stops, running>>

-----------------------------------------------------------------------------
(***************************************************************************)
(* The server.  bind fails while the port is still taken: the exception    *)
(* ends the thread and NSP goes on without it.  An accept that fails ends  *)
(* it as well, with the listening socket still open: clients connect, and  *)
(* nobody answers them.  The word to stop, by a client or by main when the *)
(* traces are over, is heeded after the connection that comes next.        *)
(***************************************************************************)
StartControlServer ==
    /\ running /\ server = "starting"
    /\ server' \in {"test", "failed"}
    /\ UNCHANGED <<listNodes, client, backlog, served, ret, stops, running>>

SetStopsControlServer ==
    /\ running /\ ~stops
    /\ stops' = TRUE
    /\ UNCHANGED <<listNodes, client, backlog, serverVars, running>>

\* Closing the listening socket resets the connections not accepted yet
Reset == [c \in Clients |->
            IF client[c].pc \in {"connected", "sent"} /\ \E i \in DOMAIN backlog : backlog[i] = c
            THEN [client[c] EXCEPT !.pc = "closed"] ELSE client[c]]

ThreadProcessFunction ==
    /\ running /\ server = "test"
    /\ IF stops THEN server' = "ended" /\ client' = Reset /\ backlog' = <<>>
                ELSE server' = "accept" /\ UNCHANGED <<client, backlog>>
    /\ UNCHANGED <<listNodes, served, ret, stops, running>>

Accept ==
    /\ running /\ server = "accept"
    /\ \/ /\ backlog # <<>>
          /\ served' = Head(backlog) /\ backlog' = Tail(backlog) /\ server' = "read"
       \/ server' = "deaf" /\ UNCHANGED <<served, backlog>>
    /\ UNCHANGED <<listNodes, client, ret, stops, running>>

\* A connection that was closed with nothing on it reads as an empty message
Read(kind) ==
    /\ running /\ server = "read"
    /\ client[served].pc \in {"sent", "dead"}
    /\ client[served].req.kind = kind

\* A connection that was reset cannot be read
ReadFails ==
    /\ running /\ server = "read" /\ client[served].pc = "dead"
    /\ server' = "test"
    /\ UNCHANGED <<listNodes, client, backlog, served, ret, stops, running>>

HandleEnd ==
    /\ Read("end")
    /\ client' = IF client[served].pc = "dead" THEN client
                 ELSE [client EXCEPT ![served].pc = "closed"]
    /\ stops' = TRUE /\ server' = "test"
    /\ UNCHANGED <<listNodes, backlog, served, ret, running>>

(***************************************************************************)
(* An empty message has no parts.  The exception is caught where it is     *)
(* thrown, and what get_control_packet_part then returns is anything: an   *)
(* error, after which the server takes the next connection, or a success,  *)
(* after which the missing separator is dereferenced.                      *)
(***************************************************************************)
get_control_packet_part ==
    /\ Read("none")
    /\ \/ server' = "test" /\ UNCHANGED running
       \/ running' = FALSE /\ UNCHANGED server
    /\ UNCHANGED <<listNodes, client, backlog, served, ret, stops>>

\* A wrong variant: any router with an adapter will do
IsItYourAdapter_Any(r, ip) == ListOfAdapters(r) # {}

IsItYourAdapter(r, ip) == ip \in ListOfAdapters(r)

Owners(n, ip) == {i \in DOMAIN Networks[n] : IsItYourAdapter(<<n, i>>, ip)}

\* -1: no router has the adapter; 0: its router has no node for it yet
TransitNetwork_ChangeSamplingRate(n, ip) ==
    IF Owners(n, ip) = {} THEN -1
    ELSE IF FindSamplingNode(<<n, Min(Owners(n, ip))>>, ip) THEN 1 ELSE 0

SamplingPlatform_ChangeSamplingRate(ip, rate) ==
    LET ours == {n \in DOMAIN Networks : TransitNetwork_ChangeSamplingRate(n, ip) # -1} IN
    IF ours = {} THEN ret' = -1 /\ UNCHANGED listNodes
    ELSE LET n == Min(ours)  r == <<n, Min(Owners(n, ip))>> IN
         /\ ret' = TransitNetwork_ChangeSamplingRate(n, ip)
         /\ listNodes' = IF ret' = 1 THEN [listNodes EXCEPT ![r][ip] = rate] ELSE listNodes

HandleRate ==
    /\ Read("rate")
    /\ SamplingPlatform_ChangeSamplingRate(client[served].req.ip, client[served].req.rate)
    /\ server' = "ack"
    /\ UNCHANGED <<client, backlog, served, stops, running>>

HandlePath ==
    /\ Read("path")
    /\ server' = "path"
    /\ UNCHANGED <<listNodes, client, backlog, served, ret, stops, running>>

\* The answer, and close
Answer ==
    /\ running /\ server \in {"ack", "path"}
    /\ client' = IF client[served].pc = "dead" THEN client
                 ELSE [client EXCEPT ![served].pc = "answered",
                                     ![served].ack = IF server = "path" THEN "path"
                                                     ELSE IF ret # 1 THEN "error" ELSE "updated"]
    /\ server' = "test" /\ served' = NoOne /\ ret' = -1
    /\ UNCHANGED <<listNodes, backlog, stops, running>>

Server ==
    \/ StartControlServer \/ ThreadProcessFunction \/ Accept \/ ReadFails
    \/ get_control_packet_part \/ HandleRate \/ HandlePath \/ HandleEnd \/ Answer

ManagerNext ==
    \/ \E r \in Routers : \E ip \in ListOfAdapters(r) : GetSamplingNode(r, ip)
    \/ \E c \in Clients : Connect(c) \/ Die(c) \/ \E req \in Requests : Write(c, req)
    \/ SetStopsControlServer
    \/ Server

\* A thread that is not blocked runs; no packet need come
ManagerFairness ==
    /\ WF_managerVars(Server)
    /\ \A c \in Clients : WF_managerVars(\E req \in Requests : Write(c, req))

ManagerSpec == ManagerInit /\ [][ManagerNext]_managerVars /\ ManagerFairness

-----------------------------------------------------------------------------
\* Another client asked for the same interface later
Overtaken(c) ==
    \E d \in c + 1..NbClients :
        client[d].req.kind = "rate" /\ client[d].req.ip = client[c].req.ip

\* What client c was told is still true
Stands(c) ==
    \/ client[c].ack = "path" /\ client[c].req.kind = "path"
    \/ client[c].ack = "updated" /\ (Overtaken(c) \/ InForce(client[c].req.ip) = {client[c].req.rate})
    \/ client[c].ack = "error" /\ ~client[c].known /\ (Overtaken(c) \/ InForce(client[c].req.ip) \subseteq {Initial})

(***************************************************************************)
(* A client that sent its request is answered, with an error only if the   *)
(* interface had no node then, and from then on the answer stays true      *)
(* until a later client asks for the same interface: what a flowd that     *)
(* died had asked for never takes effect after it, and packets that make   *)
(* nodes do not undo it.  There is no answer where the server's thread has *)
(* ended or died before it, and NSP itself may die of a connection that    *)
(* was closed without a request (HandleTCPClient, ThreadProcessFunction).  *)
(***************************************************************************)
Unserved(c) ==
    client[c].ack = "none" /\ (client[c].pc \in {"dead", "closed"} \/ server = "deaf")

AnswersStand ==
    \A c \in Clients :
        client[c].pc = "sent" ~> [](client[c].pc = "dead" \/ Stands(c) \/ Unserved(c) \/ ~running)
=============================================================================
