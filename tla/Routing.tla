------------------------------ MODULE Routing ------------------------------
(***************************************************************************)
(* How NSP routes a packet through a transit network: ExploreGraph fills   *)
(* the tables of every router (TransitNetwork.cpp), ForwardPacketE walks   *)
(* them one router at a time (TransitNetwork.cpp, Router.cpp) and offers   *)
(* the packet to the sampling of the interfaces it enters and leaves by.   *)
(* GetInterfaceBasedPathPathFromTo answers flowd with the interfaces of a  *)
(* path, which the estimation uses to tell which reports are of one flow.  *)
(*                                                                         *)
(* A router is its number, which is also its AS (TopologyFile.xml has one  *)
(* edge AS per router) and its place in the std::map<Router*, ...> tables: *)
(* every labelling of every network is an initial state, so fixing the     *)
(* order of the pointers loses none.  An adapter <<a, b>> is the interface *)
(* of router a on its link to b; b = EdgeAs is the link to its AS.         *)
(***************************************************************************)
EXTENDS Naturals, FiniteSets, FiniteSetsExt

CONSTANTS N,        \* number of routers
          Costs,    \* the costs a link may have
          Monitors, \* the routers with iIsMonitor = 1
          Monitored \* the adapters whose In or Out status is 1, each with its way

ASSUME NAssumption == N \in Nat \ {0, 1}
ASSUME MonitorsAssumption == Monitors \subseteq 1..N

Routers == 1..N

EdgeAs == 0          \* stands for "As" followed by the router's number
NoLink == 0
INFINITY == 2048 * 2048

ASSUME MonitoredAssumption ==
    Monitored \subseteq {"in", "out"} \X (Routers \X (Routers \cup {EdgeAs}))

\* A link is never dearer than what the code takes for no path at all
ASSUME CostsAssumption == Costs \subseteq 1..INFINITY

VARIABLES link,      \* link[a][b]: cost of the link between a and b
          pc,        \* where ExploreGraph, and then the sender, are
          turn,      \* the router whose tables ExploreGraph fills
          costs,     \* allRoutersCosts of every router
          prev,      \* prevRouters of every router
          visited,   \* the routers Dijkstra has visited for turn
          next,      \* nextRouter of every router
          pkt        \* the packet being forwarded

routingVars == <<link, pc, turn, costs, prev, visited, next, pkt>>

(***************************************************************************)
(* The topology.                                                           *)
(***************************************************************************)
Direct(r) == {n \in Routers : link[r][n] # NoLink}

\* What can be reached through the adapter towards n without passing r
Via(r, n) ==
    LET f[k \in 0..N] ==
          IF k = 0 THEN {n}
          ELSE LET p == f[k - 1] IN p \cup (UNION {Direct(m) : m \in p} \ {r})
    IN  f[N]

VisitedRouters(r) == UNION {Via(r, n) : n \in Direct(r)}

\* AddNewTransitNetwork: a cost or no link for every two routers
Pairs == {p \in Routers \X Routers : p[1] < p[2]}

Networks ==
    {[a \in Routers |-> [b \in Routers |->
         IF a < b THEN w[<<a, b>>] ELSE IF b < a THEN w[<<b, a>>] ELSE NoLink]] :
     w \in [Pairs -> Costs \cup {NoLink}]}

Connected == \A r \in Routers : VisitedRouters(r) = Routers \ {r}

NoPacket == [src |-> 0, dst |-> 0, cur |-> 0, in |-> <<0, 0>>, offered |-> {}, hops |-> {}]

RoutingInit ==
    /\ link \in Networks
    /\ Connected
    /\ pc = "explore"
    /\ turn = 1
    /\ costs = [r \in Routers |-> <<>>]
    /\ prev = [r \in Routers |-> <<>>]
    /\ visited = {}
    /\ next = [r \in Routers |-> <<>>]
    /\ pkt = NoPacket

(***************************************************************************)
(* ExploreGraph.  ExploreNodeGraph and the head of Dijkstra give every     *)
(* router that can be reached an infinite cost, then the direct ones the   *)
(* cost of their link.                                                     *)
(***************************************************************************)
ExploreNodeGraph ==
    /\ pc = "explore"
    /\ costs' = [r \in Routers |->
                   [x \in VisitedRouters(r) |->
                       IF x \in Direct(r) THEN link[r][x] ELSE INFINITY]]
    /\ pc' = "dijkstra"
    /\ UNCHANGED <<link, turn, prev, visited, next, pkt>>

\* A wrong variant: the first router not visited, whatever its cost
MiniFirst(r) == Min(DOMAIN costs[r] \ visited)

\* The first router, in the order of the map, of least cost among the others
Mini(r) ==
    LET left  == DOMAIN costs[r] \ visited
        least == Min({costs[r][x] : x \in left})
    IN  Min({x \in left : costs[r][x] = least})

\* prevRouters.insert leaves the predecessor of an earlier improvement alone
InsertPrev(p, xs, mini) ==
    [x \in DOMAIN p \cup xs |-> IF x \in DOMAIN p THEN p[x] ELSE mini]

Dijkstra ==
    LET r == turn
        mini == Mini(r)
        through(x) == costs[r][mini] + link[mini][x]
        better == {x \in DOMAIN costs[r] \cap Direct(mini) : through(x) < costs[r][x]}
    IN  /\ pc = "dijkstra"
        /\ visited # DOMAIN costs[r]
        /\ visited' = visited \cup {mini}
        /\ costs' = [costs EXCEPT ![r] =
                        [x \in DOMAIN @ |-> IF x \in better THEN through(x) ELSE @[x]]]
        /\ prev' = [prev EXCEPT ![r] = InsertPrev(@, better, mini)]
        /\ UNCHANGED <<link, pc, turn, next, pkt>>

\* A wrong variant: the tables of the destination instead of its own
GetNextRouterTowardSwapped(r, d) ==
    IF r \in DOMAIN prev[d] THEN prev[d][r] ELSE r

\* Follow the predecessors p back from d to the router that has none
Back(p, d) ==
    LET back[k \in 0..N] ==
          IF k = 0 THEN d
          ELSE IF back[k - 1] \in DOMAIN p THEN p[back[k - 1]] ELSE back[k - 1]
    IN  back[N]

GetNextRouterToward(r, d) == IF d = r THEN r ELSE Back(prev[r], d)

DrawDifferentPaths ==
    /\ pc = "dijkstra"
    /\ visited = DOMAIN costs[turn]
    /\ next' = [next EXCEPT ![turn] =
                   [d \in DOMAIN costs[turn] |-> GetNextRouterToward(turn, d)]]
    /\ visited' = {}
    /\ turn' = turn + 1
    /\ pc' = IF turn = N THEN "ready" ELSE "dijkstra"
    /\ UNCHANGED <<link, costs, prev, pkt>>

(***************************************************************************)
(* Forwarding.  The interface the packet leaves by is that of a direct     *)
(* link to the destination's router, if there is one, however dear; the    *)
(* router that handles it next is the one nextRouter names.                *)
(***************************************************************************)
\* A wrong variant: the adapter on the near side of the link
GetLinkTowardsNear(r, d) ==
    IF d \in Direct(r) THEN <<r, d>> ELSE <<r, GetNextRouterToward(r, d)>>

GetLinkTowards(r, d) ==
    IF d \in Direct(r) THEN <<d, r>> ELSE <<GetNextRouterToward(r, d), r>>

GetTheOppositeAdapter(ad) == <<ad[2], ad[1]>>

\* As::SendPacket: the packet of AS s enters at its edge router
SendPacket(s, d) ==
    /\ pc = "ready"
    /\ pkt' = [src |-> s, dst |-> d, cur |-> s, in |-> <<s, EdgeAs>>,
               offered |-> {}, hops |-> {}]
    /\ pc' = "forward"
    /\ UNCHANGED <<link, turn, costs, prev, visited, next>>

\* A monitor knows the status of its own adapters
GetInterfaceMonitoringStatus(r, way, ad) == ad[1] = r /\ <<way, ad>> \in Monitored

Offered(r, in, out) ==
    {o \in {<<"in", in>>, <<"out", out>>} :
        r \in Monitors /\ GetInterfaceMonitoringStatus(r, o[1], o[2])}

Router_ForwardPacketE(in, r, out) ==
    [pkt EXCEPT !.in = in, !.cur = r, !.hops = @ \cup {pkt.cur},
                !.offered = @ \cup Offered(pkt.cur, pkt.in, out)]

ForwardHop ==
    LET r == pkt.cur  towards == GetLinkTowards(r, pkt.dst) IN
    /\ pc = "forward"
    /\ r # pkt.dst
    /\ pkt' = Router_ForwardPacketE(towards, next[r][pkt.dst], GetTheOppositeAdapter(towards))
    /\ UNCHANGED <<link, pc, turn, costs, prev, visited, next>>

ForwardLast ==
    /\ pc = "forward"
    /\ pkt.cur = pkt.dst
    /\ pkt' = Router_ForwardPacketE(<<EdgeAs, pkt.dst>>, pkt.dst, <<pkt.dst, EdgeAs>>)
    /\ pc' = "arrived"
    /\ UNCHANGED <<link, turn, costs, prev, visited, next>>

PacketDone ==
    /\ pc = "arrived"
    /\ pc' = "ready"
    /\ pkt' = NoPacket
    /\ UNCHANGED <<link, turn, costs, prev, visited, next>>

RoutingNext ==
    \/ ExploreNodeGraph
    \/ Dijkstra
    \/ DrawDifferentPaths
    \/ \E s, d \in Routers : SendPacket(s, d)
    \/ ForwardHop
    \/ ForwardLast
    \/ PacketDone

RoutingSpec == RoutingInit /\ [][RoutingNext]_routingVars /\ WF_routingVars(ForwardHop) /\ WF_routingVars(ForwardLast)

(***************************************************************************)
(* Reference definitions and properties.                                   *)
(***************************************************************************)
\* Least cost of a walk of at most k links of network l from r, by k
WalkCosts(l, r) ==
    LET f[k \in 0..N] ==
          IF k = 0 THEN [x \in Routers |-> IF x = r THEN 0 ELSE INFINITY]
          ELSE [x \in Routers |->
                   Min({f[k - 1][x]} \cup
                       {f[k - 1][y] + l[y][x] : y \in {n \in Routers : l[n][x] # NoLink}})]
    IN  f

\* The least cost of any walk from r to every router
Distances(r) == WalkCosts(link, r)[N]

\* The interfaces that GetInterfaceBasedPathPathFromTo answers for a # b
InterfacePath(a, b) ==
    LET at[k \in 0..N] ==
          IF k = 0 THEN a
          ELSE IF at[k - 1] = b THEN b ELSE GetNextRouterToward(at[k - 1], b)
    IN  {<<at[k], at[k - 1]>> : k \in {j \in 1..N : at[j - 1] # b}}

\* No router was improved twice: the predecessors are those of the costs
Fresh ==
    \A r \in Routers : \A x \in DOMAIN prev[r] :
        costs[r][x] = costs[r][prev[r][x]] + link[prev[r][x]][x]

\* Every link is a shortest path between its ends
NoDearLink == \A r \in Routers : \A x \in Direct(r) : link[r][x] = Distances(r)[x]

(***************************************************************************)
(* The cost of a visited router is the least cost of any walk to it (what  *)
(* Dijkstra computes with the map of costs while it changes that map), and *)
(* no cost is ever below it.                                               *)
(***************************************************************************)
CostsExact ==
    pc = "dijkstra" =>
        LET dist == Distances(turn) IN
        \A x \in DOMAIN costs[turn] :
            /\ costs[turn][x] >= dist[x]
            /\ x \in visited => costs[turn][x] = dist[x]

(***************************************************************************)
(* In a network where no predecessor went stale, a packet that is sent     *)
(* reaches the edge router of its destination, whatever router it is at.   *)
(***************************************************************************)
FreshDelivers == (pc = "forward" /\ Fresh) ~> (pc = "arrived")

(***************************************************************************)
(* In a network without a dear link, the interfaces at which a packet was  *)
(* offered to the sampling as it came in are those of the path that NSP    *)
(* answers to flowd's GetPath, as far as they are monitored: what flowd    *)
(* estimates from is what the routers reported.  Where a direct link is    *)
(* dearer than a way round it, the packet is reported by an interface of   *)
(* that link and handled by the routers of the other way.                  *)
(***************************************************************************)
Watched(ad) == ad[1] \in Monitors /\ GetInterfaceMonitoringStatus(ad[1], "in", ad)

ReportsFollowPath ==
    (pc = "arrived" /\ NoDearLink /\ pkt.src # pkt.dst) =>
        {o[2] : o \in {q \in pkt.offered : q[1] = "in" /\ q[2][2] # EdgeAs}}
            = {ad \in InterfacePath(pkt.src, pkt.dst) : Watched(ad)}

=============================================================================
