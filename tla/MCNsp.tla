------------------------------- MODULE MCNsp -------------------------------
(***************************************************************************)
(* NSP: the threads that play the traces (Playback), and the tables and    *)
(* the forwarding of the packets they send (Routing).  Playback knows of a *)
(* route only the interfaces on it and Routing of the threads nothing, so  *)
(* a property of one needs no step of the other: part says whose steps a   *)
(* behaviour takes.                                                        *)
(***************************************************************************)
EXTENDS Playback, Routing

\* Two ASs, three addresses of two prefixes and two classes.  The traces are
\* one file of three packets and a second one of one, in any order of times,
\* with an invalid packet among them or none.
MCPrefix  == [ip \in 1..3 |-> IF ip = 3 THEN 2 ELSE 1]
MCClassOf == [ip \in 1..3 |-> ip]
MCAsClass == [a \in {1, 2} |-> IF a = 1 THEN 1 ELSE 3]
MCCouples == <<<<1, 1>>, <<1, 2>>, <<2, 1>>, <<2, 2>>>>
MCRoute   == [c \in {1, 2} \X {1, 2} |-> IF c = <<1, 2>> THEN <<11, 21>> ELSE IF c = <<2, 1>> THEN <<21>> ELSE <<>>]

P(ts, s, d) == [ts |-> ts, src |-> s, dst |-> d, valid |-> TRUE]
Invalid == [P(1, 1, 3) EXCEPT !.valid = FALSE]
First == {P(2, 1, 3), P(1, 1, 2)}
Second == {P(2, 1, 3), P(1, 2, 1), Invalid}
MCPackets == First \cup Second \cup {P(2, 3, 1), P(1, 1, 3)}
MCTraces == {<<<<a, b, P(2, 3, 1)>>, <<P(1, 1, 3)>>>> : a \in First, b \in Second}

-----------------------------------------------------------------------------
\* Two of the routers are monitors: the first samples what comes in from two
\* of its neighbours and what goes to its AS, the second everything.
MCMonitored ==
    {<<"in", <<2, 1>>>>, <<"in", <<2, 3>>>>, <<"out", <<2, 0>>>>}
        \cup ({"in", "out"} \X ({3} \X {0, 1, 2, 4}))

-----------------------------------------------------------------------------
VARIABLE part

\* For each part one beginning of the other is as good as any
NspInit ==
    /\ Init /\ RoutingInit
    /\ \/ part = "playback" /\ link = [a \in Routers |-> [b \in Routers |->
                                          IF a = b THEN NoLink ELSE Min(Costs)]]
       \/ part = "routing" /\ method = 1 /\ left = CHOOSE t \in Traces : TRUE

Playing(action) == part = "playback" /\ action /\ UNCHANGED <<part, routingVars>>
Routed(action) == part = "routing" /\ action /\ UNCHANGED <<part, vars>>

NspNext == Playing(Next) \/ Routed(RoutingNext)

nspVars == <<part, vars, routingVars>>

\* The fairness of Playback and of Routing, for the side that takes steps
NspFairness ==
    /\ WF_nspVars(Playing(LoaderStep))
    /\ WF_nspVars(Playing(SenderStep))
    /\ WF_nspVars(Playing(IfaceStep))
    /\ WF_nspVars(Routed(ForwardHop))
    /\ WF_nspVars(Routed(ForwardLast))

NspSpec == NspInit /\ [][NspNext]_nspVars /\ NspFairness
=============================================================================
