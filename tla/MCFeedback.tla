----------------------------- MODULE MCFeedback -----------------------------
(***************************************************************************)
(* The control loop: flowd's estimation, which asks for paths and rates    *)
(* (Feedback), and the server of NSP that answers (Manager).  Feedback     *)
(* allows every outcome of a request and Manager every order of requests,  *)
(* so a property of one needs no step of the other: part says whose steps  *)
(* a behaviour takes.                                                      *)
(***************************************************************************)
EXTENDS Feedback, Manager

\* Two couples of ASs: the first has a flow both monitors report and one the
\* second monitor reports, the other one a flow of the second monitor.
MCSources == {<<1, "f", 1>>, <<1, "f", 2>>, <<1, "g", 2>>, <<2, "f", 2>>}

-----------------------------------------------------------------------------
\* Two transit networks, three routers; requests for interfaces of each
\* router, for one that no router has, for a path, and to stop.
MCNetworks == << <<{"a"}, {"b"}>>, <<{"c"}>> >>
MCInitial == <<1, 100>>

Rate(ip, p1) == [kind |-> "rate", ip |-> ip, rate |-> <<p1, 100>>]

MCRequests ==
    {Rate("a", 0), Rate("b", 5), Rate("b", 100), Rate("c", 5), Rate("x", 5),
     [kind |-> "path", from |-> 1, to |-> 2], [kind |-> "end"]}

-----------------------------------------------------------------------------
VARIABLE part

LoopInit == Init /\ ManagerInit /\ part \in {"estimation", "control"}

Estimating(action) == part = "estimation" /\ action /\ UNCHANGED <<part, managerVars>>
Controlling(action) == part = "control" /\ action /\ UNCHANGED <<part, vars>>

LoopNext == Estimating(Next) \/ Controlling(ManagerNext)

loopVars == <<part, vars, managerVars>>

\* The fairness of Feedback and of Manager, for the side that takes steps
LoopFairness ==
    /\ WF_loopVars(Estimating(AddFlowCount))
    /\ WF_loopVars(Estimating(fcompteurRead))
    /\ WF_loopVars(Estimating(fcompteurWrite))
    /\ WF_loopVars(Estimating(Estimation))
    /\ WF_loopVars(Controlling(Server))
    /\ \A c \in Clients :
          WF_loopVars(Controlling(\E req \in Requests : Write(c, req)))

LoopSpec == LoopInit /\ [][LoopNext]_loopVars /\ LoopFairness
=============================================================================
