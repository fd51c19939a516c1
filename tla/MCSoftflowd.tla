---------------------------- MODULE MCSoftflowd ----------------------------
(***************************************************************************)
(* softflowd's threads (Softflowd), and what becomes of the flows they     *)
(* expire, up to flowd's log (Export).  Export takes any batch of flows    *)
(* whenever it comes and Softflowd only counts its flows, so a property of *)
(* one needs no step of the other: part says whose steps a behaviour takes.*)
(***************************************************************************)
EXTENDS Softflowd, Export

MCMonitors == <<1, 2>>

Seen(a, b) == [m \in {1, 2} |-> IF m = 1 THEN a ELSE b]
Way(x, y) == [d \in 0 .. 1 |-> IF d = 0 THEN x ELSE y]
Flow(i, af, octets, stat) ==
    [af |-> af, addr |-> Way(i, 3 - i), octets |-> octets, stat |-> stat]

(* Seen by one monitor in both directions; by one monitor in one direction; *)
(* by one in the first direction and by the other in the second, with no    *)
(* octets counted; and an IPv6 flow.                                        *)
F0 == Flow(0, 4, Way(5, 7), Seen(Way(3, 2), Way(-1, -1)))
F1 == Flow(1, 4, Way(5, 0), Seen(Way(2, -1), Way(-1, -1)))
F2 == Flow(2, 4, Way(5, 6), Seen(Way(-1, 0), Way(4, -1)))
F3 == Flow(3, 6, Way(5, 6), Seen(Way(5, -1), Way(-1, -1)))

MCBatches == {<<F0, F2>>, <<F3, F1, F0>>, <<F1, F3, F3, F2>>}

Rule(match, negate, quick, action) ==
    [match |-> match, negate |-> negate, quick |-> quick, action |-> action, tag |-> 9]

(* Discard what one half of the addresses sends, except what goes to 3,     *)
(* which is tagged; and accept nothing but what agent 1 reports, whatever   *)
(* the rule for a net with host bits says.                                  *)
MCRuleLists ==
    {<<>>,
     <<Rule([src |-> <<0, 1>>], {}, FALSE, "discard"),
       Rule([dst |-> <<3, 2>>], {}, TRUE, "tag"),
       Rule([src |-> <<2, 2>>, dst |-> <<0, 1>>], {}, FALSE, "accept")>>,
     <<Rule([agent |-> <<1, 2>>], {"agent"}, TRUE, "discard"),
       Rule([src |-> <<1, 1>>], {}, FALSE, "discard")>>}

-----------------------------------------------------------------------------
VARIABLE part

\* While the threads run alone one configuration of Export is as good as any
SoftflowdInit ==
    /\ Init /\ ExportInit
    /\ \/ part = "export"
       \/ part = "threads" /\ version = 5 /\ using_emulator = 1 /\ filter_list = <<>>
          /\ crc /\ log = <<>>

Threads(action) == part = "threads" /\ action /\ UNCHANGED <<part, exportVars>>
Exporting(action) == part = "export" /\ action /\ UNCHANGED <<part, vars>>

SoftflowdNext == Threads(Next) \/ Exporting(ExportNext)

softflowdVars == <<part, vars, exportVars>>

\* The fairness of Softflowd
SoftflowdFairness ==
    /\ WF_softflowdVars(Threads(Main))
    /\ WF_softflowdVars(Threads(Emu))
    /\ WF_softflowdVars(Threads(Handler))
    /\ SF_softflowdVars(Threads(EmuTake))
    /\ SF_softflowdVars(Threads(HandlerStop))

SoftflowdSpec == SoftflowdInit /\ [][SoftflowdNext]_softflowdVars /\ SoftflowdFairness
=============================================================================
