---------------------------- MODULE ReportQueue ----------------------------
(***************************************************************************)
(* What softflowd is promised by NSP: the reports of the routers are about *)
(* packets that were loaded, they arrive one by one in the order in which  *)
(* the routers made them, none is lost or repeated on the way, and of the  *)
(* reports of one packet exactly the first is marked as such (softflowd    *)
(* counts a flow's packets by that mark).                                  *)
(***************************************************************************)
EXTENDS Naturals, Sequences

CONSTANT Interfaces    \* the interfaces that make reports

VARIABLES loaded,      \* packets loaded so far
          queue, received

vars == <<loaded, queue, received>>

Seen(id) == \E s \in {queue, received} : \E i \in DOMAIN s : s[i].id = id

Init == loaded = 0 /\ queue = <<>> /\ received = <<>>

Load ==
    /\ loaded' = loaded + 1
    /\ UNCHANGED <<queue, received>>

Put(id, at) ==
    /\ queue' = Append(queue, [id |-> id, at |-> at, first |-> ~Seen(id)])
    /\ UNCHANGED <<loaded, received>>

Deliver ==
    /\ queue # <<>>
    /\ received' = Append(received, Head(queue))
    /\ queue' = Tail(queue)
    /\ UNCHANGED loaded

Next ==
    \/ Load
    \/ \E id \in 1..loaded, at \in Interfaces : Put(id, at)
    \/ Deliver

Spec == Init /\ [][Next]_vars

=============================================================================
