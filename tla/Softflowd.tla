----------------------------- MODULE Softflowd -----------------------------
(***************************************************************************)
(* The threads of softflowd in the emulator mode and how they stop: main's *)
(* loop (softflowd.c), the emulator thread (EmulatorInterface.c), the      *)
(* control server (ControlServer.c) and the handler of SIGTERM and SIGINT, *)
(* which runs on top of whichever thread the system picks.                 *)
(*                                                                         *)
(* The threads share the flow table under flow_expiry_sem, the flag        *)
(* StopsEmulatorThread under end_msg and the list of sampling nodes.  Each *)
(* GetStopsEmulatorThread is two steps here, because a signal that arrives *)
(* between its sem_wait and its sem_post makes the handler wait for the    *)
(* thread it has interrupted.                                              *)
(*                                                                         *)
(* The table is abstracted to the number of its flows and the number of    *)
(* those that are marked for immediate expiry; module FlowTrack has the    *)
(* rest.  Of the control server only its end is here; module Sampling has  *)
(* its requests.                                                           *)
(***************************************************************************)
EXTENDS Naturals

CONSTANTS
    MaxFlows,     \* max_flows
    Capacity      \* bound: flows the table ever holds

ASSUME SoftflowdAssumption ==
    /\ MaxFlows \in Nat
    /\ Capacity \in Nat

VARIABLES
    main,                  \* where main is
    exit_request,          \* main has drained the table and left the loop
    emu,                   \* where the emulator thread is
    ctl,                   \* where the control server is
    StopsControlServer,
    handler,               \* where the signal handler is
    host,                  \* the thread it runs on
    graceful_shutdown_request,
    holder,                \* who is inside Get/SetStopsEmulatorThread
    flow_expiry_sem,
    StopsEmulatorThread,
    listFreed,             \* FreeListNodes has run
    num_flows,
    marked                 \* flows with expires_at = 0

mainVars == <<main, exit_request>>
ctlVars == <<ctl, StopsControlServer>>
sigVars == <<handler, host, graceful_shutdown_request>>
lockVars == <<holder, flow_expiry_sem>>
tableVars == <<num_flows, marked>>
vars == <<mainVars, emu, ctlVars, sigVars, lockVars, StopsEmulatorThread,
          listFreed, tableVars>>

MainPc == {"poll", "due", "enter", "wait", "expire", "over", "leave",
           "shutdown", "lastwait", "flush", "lastpost", "cleanup", "exited"}
EmuPc == {"check", "wait", "recv", "work", "post", "endpost", "stop", "send", "gone"}

Init ==
    /\ main = "poll"
    /\ exit_request = FALSE
    /\ emu = "check"
    /\ ctl = "accept"
    /\ StopsControlServer = FALSE
    /\ handler = "none"
    /\ host = "none"
    /\ graceful_shutdown_request = FALSE
    /\ holder = "nobody"
    /\ flow_expiry_sem = 1
    /\ StopsEmulatorThread = FALSE
    /\ listFreed = FALSE
    /\ num_flows = 0
    /\ marked = 0

(* A thread runs while the process lives and no handler runs on top of it. *)
Runs(t) == main # "exited" /\ (handler \in {"none", "done"} \/ host # t)

(* sem_wait(&end_msg) of a thread *)
TakeEndMsg(t) ==
    /\ Runs(t)
    /\ holder = "nobody"
    /\ holder' = t

(* sem_post(&end_msg) *)
GiveEndMsg(t) ==
    /\ Runs(t)
    /\ holder = t
    /\ holder' = "nobody"

-----------------------------------------------------------------------------
(* main *)

MainUnchanged == UNCHANGED <<emu, ctlVars, sigVars, StopsEmulatorThread>>

(* Where main calls GetStopsEmulatorThread.  In "due" and "over" it does   *)
(* so only when the table is not over full, after the loop only to shut    *)
(* down gracefully.                                                        *)
MainTake ==
    /\ main \in {"poll", "due", "enter", "over", "leave", "shutdown", "lastpost"}
    /\ main \in {"due", "over"} => num_flows <= MaxFlows
    /\ main = "shutdown" => graceful_shutdown_request
    /\ TakeEndMsg("main")
    /\ MainUnchanged /\ UNCHANGED <<mainVars, flow_expiry_sem, listFreed, tableVars>>

(* The flag is read and the semaphore posted; main goes where the flag     *)
(* sends it.                                                               *)
MainGive(pc, next) ==
    /\ main = pc
    /\ GiveEndMsg("main")
    /\ main' = next
    /\ MainUnchanged /\ UNCHANGED listFreed

(* poll, only while the flag is clear; when it fails main leaves the loop. *)
MainPolled ==
    /\ \/ MainGive("poll", "due")
       \/ ~StopsEmulatorThread /\ MainGive("poll", "shutdown")
    /\ UNCHANGED <<exit_request, flow_expiry_sem, tableVars>>

(* num_flows > max_flows or next_expire() = 0, read without a semaphore    *)
MainDue ==
    /\ Runs("main")
    /\ main = "due"
    /\ holder # "main"
    /\ num_flows > 0
    /\ main' = "enter"
    /\ MainUnchanged /\ UNCHANGED <<exit_request, lockVars, listFreed, tableVars>>

MainNotDue ==
    /\ MainGive("due", IF StopsEmulatorThread THEN "enter" ELSE "poll")
    /\ UNCHANGED <<exit_request, flow_expiry_sem, tableVars>>

(* Mutated form: main never waits for the semaphore.                       *)
MainEnter_Never ==
    /\ MainGive("enter", "expire")
    /\ UNCHANGED <<exit_request, flow_expiry_sem, tableVars>>

MainEnter ==
    /\ MainGive("enter", IF StopsEmulatorThread THEN "expire" ELSE "wait")
    /\ UNCHANGED <<exit_request, flow_expiry_sem, tableVars>>

(* sem_wait(&flow_expiry_sem) *)
MainWait(pc, next) ==
    /\ Runs("main")
    /\ main = pc
    /\ flow_expiry_sem > 0
    /\ flow_expiry_sem' = flow_expiry_sem - 1
    /\ main' = next
    /\ MainUnchanged /\ UNCHANGED <<exit_request, holder, listFreed, tableVars>>

MainLocked == MainWait("wait", "expire")

(* check_expired: the marked flows go and left others stay.                *)
MainExpire(pc, next, left) ==
    /\ Runs("main")
    /\ main = pc
    /\ num_flows' = left
    /\ marked' = 0
    /\ main' = next
    /\ MainUnchanged /\ UNCHANGED <<exit_request, lockVars, listFreed>>

MainChecked ==
    \E left \in {n \in 0 .. num_flows : n <= num_flows - marked} :
        MainExpire("expire", "over", left)

(* more flows than max_flows: force_expire and once more                   *)
MainOverFull ==
    /\ Runs("main")
    /\ main = "over"
    /\ holder # "main"
    /\ num_flows > MaxFlows
    /\ marked' = num_flows - MaxFlows
    /\ main' = "expire"
    /\ MainUnchanged /\ UNCHANGED <<exit_request, lockVars, listFreed, num_flows>>

(* Mutated form: after the end main leaves the loop without draining.      *)
MainOver_NoDrain ==
    /\ MainGive("over", IF StopsEmulatorThread THEN "shutdown" ELSE "leave")
    /\ exit_request' = StopsEmulatorThread
    /\ UNCHANGED <<flow_expiry_sem, num_flows, marked>>

(* After the end: force everything out and once more, or leave the loop.   *)
MainOver ==
    /\ MainGive("over", IF ~StopsEmulatorThread THEN "leave"
                        ELSE IF num_flows > 0 THEN "expire" ELSE "shutdown")
    /\ exit_request' = (StopsEmulatorThread /\ num_flows = 0)
    /\ marked' = IF StopsEmulatorThread THEN num_flows ELSE marked
    /\ UNCHANGED <<flow_expiry_sem, num_flows>>

(* sem_post only if the flag is still clear: asked a second time           *)
MainLeave ==
    /\ MainGive("leave", "poll")
    /\ flow_expiry_sem' = IF StopsEmulatorThread THEN flow_expiry_sem
                          ELSE flow_expiry_sem + 1
    /\ UNCHANGED <<exit_request, tableVars>>

(* After the loop.  graceful_shutdown_request is looked at only here.      *)
MainAbrupt ==
    /\ Runs("main")
    /\ main = "shutdown"
    /\ ~graceful_shutdown_request
    /\ main' = "cleanup"
    /\ MainUnchanged /\ UNCHANGED <<exit_request, lockVars, listFreed, tableVars>>

MainGraceful ==
    /\ MainGive("shutdown", IF StopsEmulatorThread THEN "flush" ELSE "lastwait")
    /\ UNCHANGED <<exit_request, flow_expiry_sem, tableVars>>

MainLastLock == MainWait("lastwait", "flush")

(* check_expired with CE_EXPIRE_ALL, which still passes over the flows of  *)
(* one packet (expires_at = 1)                                             *)
MainFlushed ==
    \E left \in {n \in 0 .. num_flows : n <= num_flows - marked} :
        MainExpire("flush", "lastpost", left)

MainLastPost ==
    /\ MainGive("lastpost", "cleanup")
    /\ flow_expiry_sem' = IF StopsEmulatorThread THEN flow_expiry_sem
                          ELSE flow_expiry_sem + 1
    /\ UNCHANGED <<exit_request, tableVars>>

(* sem_destroy, FreeListNodes and the end of the process                   *)
MainCleanup ==
    /\ Runs("main")
    /\ main = "cleanup"
    /\ listFreed' = TRUE
    /\ main' = "exited"
    /\ MainUnchanged /\ UNCHANGED <<exit_request, lockVars, tableVars>>

Main ==
    \/ MainTake \/ MainPolled \/ MainDue \/ MainNotDue \/ MainEnter
    \/ MainLocked \/ MainChecked \/ MainOverFull \/ MainOver \/ MainLeave
    \/ MainAbrupt \/ MainGraceful \/ MainLastLock \/ MainFlushed
    \/ MainLastPost \/ MainCleanup

-----------------------------------------------------------------------------
(* The emulator thread: EmulatorThreadProcess *)

EmuUnchanged == UNCHANGED <<mainVars, sigVars, listFreed>>

EmuTake ==
    /\ emu \in {"check", "stop"}
    /\ TakeEndMsg("emu")
    /\ EmuUnchanged
    /\ UNCHANGED <<emu, ctlVars, flow_expiry_sem, StopsEmulatorThread, tableVars>>

EmuChecked ==
    /\ emu = "check"
    /\ GiveEndMsg("emu")
    /\ emu' = IF StopsEmulatorThread THEN "gone" ELSE "wait"
    /\ EmuUnchanged
    /\ UNCHANGED <<ctlVars, flow_expiry_sem, StopsEmulatorThread, tableVars>>

EmuLocked ==
    /\ Runs("emu")
    /\ emu = "wait"
    /\ flow_expiry_sem > 0
    /\ flow_expiry_sem' = flow_expiry_sem - 1
    /\ emu' = "recv"
    /\ EmuUnchanged /\ UNCHANGED <<ctlVars, holder, StopsEmulatorThread, tableVars>>

(* Mutated form: the flag is set as soon as "end" is received, before the  *)
(* thread has let go of the table.                                         *)
EmuReceive_Stops ==
    /\ Runs("emu")
    /\ emu = "recv"
    /\ emu' \in {"work", "endpost"}
    /\ StopsEmulatorThread' = TRUE
    /\ EmuUnchanged /\ UNCHANGED <<ctlVars, lockVars, tableVars>>

(* recvfrom returns a packet, or "end"; until then the thread sleeps with  *)
(* the semaphore.                                                          *)
EmuReceive ==
    /\ Runs("emu")
    /\ emu = "recv"
    /\ emu' \in {"work", "endpost"}
    /\ EmuUnchanged /\ UNCHANGED <<ctlVars, lockVars, StopsEmulatorThread, tableVars>>

(* RandomPeriodicNodeSampling and process_emulator_packet                  *)
EmuWork ==
    /\ Runs("emu")
    /\ emu = "work"
    /\ emu' = "post"
    /\ num_flows' \in {num_flows} \cup {n \in {num_flows + 1} : n <= Capacity}
    /\ EmuUnchanged /\ UNCHANGED <<ctlVars, lockVars, StopsEmulatorThread, marked>>

EmuPost ==
    /\ Runs("emu")
    /\ emu \in {"post", "endpost"}
    /\ flow_expiry_sem' = flow_expiry_sem + 1
    /\ emu' = IF emu = "post" THEN "check" ELSE "stop"
    /\ EmuUnchanged /\ UNCHANGED <<ctlVars, holder, StopsEmulatorThread, tableVars>>

(* SetStopsEmulatorThread *)
EmuStop ==
    /\ emu = "stop"
    /\ GiveEndMsg("emu")
    /\ StopsEmulatorThread' = TRUE
    /\ emu' = "send"
    /\ EmuUnchanged /\ UNCHANGED <<ctlVars, flow_expiry_sem, tableVars>>

(* SendEndMsg; the control server may be gone or the connection fail.      *)
EmuSend ==
    /\ Runs("emu")
    /\ emu = "send"
    /\ ctl' \in {ctl, IF ctl = "accept" THEN "end" ELSE ctl}
    /\ emu' = "gone"
    /\ EmuUnchanged
    /\ UNCHANGED <<StopsControlServer, lockVars, StopsEmulatorThread, tableVars>>

Emu == EmuTake \/ EmuChecked \/ EmuLocked \/ EmuWork \/ EmuPost \/ EmuStop \/ EmuSend

(* The control server has the "end" message: it sets its flag, finds it    *)
(* set when it is done with the client, and ends.                          *)
CtlEnd ==
    /\ main # "exited"
    /\ ctl = "end"
    /\ StopsControlServer' = TRUE
    /\ ctl' = "gone"
    /\ UNCHANGED <<mainVars, emu, sigVars, lockVars, StopsEmulatorThread,
                   listFreed, tableVars>>

-----------------------------------------------------------------------------
(* sighand_graceful_shutdown *)

HandlerUnchanged == UNCHANGED <<mainVars, emu, ctl, lockVars, tableVars>>

Deliver(t) ==
    /\ main # "exited"
    /\ handler = "none"
    /\ t = "emu" => emu # "gone"
    /\ handler' = "stop"
    /\ host' = t
    /\ graceful_shutdown_request' = TRUE
    /\ HandlerUnchanged
    /\ UNCHANGED <<StopsEmulatorThread, StopsControlServer, listFreed>>

(* SetStopsEmulatorThread, then StopsControlServer = 1                     *)
HandlerStop ==
    /\ main # "exited"
    /\ handler = "stop"
    /\ holder = "nobody"
    /\ StopsEmulatorThread' = TRUE
    /\ StopsControlServer' = TRUE
    /\ handler' = "free"
    /\ HandlerUnchanged /\ UNCHANGED <<host, graceful_shutdown_request, listFreed>>

(* FreeListNodes *)
HandlerFree ==
    /\ main # "exited"
    /\ handler = "free"
    /\ listFreed' = TRUE
    /\ handler' = "done"
    /\ HandlerUnchanged
    /\ UNCHANGED <<host, graceful_shutdown_request, StopsEmulatorThread,
                   StopsControlServer>>

Handler == HandlerStop \/ HandlerFree

-----------------------------------------------------------------------------

Next ==
    \/ Main \/ Emu \/ EmuReceive \/ CtlEnd
    \/ \E t \in {"main", "emu"} : Deliver(t)
    \/ Handler

Spec == Init /\ [][Next]_vars

(* The system schedules every thread that can run; packets and signals     *)
(* need not come.  main asks for end_msg all the time, so the emulator     *)
(* thread and the handler get it only because a waiter goes ahead sooner   *)
(* or later.                                                               *)
FairSpec ==
    /\ Spec
    /\ WF_vars(Main) /\ WF_vars(Emu) /\ WF_vars(Handler)
    /\ SF_vars(EmuTake) /\ SF_vars(HandlerStop)

-----------------------------------------------------------------------------
(* Properties *)

(* flow_expiry_sem stays binary although who posts it depends on a flag    *)
(* that is read anew each time.                                            *)
TypeOK ==
    /\ main \in MainPc
    /\ exit_request \in BOOLEAN
    /\ emu \in EmuPc
    /\ ctl \in {"accept", "end", "gone"}
    /\ StopsControlServer \in BOOLEAN
    /\ handler \in {"none", "stop", "free", "done"}
    /\ host \in {"none", "main", "emu"}
    /\ graceful_shutdown_request \in BOOLEAN
    /\ holder \in {"nobody", "main", "emu"}
    /\ flow_expiry_sem \in {0, 1}
    /\ StopsEmulatorThread \in BOOLEAN
    /\ listFreed \in BOOLEAN
    /\ num_flows \in Nat
    /\ marked \in Nat

(* main is where check_expired and force_expire change the trees           *)
MainInTable == main \in {"expire", "over", "flush"}

(* Until the signal handler has set the flag, the emulator thread is never *)
(* in the table while main changes the trees, although main enters without *)
(* the semaphore when it finds the flag set; and the list of sampling      *)
(* nodes it reads has not been freed under a running process.              *)
TableExclusive ==
    emu = "work" /\ main # "exited" /\ handler \in {"none", "stop"}
        => ~MainInTable /\ ~listFreed

-----------------------------------------------------------------------------
(* What makes TableExclusive inductive *)

EmuHasTable == emu \in {"recv", "work", "post", "endpost"}
MainHasTable == main \in {"expire", "over", "leave", "flush", "lastpost"}

(* One semaphore, at most one owner.  While the flag is clear main is past *)
(* its sem_wait only as the owner, and at "leave" it is the owner          *)
(* whatever has become of the flag.                                        *)
SemaphoreOwned ==
    /\ EmuHasTable => flow_expiry_sem = 0
    /\ ~StopsEmulatorThread /\ MainHasTable => flow_expiry_sem = 0 /\ ~EmuHasTable
    /\ main = "leave" => flow_expiry_sem = 0 /\ ~EmuHasTable

(* Only the emulator thread on its way out and the handler set the flag.   *)
FlagSetBy ==
    StopsEmulatorThread /\ handler \in {"none", "stop"} => emu \in {"send", "gone"}

(* Only the handler and the end of main free the list.                     *)
ListFreedBy == listFreed => main = "exited" \/ handler = "done"

IndInv == TypeOK /\ SemaphoreOwned /\ FlagSetBy /\ ListFreedBy

-----------------------------------------------------------------------------

(* The two ways in which a signal does not end the process: the handler    *)
(* waits for end_msg that its own thread holds, or main waits for the      *)
(* table that the emulator thread holds while it sleeps in recvfrom.       *)
SelfDeadlock == handler = "stop" /\ holder = host
Held == main \in {"wait", "lastwait"} /\ emu = "recv"

(* "end" from the emulator ends the process, even while main keeps asking  *)
(* for the flag, and if it ends by its exit_request the table is empty (a  *)
(* signal may come first; a failed poll is the other way out).  After a    *)
(* signal the process ends, unless it stays in one of the two above for    *)
(* ever (EmulatorThreadProcess, sighand_graceful_shutdown, main).          *)
StopsOnRequest ==
    /\ emu = "endpost" ~> \/ handler # "none"
                          \/ main = "exited" /\ (exit_request => num_flows = 0)
    /\ handler # "none" ~> main = "exited" \/ []SelfDeadlock \/ []Held

(* softflowd.8: upon receipt of a SIGTERM or SIGINT softflowd will exit,   *)
(* after expiring all flows.                                               *)
SignalExits == handler # "none" ~> main = "exited"

=============================================================================
