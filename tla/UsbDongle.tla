------------------------------ MODULE UsbDongle ------------------------------
(***************************************************************************)
(* The tasks of 4g_donlg (usb_net.c), which shares a cellular connection   *)
(* over USB and serves a management page.                                  *)
(*                                                                         *)
(* The main task brings the connection up and then polls the one pending   *)
(* action; the portal task serves one client after another and may set     *)
(* that action, and so may the task of the protocol button.  The status    *)
(* task writes a status that the portal reads without a lock: a sequence   *)
(* number that is odd during a write tells the reader to try again.        *)
(*                                                                         *)
(* A status is a version number, copied in two parts.  The page, the texts *)
(* and the policy form, which nothing enforces, are left out.              *)
(***************************************************************************)
EXTENDS Integers, FiniteSets

CONSTANTS
    MaxStores    \* bound: statuses written after the first

ASSUME UsbDongleAssumption == MaxStores \in Nat

VARIABLES
    main,      \* the main task: pc, action being executed, target passed to it
    pending,   \* g_usbnet_demo_pending_action
    type,      \* protocol: g_..current_type, g_..target_type, SDK's setting
    status,    \* the status task: pc, version; g_..status_seq, cached status
    portal,    \* the portal task: pc, request; the status it copies
    open,      \* ports with a listening socket
    waiting,   \* ports with a client in the backlog
    button     \* where the button task is

service == <<status, portal, open, waiting, button>>
vars    == <<main, pending, type, service>>

Ports    == {"captive", "page"}   \* 80 and 8080
Requests == {"CONNECT", "DISCONNECT", "REBOOT"}
Actions  == Requests \cup {"SWITCH"}
Types    == {"RNDIS", "ECM"}

normalize_type(t) == IF t = "ECM" THEN "ECM" ELSE "RNDIS"
toggle_type(t)    == IF normalize_type(t) = "RNDIS" THEN "ECM" ELSE "RNDIS"

Idle       == [pc |-> "poll", act |-> "NONE", target |-> "RNDIS"]
NoStatus   == [pc |-> "off", ver |-> 0, seq |-> 0, head |-> 0, tail |-> 0]
NoPortal   == [pc |-> "off", req |-> "PAGE", seq |-> 0, head |-> 0, tail |-> 0]

(* Power-on: all but the protocol kept by the SDK starts afresh.            *)
Off == [Idle EXCEPT !.pc = "boot"]
FirstType(flash) == [current |-> "RNDIS", target |-> "RNDIS", flash |-> flash]

Init ==
    /\ main = Off
    /\ pending = "NONE"
    /\ type \in {FirstType(flash) : flash \in Types \cup {"OTHER"}}
    /\ status = NoStatus
    /\ portal = NoPortal
    /\ open = {} /\ waiting = {}
    /\ button = "off"

-----------------------------------------------------------------------------
(* The main task: start-up                                                  *)

Goto(pc) == main' = [main EXCEPT !.pc = pc]

(* Where the main task stands after `exit:': the other tasks are deleted.   *)
Exit ==
    /\ Goto("gone")
    /\ status' = [status EXCEPT !.pc = "off"]
    /\ portal' = [portal EXCEPT !.pc = "off"]
    /\ UNCHANGED <<open, waiting, button>>

(* The protocol the SDK has is kept, or replaced by one it can have.        *)
CheckType ==
    /\ main.pc = "boot"
    /\ LET t == normalize_type(type.flash)
       IN  /\ type' \in {[current |-> t, target |-> t, flash |-> f] : f \in {type.flash, t}}
           /\ IF t = type.flash THEN Goto("attach") /\ UNCHANGED service
              ELSE IF type'.flash = t THEN Goto("reset") /\ UNCHANGED service
              ELSE Exit
    /\ UNCHANGED pending

Attach ==
    /\ main.pc = "attach"
    /\ \/ Goto("dial") /\ UNCHANGED service
       \/ Exit
    /\ UNCHANGED <<pending, type>>

(* The data call is up or can be started.                                   *)
Dial ==
    /\ main.pc = "dial"
    /\ \/ Goto("share") /\ UNCHANGED service
       \/ Exit
    /\ UNCHANGED <<pending, type>>

(* Memory, configuration and usbnet_start: any of them may fail.            *)
Share ==
    /\ main.pc = "share"
    /\ \/ Goto("serve") /\ UNCHANGED service
       \/ Exit
    /\ UNCHANGED <<pending, type>>

(* A first status is stored and the tasks are created, the status task     *)
(* first; the button task is optional.                                      *)
Serve ==
    /\ main.pc = "serve"
    /\ \/ Exit
       \/ /\ Goto("poll")
          /\ status' = [status EXCEPT !.pc = "idle", !.seq = @ + 2]
          /\ portal' = [portal EXCEPT !.pc = "closed"]
          /\ button' \in {"off", "up"}
          /\ UNCHANGED <<open, waiting>>
    /\ UNCHANGED <<pending, type>>

Startup == CheckType \/ Attach \/ Dial \/ Share \/ Serve

-----------------------------------------------------------------------------
(* The main task: process_pending_action                                    *)

(* The pending action is read ...                                           *)
TakeAction ==
    /\ main.pc = "poll"
    /\ pending # "NONE"
    /\ main' = [main EXCEPT !.pc = "clear", !.act = pending]
    /\ UNCHANGED <<pending, type, service>>

First == [CONNECT |-> "redial", DISCONNECT |-> "stop", SWITCH |-> "stop", REBOOT |-> "reset"]

(* ... and cleared in a later step, before it is executed.                  *)
ClearAction ==
    /\ main.pc = "clear"
    /\ pending' = "NONE"
    /\ main' = [main EXCEPT !.pc = First[main.act],
                            !.target = IF main.act = "SWITCH" THEN type.target ELSE @]
    /\ UNCHANGED <<type, service>>

Done_Wrong ==
    /\ main' = Idle
    /\ pending' = "NONE"

Done ==
    /\ main' = Idle
    /\ UNCHANGED pending

(* connect_data, up to the data call, which may be up already or fail.      *)
Redial ==
    /\ main.pc = "redial"
    /\ \/ Goto("reshare") /\ UNCHANGED pending
       \/ Done
    /\ UNCHANGED <<type, service>>

(* connect_data, the rest: whether the SDK starts or not, and stop_usbnet,  *)
(* whose failure is only logged.                                            *)
Reshare ==
    /\ main.pc = "reshare"
    /\ Done
    /\ UNCHANGED <<type, service>>

StopUsbnet ==
    /\ main.pc = "stop"
    /\ Goto("hangup")
    /\ UNCHANGED <<pending, type, service>>

(* qosa_datacall_stop; a switch goes on with the protocol.                  *)
Hangup ==
    /\ main.pc = "hangup"
    /\ IF main.act = "SWITCH" THEN Goto("set") /\ UNCHANGED pending ELSE Done
    /\ UNCHANGED <<type, service>>

(* qosa_usbnet_set_type works at the first or the second try, or not.       *)
SwitchType_Wrong ==
    /\ main.pc = "set"
    /\ \/ /\ type' = [type EXCEPT !.flash = main.target, !.current = main.target]
          /\ Goto("reset") /\ UNCHANGED pending
       \/ Done /\ type' = [type EXCEPT !.current = main.target]
    /\ UNCHANGED service

SwitchType ==
    /\ main.pc = "set"
    /\ \/ /\ type' = [type EXCEPT !.flash = main.target, !.current = main.target]
          /\ Goto("reset") /\ UNCHANGED pending
       \/ Done /\ UNCHANGED type
    /\ UNCHANGED service

(* qosa_power_reset                                                         *)
Reset ==
    /\ main.pc = "reset"
    /\ main' = Off
    /\ pending' = "NONE"
    /\ type' = FirstType(type.flash)
    /\ status' = NoStatus
    /\ portal' = NoPortal
    /\ open' = {} /\ waiting' = {}
    /\ button' = "off"

ProcessPending ==
    TakeAction \/ ClearAction \/ Redial \/ Reshare \/ StopUsbnet \/ Hangup \/ SwitchType

MainTask == Startup \/ ProcessPending \/ Reset

-----------------------------------------------------------------------------
(* The status task: store_portal_status, the number odd while it copies     *)

StoreBegin_Wrong ==
    /\ status.pc = "idle"
    /\ status.ver < MaxStores
    /\ status' = [status EXCEPT !.pc = "head", !.ver = @ + 1]

StoreBegin ==
    /\ status.pc = "idle"
    /\ status.ver < MaxStores
    /\ status' = [status EXCEPT !.pc = "head", !.ver = @ + 1, !.seq = @ + 1]

StoreHead ==
    /\ status.pc = "head"
    /\ status' = [status EXCEPT !.pc = "tail", !.head = status.ver]

StoreTail ==
    /\ status.pc = "tail"
    /\ status' = [status EXCEPT !.pc = "end", !.tail = status.ver]

StoreEnd ==
    /\ status.pc = "end"
    /\ status' = [status EXCEPT !.pc = "idle", !.seq = @ + 1]

StatusTask ==
    /\ StoreBegin \/ StoreHead \/ StoreTail \/ StoreEnd
    /\ UNCHANGED <<main, pending, type, portal, open, waiting, button>>

-----------------------------------------------------------------------------
(* The portal task: its sockets                                             *)

(* Both ports are opened; with neither it tries again after a second.       *)
Listen ==
    /\ portal.pc = "closed"
    /\ open' \in (SUBSET Ports) \ {{}}
    /\ portal' = [portal EXCEPT !.pc = "select"]
    /\ UNCHANGED <<pending, waiting>>

SelectFails_Wrong ==
    /\ portal.pc = "select"
    /\ portal' = [portal EXCEPT !.pc = "closed"]
    /\ open' = {}
    /\ UNCHANGED <<pending, waiting>>

(* select fails: the sockets are closed and clients in the backlog lost.    *)
SelectFails ==
    /\ portal.pc = "select"
    /\ portal' = [portal EXCEPT !.pc = "closed"]
    /\ open' = {} /\ waiting' = {}
    /\ UNCHANGED pending

Accept_Wrong ==
    /\ portal.pc = "select"
    /\ waiting # {}
    /\ \E port \in open :
           /\ "captive" \in open => port = "captive"
           /\ waiting' = waiting \ {port}
           /\ portal' \in {portal, [portal EXCEPT !.pc = "recv"]}
    /\ UNCHANGED <<pending, open>>

(* A client on the captive port goes first; accept may fail.                *)
Accept ==
    /\ portal.pc = "select"
    /\ \E port \in waiting :
           /\ "captive" \in waiting => port = "captive"
           /\ waiting' = waiting \ {port}
           /\ portal' \in {portal, [portal EXCEPT !.pc = "recv"]}
    /\ UNCHANGED <<pending, open>>

-----------------------------------------------------------------------------
(* The portal task: handle_portal_client                                    *)

(* recv has no timeout: the client sends a request or closes.  A request    *)
(* for the page, the policy form and the status differ only in the answer.  *)
Recv ==
    /\ portal.pc = "recv"
    /\ \/ portal' = [portal EXCEPT !.pc = "select"]
       \/ portal' = [portal EXCEPT !.pc = "begin"]
       \/ \E req \in Requests : portal' = [portal EXCEPT !.pc = "check", !.req = req]
    /\ UNCHANGED <<pending, open, waiting>>

(* queue_control_action: refused while an action is pending ...             *)
CheckPending ==
    /\ portal.pc = "check"
    /\ portal' = IF pending = "NONE" THEN [portal EXCEPT !.pc = "set"]
                 ELSE [NoPortal EXCEPT !.pc = "begin"]
    /\ UNCHANGED <<pending, open, waiting>>

(* ... and queued in a later step.                                          *)
SetPending ==
    /\ portal.pc = "set"
    /\ pending' = portal.req
    /\ portal' = [NoPortal EXCEPT !.pc = "begin"]
    /\ UNCHANGED <<open, waiting>>

(* load_portal_status: copies between two looks at the number.              *)
LoadBegin ==
    /\ portal.pc = "begin"
    /\ portal' = [portal EXCEPT !.pc = "head", !.seq = status.seq]
    /\ UNCHANGED <<pending, open, waiting>>

LoadHead ==
    /\ portal.pc = "head"
    /\ portal' = [portal EXCEPT !.pc = "tail", !.head = status.head]
    /\ UNCHANGED <<pending, open, waiting>>

LoadTail ==
    /\ portal.pc = "tail"
    /\ portal' = [portal EXCEPT !.pc = "end", !.tail = status.tail]
    /\ UNCHANGED <<pending, open, waiting>>

LoadEnd ==
    /\ portal.pc = "end"
    /\ portal' = [portal EXCEPT !.pc = IF portal.seq % 2 = 1 \/ portal.seq # status.seq
                                       THEN "begin" ELSE "answer"]
    /\ UNCHANGED <<pending, open, waiting>>

Answer ==
    /\ portal.pc = "answer"
    /\ portal' = [NoPortal EXCEPT !.pc = "select"]
    /\ UNCHANGED <<pending, open, waiting>>

Handle ==
    \/ CheckPending \/ SetPending
    \/ LoadBegin \/ LoadHead \/ LoadTail \/ LoadEnd \/ Answer

PortalTask ==
    /\ Listen \/ SelectFails \/ Accept \/ Recv \/ Handle
    /\ UNCHANGED <<main, type, status, button>>

(* A browser connects to a port that listens.                               *)
Connect ==
    /\ \E port \in open \ waiting : waiting' = waiting \cup {port}
    /\ UNCHANGED <<main, pending, type, status, portal, open, button>>

-----------------------------------------------------------------------------
(* The button task                                                          *)

Press ==
    /\ button = "up"
    /\ type' = [type EXCEPT !.target = toggle_type(type.current)]
    /\ button' = IF pending = "NONE" THEN "set" ELSE "up"
    /\ UNCHANGED <<main, pending, status, portal, open, waiting>>

QueueSwitch ==
    /\ button = "set"
    /\ pending' = "SWITCH"
    /\ button' = "up"
    /\ UNCHANGED <<main, type, status, portal, open, waiting>>

ButtonTask == Press \/ QueueSwitch

Next == MainTask \/ StatusTask \/ PortalTask \/ Connect \/ ButtonTask

Spec == Init /\ [][Next]_vars

(* Every task runs on.  Nothing is owed by a browser, not even the request  *)
(* that recv waits for without a timeout, nor by the button or by select,   *)
(* which need not fail.                                                     *)
FairSpec ==
    /\ Spec
    /\ WF_vars(MainTask)
    /\ WF_vars(StatusTask)
    /\ WF_vars(PortalTask /\ (Listen \/ Accept \/ Handle))
=============================================================================
