--------------------------- MODULE UsbDongleProofs ---------------------------
(***************************************************************************)
(* What is proved of UsbDongle for any number of statuses, browsers and    *)
(* presses: its type invariant, that a page is built from one status, that *)
(* a switch goes to the other protocol and that a queued request waits.    *)
(* And of the traffic figures, for any number of readings of any size:     *)
(* that they stay in order and are what was counted.                       *)
(***************************************************************************)
EXTENDS UsbDongleProperties, WellFoundedInduction, TLAPS

StartPcs == {"boot", "attach", "dial", "share", "serve"}

(* Until the main task serves, it is alone and nothing is pending; the      *)
(* protocol the SDK has was accepted before the network is used.            *)
AloneAtStart ==
    main.pc \in StartPcs =>
        /\ pending = "NONE"
        /\ status = NoStatus
        /\ portal.pc = "off"
        /\ open = {} /\ button = "off"
        /\ main.pc # "boot" => type.current = type.flash

(* An action is in hand while it is executed, and a switch in hand that has *)
(* not fixed its target yet finds the other protocol in type.               *)
ActionInHand ==
    main.pc = "clear" =>
        /\ main.act # "NONE"
        /\ main.act = "SWITCH" => type.target # type.current

(* What the portal is about to queue is a request.                          *)
RequestInHand == portal.pc \in {"check", "set"} => portal.req \in Requests

(* A portal without sockets has no listening port, so that what it opens     *)
(* next keeps the backlog within the listening ports.                       *)
ClosedHasNone == portal.pc = "closed" => open = {}

(* The number is odd while a status is copied, and an even one stands for   *)
(* a whole status.                                                          *)
NumberTells ==
    /\ status.pc = "idle" => status.seq % 2 = 0 /\ status.head = status.tail
    /\ status.pc \in {"head", "tail", "end"} => status.seq % 2 = 1
    /\ status.pc = "end" => status.head = status.tail
    /\ status.pc = "tail" => status.head = status.ver

(* A portal that sees its number again has copied what is stored.           *)
CopyIsCurrent ==
    /\ portal.pc # "off" => status.pc # "off"
    /\ portal.pc \in {"head", "tail", "end"} => portal.seq <= status.seq
    /\ status.pc = "idle" /\ portal.seq = status.seq =>
           /\ portal.pc \in {"tail", "end"} => portal.head = status.head
           /\ portal.pc = "end" => portal.tail = status.tail

CopyInv == RequestInHand /\ ClosedHasNone /\ NumberTells /\ CopyIsCurrent /\ PageIsWhole

DongleInv == TypeOK /\ AloneAtStart /\ ActionInHand /\ CopyInv /\ SwitchIsToTheOther

-----------------------------------------------------------------------------
LEMMA OtherType ==
    ASSUME NEW t \in Types
    PROVE  toggle_type(t) \in Types /\ toggle_type(t) # t
BY DEF toggle_type, normalize_type, Types

LEMMA DongleInvInit == Init => DongleInv
<1> SUFFICES ASSUME Init PROVE DongleInv
  OBVIOUS
<1> USE UsbDongleAssumption DEF Init
<1>1. PICK flash \in Types \cup {"OTHER"} : type = FirstType(flash)
  OBVIOUS
<1>2. TypeOK
  <2>1. main \in [pc : {"boot"}, act : {"NONE"}, target : Types]
    BY DEF Off, Idle, Types
  <2>2. type \in [current : Types, target : Types, flash : Types \cup {"OTHER"}]
    BY <1>1 DEF FirstType, Types
  <2>3. /\ status \in [pc : {"off"}, ver : 0 .. MaxStores, seq : Nat,
                       head : 0 .. MaxStores, tail : 0 .. MaxStores]
        /\ portal \in [pc : {"off"}, req : {"PAGE"}, seq : Nat,
                       head : 0 .. MaxStores, tail : 0 .. MaxStores]
    BY DEF NoStatus, NoPortal
  <2>4. QED
    BY <2>1, <2>2, <2>3 DEF TypeOK, Actions
<1>3. AloneAtStart /\ ActionInHand /\ SwitchIsToTheOther
  BY DEF AloneAtStart, ActionInHand, SwitchIsToTheOther, Off, Idle, NoPortal
<1>4. CopyInv
  BY DEF CopyInv, RequestInHand, ClosedHasNone, NumberTells, CopyIsCurrent, PageIsWhole, NoStatus,
         NoPortal
<1>5. QED
  BY <1>2, <1>3, <1>4 DEF DongleInv

-----------------------------------------------------------------------------
(* The parts of the type invariant, and what keeps each of them.            *)

MainPcs   == {"boot", "attach", "dial", "share", "serve", "poll", "clear", "redial", "reshare",
              "stop", "hangup", "set", "reset", "gone"}
StatusPcs == {"off", "idle", "head", "tail", "end"}
PortalPcs == {"off", "closed", "select", "recv", "check", "set", "begin", "head", "tail", "end",
              "answer"}

MainType   == [pc : MainPcs, act : Actions \cup {"NONE"}, target : Types]
TypeType   == [current : Types, target : Types, flash : Types \cup {"OTHER"}]
StatusType == [pc : StatusPcs, ver : 0 .. MaxStores, seq : Nat,
               head : 0 .. MaxStores, tail : 0 .. MaxStores]
PortalType == [pc : PortalPcs, req : Requests \cup {"PAGE"}, seq : Nat,
               head : 0 .. MaxStores, tail : 0 .. MaxStores]

LEMMA TypeParts ==
    TypeOK <=> /\ main \in MainType
               /\ pending \in Actions \cup {"NONE"}
               /\ type \in TypeType
               /\ status \in StatusType
               /\ portal \in PortalType
               /\ open \subseteq Ports
               /\ waiting \subseteq open
               /\ button \in {"off", "up", "set"}
BY DEF TypeOK, MainType, TypeType, StatusType, PortalType, MainPcs, StatusPcs, PortalPcs

LEMMA MainGoes ==
    ASSUME main \in MainType, NEW pc \in MainPcs PROVE [main EXCEPT !.pc = pc] \in MainType
BY DEF MainType

LEMMA MainStarts == Idle \in MainType /\ Off \in MainType
<1>1. Idle \in MainType
  BY DEF Idle, MainType, MainPcs, Types
<1>2. QED
  BY <1>1 DEF Off, MainType, MainPcs

LEMMA StatusGoes ==
    ASSUME status \in StatusType, NEW pc \in StatusPcs
    PROVE  [status EXCEPT !.pc = pc] \in StatusType
BY DEF StatusType

LEMMA PortalGoes ==
    ASSUME portal \in PortalType, NEW pc \in PortalPcs
    PROVE  [portal EXCEPT !.pc = pc] \in PortalType
BY DEF PortalType

LEMMA Fresh ==
    /\ NoStatus \in StatusType
    /\ \A pc \in PortalPcs : [NoPortal EXCEPT !.pc = pc] \in PortalType
    /\ NoPortal \in PortalType
<1>1. 0 \in 0 .. MaxStores /\ 0 \in Nat
  BY UsbDongleAssumption
<1>2. NoStatus \in StatusType
  BY <1>1 DEF NoStatus, StatusType, StatusPcs
<1>3. NoPortal \in PortalType
  BY <1>1 DEF NoPortal, PortalType, PortalPcs
<1>4. QED
  BY <1>2, <1>3 DEF PortalType

LEMMA FirstGoes == \A act \in Actions : First[act] \in MainPcs
BY DEF First, Actions, Requests, MainPcs

LEMMA ExitTypes ==
    ASSUME TypeOK, Exit
    PROVE  main' \in MainType /\ status' \in StatusType /\ portal' \in PortalType
<1>1. "gone" \in MainPcs /\ "off" \in StatusPcs /\ "off" \in PortalPcs
  BY DEF MainPcs, StatusPcs, PortalPcs
<1>2. QED
  BY <1>1, TypeParts, MainGoes, StatusGoes, PortalGoes DEF Exit, Goto

-----------------------------------------------------------------------------
(* Each step keeps the types.                                               *)

LEMMA MainTypes == DongleInv /\ MainTask => TypeOK'
<1> SUFFICES ASSUME DongleInv, MainTask PROVE TypeOK'
  OBVIOUS
<1>0. TypeOK
  BY DEF DongleInv
<1> SUFFICES /\ main' \in MainType /\ pending' \in Actions \cup {"NONE"}
             /\ type' \in TypeType /\ status' \in StatusType /\ portal' \in PortalType
             /\ open' \subseteq Ports /\ waiting' \subseteq open'
             /\ button' \in {"off", "up", "set"}
  BY
     DEF TypeOK, MainType, TypeType, StatusType, PortalType, MainPcs, StatusPcs,
         PortalPcs
<1> USE <1>0, TypeParts
<1>1. \A pc \in {"attach", "dial", "share", "serve", "poll", "clear",
                "redial", "reshare", "stop", "hangup", "set", "reset"} : pc \in MainPcs
  BY DEF MainPcs
<1>2. CASE CheckType
  <2>1. normalize_type(type.flash) \in Types
    BY DEF normalize_type, Types
  <2>2. type' \in TypeType /\ UNCHANGED pending
    BY <1>2, <2>1 DEF CheckType, TypeType
  <2>3. (UNCHANGED service /\ (Goto("attach") \/ Goto("reset"))) \/ Exit
    BY <1>2 DEF CheckType
  <2>4. QED
    BY <1>1, <2>2, <2>3, MainGoes, ExitTypes DEF Goto, Exit, service
<1>3. CASE Attach
  BY <1>1, <1>3, MainGoes, ExitTypes DEF Attach, Goto, Exit, service
<1>4. CASE Dial
  BY <1>1, <1>4, MainGoes, ExitTypes DEF Dial, Goto, Exit, service
<1>5. CASE Share
  BY <1>1, <1>5, MainGoes, ExitTypes DEF Share, Goto, Exit, service
<1>6. CASE Serve
  <2>1. CASE Exit /\ UNCHANGED <<pending, type>>
    BY <2>1, ExitTypes DEF Exit
  <2>2. CASE ~Exit
    <3>1. status' = [status EXCEPT !.pc = "idle", !.seq = @ + 2]
      BY <1>6, <2>2 DEF Serve
    <3>2. status' \in StatusType
      <4>1. status.seq + 2 \in Nat
        BY DEF StatusType
      <4>2. QED
        BY <3>1, <4>1 DEF StatusType, StatusPcs
    <3>3. "closed" \in PortalPcs
      BY DEF PortalPcs
    <3>4. QED
      BY <1>1, <1>6, <2>2, <3>2, <3>3, MainGoes, PortalGoes DEF Serve, Goto
  <2>3. QED
    BY <1>6, <2>1, <2>2 DEF Serve
<1>7. CASE TakeAction
  <2>1. main' \in MainType
    BY <1>1, <1>7 DEF TakeAction, MainType
  <2>2. QED
    BY <1>7, <2>1 DEF TakeAction, service
<1>8. CASE ClearAction
  <2>1. main.act \in Actions /\ type.target \in Types
    BY <1>8 DEF ClearAction, DongleInv, ActionInHand, MainType, TypeType
  <2>2. main' \in MainType
    BY <1>8, <2>1, FirstGoes DEF ClearAction, MainType
  <2>3. QED
    BY <1>8, <2>2 DEF ClearAction, service
<1>9. CASE Redial
  BY <1>1, <1>9, MainGoes, MainStarts DEF Redial, Goto, Done, service
<1>10. CASE Reshare
  BY <1>1, <1>10, MainStarts DEF Reshare, Done, service
<1>11. CASE StopUsbnet
  BY <1>1, <1>11, MainGoes DEF StopUsbnet, Goto, service
<1>12. CASE Hangup
  BY <1>1, <1>12, MainGoes, MainStarts DEF Hangup, Goto, Done, service
<1>13. CASE SwitchType
  <2>1. type' \in TypeType
    BY <1>13 DEF SwitchType, TypeType, MainType
  <2>2. QED
    BY <1>1, <1>13, <2>1, MainGoes, MainStarts DEF SwitchType, Goto, Done, service
<1>14. CASE Reset
  <2>1. type' \in TypeType
    BY <1>14 DEF Reset, FirstType, TypeType, Types
  <2>2. QED
    BY <1>14, <2>1, MainStarts, Fresh DEF Reset
<1>15. QED
  BY <1>2, <1>3, <1>4, <1>5, <1>6, <1>7, <1>8, <1>9, <1>10, <1>11, <1>12, <1>13, <1>14
     DEF MainTask, Startup, ProcessPending

LEMMA OtherTypes == DongleInv /\ (StatusTask \/ PortalTask \/ Connect \/ ButtonTask) => TypeOK'
<1> SUFFICES ASSUME DongleInv, StatusTask \/ PortalTask \/ Connect \/ ButtonTask
             PROVE  TypeOK'
  OBVIOUS
<1>0. TypeOK
  BY DEF DongleInv
<1> SUFFICES /\ main' \in MainType /\ pending' \in Actions \cup {"NONE"}
             /\ type' \in TypeType /\ status' \in StatusType /\ portal' \in PortalType
             /\ open' \subseteq Ports /\ waiting' \subseteq open'
             /\ button' \in {"off", "up", "set"}
  BY
     DEF TypeOK, MainType, TypeType, StatusType, PortalType, MainPcs, StatusPcs,
         PortalPcs
<1> USE <1>0, TypeParts
<1>1. CASE StatusTask
  <2>1. status' \in StatusType
    <3>1. CASE StoreBegin
      <4>1. status.ver + 1 \in 0 .. MaxStores /\ status.seq + 1 \in Nat
        BY <3>1, UsbDongleAssumption DEF StoreBegin, StatusType
      <4>2. QED
        BY <3>1, <4>1 DEF StoreBegin, StatusType, StatusPcs
    <3>2. CASE StoreHead
      BY <3>2 DEF StoreHead, StatusType, StatusPcs
    <3>3. CASE StoreTail
      BY <3>3 DEF StoreTail, StatusType, StatusPcs
    <3>4. CASE StoreEnd
      <4>1. status.seq + 1 \in Nat
        BY DEF StatusType
      <4>2. QED
        BY <3>4, <4>1 DEF StoreEnd, StatusType, StatusPcs
    <3>5. QED
      BY <1>1, <3>1, <3>2, <3>3, <3>4 DEF StatusTask
  <2>2. QED
    BY <1>1, <2>1 DEF StatusTask
<1>2. CASE PortalTask
  <2>1. \A pc \in {"closed", "select", "recv", "check", "set", "begin", "head", "tail", "end",
                   "answer"} : pc \in PortalPcs
    BY DEF PortalPcs
  <2>2. /\ portal' \in PortalType /\ pending' \in Actions \cup {"NONE"}
        /\ open' \subseteq Ports /\ waiting' \subseteq open'
    <3>1. CASE Listen
      BY <2>1, <3>1, PortalGoes DEF Listen, DongleInv, CopyInv, ClosedHasNone
    <3>2. CASE SelectFails
      BY <2>1, <3>2, PortalGoes DEF SelectFails
    <3>3. CASE Accept
      BY <2>1, <3>3, PortalGoes DEF Accept
    <3>4. CASE Recv
      <4>1. ASSUME NEW req \in Requests
            PROVE  [portal EXCEPT !.pc = "check", !.req = req] \in PortalType
        BY <2>1 DEF PortalType
      <4>2. QED
        BY <2>1, <3>4, <4>1, PortalGoes DEF Recv
    <3>5. CASE CheckPending
      BY <2>1, <3>5, PortalGoes, Fresh DEF CheckPending
    <3>6. CASE SetPending
      <4>1. portal.req \in Actions \cup {"NONE"}
        BY <3>6 DEF SetPending, PortalType, DongleInv, CopyInv, RequestInHand, Actions
      <4>2. QED
        BY <2>1, <3>6, <4>1, Fresh DEF SetPending
    <3>7. CASE LoadBegin
      BY <2>1, <3>7 DEF LoadBegin, PortalType, StatusType
    <3>8. CASE LoadHead
      BY <2>1, <3>8 DEF LoadHead, PortalType, StatusType
    <3>9. CASE LoadTail
      BY <2>1, <3>9 DEF LoadTail, PortalType, StatusType
    <3>10. CASE LoadEnd
      BY <2>1, <3>10, PortalGoes DEF LoadEnd
    <3>11. CASE Answer
      BY <2>1, <3>11, Fresh DEF Answer
    <3>12. QED
      BY <1>2, <3>1, <3>2, <3>3, <3>4, <3>5, <3>6, <3>7, <3>8, <3>9, <3>10, <3>11
         DEF PortalTask, Handle
  <2>3. QED
    BY <1>2, <2>2 DEF PortalTask
<1>3. CASE Connect
  BY <1>3 DEF Connect
<1>4. CASE ButtonTask
  <2>1. CASE Press
    <3>1. toggle_type(type.current) \in Types
      BY OtherType DEF TypeType
    <3>2. type' \in TypeType
      BY <2>1, <3>1 DEF Press, TypeType
    <3>3. QED
      BY <2>1, <3>2 DEF Press
  <2>2. CASE QueueSwitch
    BY <2>2 DEF QueueSwitch, Actions
  <2>3. QED
    BY <1>4, <2>1, <2>2 DEF ButtonTask
<1>5. QED
  BY <1>1, <1>2, <1>3, <1>4

-----------------------------------------------------------------------------
(* Each step keeps what ties the protocol to the action under way.          *)

LEMMA MainControl ==
    DongleInv /\ MainTask => AloneAtStart' /\ ActionInHand' /\ SwitchIsToTheOther'
<1> SUFFICES ASSUME DongleInv, MainTask
             PROVE  AloneAtStart' /\ ActionInHand' /\ SwitchIsToTheOther'
  OBVIOUS
<1> USE DEF DongleInv, TypeOK, Actions, service, AloneAtStart, ActionInHand, SwitchIsToTheOther,
            StartPcs
<1>1. CASE CheckType
  BY <1>1 DEF CheckType, Goto, Exit
<1>2. CASE Attach
  BY <1>2 DEF Attach, Goto, Exit
<1>3. CASE Dial
  BY <1>3 DEF Dial, Goto, Exit
<1>4. CASE Share
  BY <1>4 DEF Share, Goto, Exit
<1>5. CASE Serve
  BY <1>5 DEF Serve, Goto, Exit
<1>6. CASE TakeAction
  BY <1>6 DEF TakeAction
<1>7. CASE ClearAction
  <2>1. main.act \in Actions /\ (main.act = "SWITCH" => type.target # type.current)
    BY <1>7 DEF ClearAction
  <2>2. main'.pc \in {"redial", "stop", "reset"} /\ main'.act = main.act
    BY <1>7, <2>1 DEF ClearAction, First, Requests
  <2>3. main.act = "SWITCH" => main'.target = type.target
    BY <1>7 DEF ClearAction
  <2>4. UNCHANGED <<type, button>> /\ pending' = "NONE"
    BY <1>7 DEF ClearAction
  <2>5. type.current = type.flash /\ (button = "set" => type.target # type.current)
    BY <1>7 DEF ClearAction
  <2>6. QED
    BY <2>1, <2>2, <2>3, <2>4, <2>5
<1>8. CASE Redial
  BY <1>8 DEF Redial, Goto, Done, Idle
<1>9. CASE Reshare
  BY <1>9 DEF Reshare, Done, Idle
<1>10. CASE StopUsbnet
  BY <1>10 DEF StopUsbnet, Goto
<1>11. CASE Hangup
  BY <1>11 DEF Hangup, Goto, Done, Idle
<1>12. CASE SwitchType
  BY <1>12 DEF SwitchType, Goto, Done, Idle
<1>13. CASE Reset
  BY <1>13 DEF Reset, Off, Idle, FirstType, NoStatus, NoPortal
<1>14. QED
  BY <1>1, <1>2, <1>3, <1>4, <1>5, <1>6, <1>7, <1>8, <1>9, <1>10, <1>11, <1>12, <1>13
     DEF MainTask, Startup, ProcessPending

LEMMA OtherControl ==
    DongleInv /\ (StatusTask \/ PortalTask \/ Connect \/ ButtonTask)
        => AloneAtStart' /\ ActionInHand' /\ SwitchIsToTheOther'
<1> SUFFICES ASSUME DongleInv, StatusTask \/ PortalTask \/ Connect \/ ButtonTask
             PROVE  AloneAtStart' /\ ActionInHand' /\ SwitchIsToTheOther'
  OBVIOUS
<1> USE DEF DongleInv, TypeOK, Requests, AloneAtStart, ActionInHand, SwitchIsToTheOther,
            StartPcs
<1>1. CASE StatusTask
  BY <1>1 DEF StatusTask, StoreBegin, StoreHead, StoreTail, StoreEnd, NoStatus
<1>2. CASE PortalTask
  <2>1. CASE Listen /\ UNCHANGED <<main, type, status, button>>
    BY <2>1 DEF Listen
  <2>2. CASE SelectFails /\ UNCHANGED <<main, type, status, button>>
    BY <2>2 DEF SelectFails
  <2>3. CASE Accept /\ UNCHANGED <<main, type, status, button>>
    BY <2>3 DEF Accept
  <2>4. CASE Recv /\ UNCHANGED <<main, type, status, button>>
    BY <2>4 DEF Recv
  <2>5. CASE CheckPending /\ UNCHANGED <<main, type, status, button>>
    BY <2>5 DEF CheckPending, NoPortal
  <2>6. CASE SetPending /\ UNCHANGED <<main, type, status, button>>
    BY <2>6 DEF SetPending, NoPortal
  <2>7. CASE LoadBegin /\ UNCHANGED <<main, type, status, button>>
    BY <2>7 DEF LoadBegin
  <2>8. CASE LoadHead /\ UNCHANGED <<main, type, status, button>>
    BY <2>8 DEF LoadHead
  <2>9. CASE LoadTail /\ UNCHANGED <<main, type, status, button>>
    BY <2>9 DEF LoadTail
  <2>10. CASE LoadEnd /\ UNCHANGED <<main, type, status, button>>
    BY <2>10 DEF LoadEnd
  <2>11. CASE Answer /\ UNCHANGED <<main, type, status, button>>
    BY <2>11 DEF Answer, NoPortal
  <2>12. QED
    BY <1>2, <2>1, <2>2, <2>3, <2>4, <2>5, <2>6, <2>7, <2>8, <2>9, <2>10, <2>11
       DEF PortalTask, Handle
<1>3. CASE Connect
  BY <1>3 DEF Connect
<1>4. CASE ButtonTask
  BY <1>4, OtherType DEF ButtonTask, Press, QueueSwitch
<1>5. QED
  BY <1>1, <1>2, <1>3, <1>4

-----------------------------------------------------------------------------
(* Each step keeps what ties a copy to the number.                          *)

LEMMA MainCopy ==
    DongleInv /\ MainTask => CopyInv'
<1> SUFFICES ASSUME DongleInv, MainTask
             PROVE  CopyInv'
  OBVIOUS
<1> USE DEF DongleInv, CopyInv, TypeOK, RequestInHand, ClosedHasNone, NumberTells, CopyIsCurrent,
            PageIsWhole
<1>1. CASE UNCHANGED <<status, portal, open>>
  BY <1>1
<1>2. CASE Exit
  BY <1>2 DEF Exit
<1>3. CASE Serve
  <2>1. CASE Exit
    BY <1>2, <2>1
  <2>2. CASE ~Exit
    <3>1. status = NoStatus /\ portal.pc = "off"
      BY <1>3 DEF Serve, AloneAtStart, StartPcs
    <3>2. /\ status'.pc = "idle" /\ status'.seq = 2
          /\ status'.head = 0 /\ status'.tail = 0
      <4>1. status.seq = 0 /\ status.head = 0 /\ status.tail = 0
        BY <3>1 DEF NoStatus
      <4>2. status' = [status EXCEPT !.pc = "idle", !.seq = @ + 2]
        BY <1>3, <2>2 DEF Serve
      <4>3. status \in StatusType
        BY TypeParts
      <4>4. QED
        BY <4>1, <4>2, <4>3 DEF StatusType
    <3>3. portal'.pc = "closed"
      BY <1>3, <2>2 DEF Serve
    <3>4. open' = {}
      BY <1>3, <2>2 DEF Serve, AloneAtStart, StartPcs
    <3>5. NumberTells'
      BY <3>2
    <3>6. CopyIsCurrent' /\ PageIsWhole' /\ RequestInHand' /\ ClosedHasNone'
      BY <3>2, <3>3, <3>4
    <3>7. QED
      BY <3>5, <3>6
  <2>3. QED
    BY <2>1, <2>2
<1>4. CASE Reset
  BY <1>4 DEF Reset, NoStatus, NoPortal
<1>5. QED
  BY <1>1, <1>2, <1>3, <1>4 DEF MainTask, Startup, CheckType, Attach, Dial, Share, ProcessPending,
     TakeAction, ClearAction, Redial, Reshare, StopUsbnet, Hangup, SwitchType, service

LEMMA OtherCopy ==
    DongleInv /\ (StatusTask \/ PortalTask \/ Connect \/ ButtonTask)
        => CopyInv'
<1> SUFFICES ASSUME DongleInv, StatusTask \/ PortalTask \/ Connect \/ ButtonTask
             PROVE  CopyInv'
  OBVIOUS
<1> USE DEF DongleInv, CopyInv, TypeOK, RequestInHand, ClosedHasNone, NumberTells, CopyIsCurrent,
            PageIsWhole
<1>1. CASE StatusTask
  <2>1. CASE StoreBegin /\ UNCHANGED <<portal, open>>
    BY <2>1 DEF StoreBegin
  <2>2. CASE StoreHead /\ UNCHANGED <<portal, open>>
    BY <2>2 DEF StoreHead
  <2>3. CASE StoreTail /\ UNCHANGED <<portal, open>>
    BY <2>3 DEF StoreTail
  <2>4. CASE StoreEnd /\ UNCHANGED <<portal, open>>
    BY <2>4 DEF StoreEnd
  <2>5. QED
    BY <1>1, <2>1, <2>2, <2>3, <2>4 DEF StatusTask
<1>2. CASE PortalTask
  <2>1. CASE Listen /\ UNCHANGED status
    BY <2>1 DEF Listen
  <2>2. CASE SelectFails /\ UNCHANGED status
    BY <2>2 DEF SelectFails
  <2>3. CASE Accept /\ UNCHANGED status
    BY <2>3 DEF Accept
  <2>4. CASE Recv /\ UNCHANGED status
    BY <2>4, ZenonT(60) DEF Recv
  <2>5. CASE CheckPending /\ UNCHANGED status
    BY <2>5 DEF CheckPending, NoPortal
  <2>6. CASE SetPending /\ UNCHANGED status
    BY <2>6 DEF SetPending, NoPortal
  <2>7. CASE LoadBegin /\ UNCHANGED status
    BY <2>7 DEF LoadBegin
  <2>8. CASE LoadHead /\ UNCHANGED status
    BY <2>8 DEF LoadHead
  <2>9. CASE LoadTail /\ UNCHANGED status
    BY <2>9 DEF LoadTail
  <2>10. CASE LoadEnd /\ UNCHANGED status
    BY <2>10 DEF LoadEnd
  <2>11. CASE Answer /\ UNCHANGED status
    BY <2>11 DEF Answer, NoPortal
  <2>12. QED
    BY <1>2, <2>1, <2>2, <2>3, <2>4, <2>5, <2>6, <2>7, <2>8, <2>9, <2>10, <2>11
       DEF PortalTask, Handle
<1>3. CASE Connect \/ ButtonTask
  BY <1>3 DEF Connect, ButtonTask, Press, QueueSwitch
<1>4. QED
  BY <1>1, <1>2, <1>3

LEMMA DongleInvStep == DongleInv /\ [Next]_vars => DongleInv'
<1>1. DongleInv /\ Next => DongleInv'
  BY MainTypes, OtherTypes, MainControl, OtherControl, MainCopy, OtherCopy DEF Next, DongleInv
<1>2. DongleInv /\ UNCHANGED vars => DongleInv'
  BY
     DEF DongleInv, CopyInv, vars, service, TypeOK, AloneAtStart, ActionInHand, RequestInHand,
         ClosedHasNone,
         NumberTells, CopyIsCurrent, PageIsWhole, SwitchIsToTheOther
<1>3. QED
  BY <1>1, <1>2

-----------------------------------------------------------------------------
(* The dongle keeps its types, and only a main task that serves has other   *)
(* tasks beside it.                                                         *)
THEOREM DongleTypeCorrect == Spec => []TypeOK
<1>1. DongleInv => TypeOK
  BY DEF DongleInv
<1>2. QED
  BY <1>1, DongleInvInit, DongleInvStep, PTL DEF Spec

(* However the copies of the status task and of the portal interleave, a    *)
(* page shows one status as it was stored.                                  *)
THEOREM PagesAreWhole == Spec => []PageIsWhole
<1>1. DongleInv => PageIsWhole
  BY DEF DongleInv, CopyInv
<1>2. QED
  BY <1>1, DongleInvInit, DongleInvStep, PTL DEF Spec

(* However often the button is pressed and a switch fails, a switch that is *)
(* pending or under way is to the protocol the device does not have.        *)
THEOREM SwitchesToTheOther == Spec => []SwitchIsToTheOther
<1>1. DongleInv => SwitchIsToTheOther
  BY DEF DongleInv
<1>2. QED
  BY <1>1, DongleInvInit, DongleInvStep, PTL DEF Spec

(* What the portal is about to write displaces nothing but a switch, and    *)
(* what the main task is about to clear is what it took, unless it took a   *)
(* switch or one has displaced what it took.                                *)
RequestWaits ==
    /\ portal.pc = "set" => pending \in {"NONE", "SWITCH"}
    /\ portal.pc = "set" /\ main.pc = "clear" => main.act = "SWITCH"
    /\ main.pc = "clear" => pending = main.act \/ "SWITCH" \in {pending, main.act}

LEMMA MainWaits == DongleInv /\ RequestWaits /\ MainTask => RequestWaits'
<1> SUFFICES ASSUME DongleInv, RequestWaits, MainTask PROVE RequestWaits'
  OBVIOUS
<1> USE DEF DongleInv, TypeOK, RequestWaits, service
<1>1. CASE Startup
  <2>1. main'.pc # "clear" /\ portal'.pc # "set"
    BY <1>1 DEF AloneAtStart, StartPcs, Startup, CheckType, Attach, Dial, Share, Serve, Goto, Exit
  <2>2. QED
    BY <2>1
<1>2. CASE TakeAction
  BY <1>2 DEF TakeAction
<1>3. CASE ClearAction
  <2>1. main'.pc # "clear" /\ pending' = "NONE" /\ portal' = portal
    BY <1>3 DEF ClearAction, ActionInHand, First, Actions, Requests
  <2>2. QED
    BY <2>1
<1>4. CASE Redial
  BY <1>4 DEF Redial, Goto, Done, Idle
<1>5. CASE Reshare
  BY <1>5 DEF Reshare, Done, Idle
<1>6. CASE StopUsbnet
  BY <1>6 DEF StopUsbnet, Goto
<1>7. CASE Hangup
  BY <1>7 DEF Hangup, Goto, Done, Idle
<1>8. CASE SwitchType
  BY <1>8 DEF SwitchType, Goto, Done, Idle
<1>9. CASE Reset
  BY <1>9 DEF Reset, Off, Idle, NoPortal
<1>10. QED
  BY <1>1, <1>2, <1>3, <1>4, <1>5, <1>6, <1>7, <1>8, <1>9 DEF MainTask, ProcessPending

LEMMA OtherWaits ==
    DongleInv /\ RequestWaits /\ (StatusTask \/ PortalTask \/ Connect \/ ButtonTask)
        => RequestWaits'
<1> SUFFICES ASSUME DongleInv, RequestWaits,
                    StatusTask \/ PortalTask \/ Connect \/ ButtonTask
             PROVE  RequestWaits'
  OBVIOUS
<1> USE DEF DongleInv, TypeOK, RequestWaits
<1>1. CASE StatusTask
  BY <1>1 DEF StatusTask
<1>2. CASE PortalTask
  <2>1. main' = main
    BY <1>2 DEF PortalTask
  <2>2. CASE CheckPending
    BY <2>1, <2>2 DEF CheckPending, NoPortal, ActionInHand
  <2>3. CASE SetPending
    BY <2>1, <2>3 DEF SetPending, NoPortal
  <2>4. CASE ~CheckPending /\ ~SetPending
    <3>1. pending' = pending /\ portal'.pc # "set"
      BY <1>2, <2>4, ZenonT(60) DEF PortalTask, Handle, Listen, SelectFails, Accept, Recv,
                        LoadBegin, LoadHead, LoadTail, LoadEnd, Answer, NoPortal
    <3>2. QED
      BY <2>1, <3>1
  <2>5. QED
    BY <2>2, <2>3, <2>4
<1>3. CASE Connect
  BY <1>3 DEF Connect
<1>4. CASE ButtonTask
  BY <1>4 DEF ButtonTask, Press, QueueSwitch
<1>5. QED
  BY <1>1, <1>2, <1>3, <1>4

(* However the portal's look and write, the main task's take and clear and  *)
(* the button's presses interleave, a queued request stays pending until it *)
(* is taken, a reset forgets it or a switch displaces it                    *)
(* (usb_net.c:2316-2363).                                                   *)
THEOREM RequestsAreKept == Spec => QueuedActionKept
<1>1. Init => RequestWaits
  BY DEF Init, RequestWaits, NoPortal, Off, Idle
<1>2. DongleInv /\ RequestWaits /\ [Next]_vars => RequestWaits'
  <2>1. DongleInv /\ RequestWaits /\ UNCHANGED vars => RequestWaits'
    BY DEF RequestWaits, vars, service
  <2>2. QED
    BY <2>1, MainWaits, OtherWaits DEF Next
<1>3. ASSUME DongleInv, RequestWaits, Next, NEW act \in Requests, pending = act, pending' # act
      PROVE  \/ main.pc = "clear" /\ main.act \in {act, "SWITCH"} /\ pending' = "NONE"
             \/ main.pc = "reset"
             \/ button = "set" /\ pending' = "SWITCH"
  <2> USE <1>3 DEF DongleInv, TypeOK, RequestWaits, Requests
  <2>1. CASE MainTask
    <3>1. CASE ClearAction
      BY <3>1 DEF ClearAction
    <3>2. CASE Reset
      BY <3>2 DEF Reset
    <3>3. CASE ~ClearAction /\ ~Reset
      <4>1. pending' = pending
        BY <2>1, <3>3
           DEF MainTask, Startup, CheckType, Attach, Dial, Share, Serve, Exit, ProcessPending,
               TakeAction, Redial, Reshare, StopUsbnet, Hangup, SwitchType, Done
      <4>2. QED
        BY <4>1
    <3>4. QED
      BY <3>1, <3>2, <3>3
  <2>2. CASE PortalTask
    <3>1. CASE SetPending
      BY <3>1 DEF SetPending
    <3>2. CASE ~SetPending
      BY <2>2, <3>2 DEF PortalTask, Handle, Listen, SelectFails, Accept, Recv, CheckPending,
                        LoadBegin, LoadHead, LoadTail, LoadEnd, Answer
    <3>3. QED
      BY <3>1, <3>2
  <2>3. CASE StatusTask \/ Connect \/ ButtonTask
    BY <2>3 DEF StatusTask, Connect, ButtonTask, Press, QueueSwitch
  <2>4. QED
    BY <2>1, <2>2, <2>3 DEF Next
<1>4. DongleInv /\ RequestWaits /\ [Next]_vars
          => [\A act \in Requests : pending = act /\ pending' # act =>
                 \/ main.pc = "clear" /\ main.act \in {act, "SWITCH"} /\ pending' = "NONE"
                 \/ main.pc = "reset"
                 \/ button = "set" /\ pending' = "SWITCH"]_vars
  BY <1>3
<1>5. QED
  BY <1>1, <1>2, <1>4, DongleInvInit, DongleInvStep, PTL DEF Spec, QueuedActionKept

-----------------------------------------------------------------------------
(* The traffic figures: first what holds of a meter that was never read and *)
(* what one more reading keeps, then by induction all sequences of them.    *)

Reading == [total : Nat, day : Nat, valid : BOOLEAN]
Keys    == {calendar_keys(q) : q \in Reading}
Meter   == [started : BOOLEAN, last : Nat, key : Keys, base : [Periods -> Nat]]

(* The keys of a meter are those of one reading: a week or a month never    *)
(* begins without a day, and so no baseline is above that of the day.       *)
MeterSound(m) ==
    /\ m \in Meter
    /\ m.base["today"] <= m.last
    /\ \A p \in Periods : m.base[p] <= m.base["today"]

(* The meter has taken reading r, whose clock is set.                       *)
HasTaken(m, r) == m.started /\ r.valid /\ m.last = r.total /\ m.key = calendar_keys(r)

(* The same day is a day of the same week and of the same month.            *)
LEMMA DayDecides ==
    ASSUME NEW q \in Reading, NEW r \in Reading,
           calendar_keys(q)["today"] = calendar_keys(r)["today"]
    PROVE  calendar_keys(q) = calendar_keys(r)
<1>1. "today" \in Periods
  BY DEF Periods
<1>2. ASSUME NEW x \in Reading
      PROVE  calendar_keys(x)["today"] = IF x.valid THEN 1 + x.day ELSE 0
  <2>1. x.day \in Nat /\ x.day \div 1 = x.day
    BY DEF Reading
  <2>2. QED
    BY <1>1, <2>1 DEF calendar_keys
<1>3. (IF q.valid THEN 1 + q.day ELSE 0) = IF r.valid THEN 1 + r.day ELSE 0
  BY <1>2
<1>4. CASE q.valid
  <2>1. r.valid /\ q.day = r.day
    BY <1>3, <1>4 DEF Reading
  <2>2. QED
    BY <1>4, <2>1 DEF calendar_keys
<1>5. CASE ~q.valid
  <2>1. ~r.valid
    BY <1>3, <1>5 DEF Reading
  <2>2. QED
    BY <1>5, <2>1 DEF calendar_keys
<1>6. QED
  BY <1>4, <1>5

(* A reading that starts everything anew, and one that goes on counting.    *)
LEMMA MeterStarts ==
    ASSUME NEW m, NEW r, ~m.started \/ r.total < m.last
    PROVE  calculate_bytes(m, r) = [started |-> TRUE, last |-> r.total, key |-> calendar_keys(r),
                                    base |-> [p \in Periods |-> r.total]]
BY DEF calculate_bytes

LEMMA MeterGoesOn ==
    ASSUME NEW m \in Meter, NEW r \in Reading, m.started, m.last <= r.total
    PROVE  LET n == calculate_bytes(m, r)
               turned(p) == r.valid /\ m.key[p] # calendar_keys(r)[p]
           IN  /\ n = [started |-> TRUE, last |-> r.total, key |-> n.key, base |-> n.base]
               /\ n.key = [p \in Periods |->
                              IF turned(p) THEN calendar_keys(r)[p] ELSE m.key[p]]
               /\ n.base = [p \in Periods |-> IF turned(p) THEN r.total ELSE m.base[p]]
<1>1. ~(~m.started \/ r.total < m.last)
  BY DEF Meter, Reading
<1>2. QED
  BY <1>1 DEF calculate_bytes, Meter

(* Either the keys of the meter are those of the reading afterwards, or     *)
(* they stay as they were and so do all baselines.                          *)
LEMMA KeysMove ==
    ASSUME NEW m \in Meter, NEW r \in Reading, m.started, m.last <= r.total
    PROVE  LET n == calculate_bytes(m, r)
           IN  \/ n.key = calendar_keys(r) /\ n.base["today"] = r.total
               \/ n.key = m.key /\ n.base = m.base
<1> DEFINE n == calculate_bytes(m, r)
           k == calendar_keys(r)
<1>1. PICK q \in Reading : m.key = calendar_keys(q)
  BY DEF Meter, Keys
<1>2. "today" \in Periods
  BY DEF Periods
<1>3. /\ m.key = [p \in Periods |-> m.key[p]]
      /\ k = [p \in Periods |-> k[p]]
      /\ m.base = [p \in Periods |-> m.base[p]]
  <2>1. \A x \in Reading : calendar_keys(x) = [p \in Periods |-> calendar_keys(x)[p]]
    BY DEF calendar_keys
  <2>2. QED
    BY <1>1, <2>1 DEF Meter
<1>4. CASE ~r.valid \/ m.key["today"] = k["today"]
  <2>1. ~r.valid \/ m.key = k
    BY <1>1, <1>4, DayDecides
  <2>2. /\ n.key = [p \in Periods |-> m.key[p]]
        /\ n.base = [p \in Periods |-> m.base[p]]
    BY <2>1, MeterGoesOn
  <2>3. QED
    BY <1>3, <2>2
<1>5. CASE r.valid /\ m.key["today"] # k["today"]
  <2>1. /\ n.key = [p \in Periods |-> IF m.key[p] # k[p] THEN k[p] ELSE m.key[p]]
        /\ n.base = [p \in Periods |-> IF m.key[p] # k[p] THEN r.total ELSE m.base[p]]
    BY <1>5, MeterGoesOn
  <2>2. n.key = k
    BY <1>3, <2>1, Zenon
  <2>3. n.base["today"] = r.total
    BY <1>2, <1>5, <2>1
  <2>4. QED
    BY <2>2, <2>3
<1>6. QED
  BY <1>4, <1>5

(* Whatever readings follow one another, with the clock set, unset or put   *)
(* back and the counter restarted, the traffic of the day is never negative *)
(* and never more than that of its week or its month (usb_net.c:414-486).   *)
THEOREM FiguresStayInOrder ==
    /\ MeterSound(NoMeter)
    /\ \A m : MeterSound(m) => \A r \in Reading : MeterSound(calculate_bytes(m, r))
    /\ \A m : MeterSound(m) => /\ Figure(m, "today") \in 0 .. Figure(m, "week")
                               /\ Figure(m, "today") <= Figure(m, "month")
<1>1. MeterSound(NoMeter)
  <2>1. [total |-> 0, day |-> 0, valid |-> FALSE] \in Reading
    BY DEF Reading
  <2>2. calendar_keys([total |-> 0, day |-> 0, valid |-> FALSE]) = [p \in Periods |-> 0]
    BY DEF calendar_keys
  <2>3. [p \in Periods |-> 0] \in Keys
    BY <2>1, <2>2 DEF Keys
  <2>4. NoMeter \in Meter
    BY <2>3 DEF NoMeter, Meter
  <2>5. QED
    BY <2>4 DEF MeterSound, NoMeter, Periods
<1>2. ASSUME NEW m, MeterSound(m), NEW r \in Reading
      PROVE  MeterSound(calculate_bytes(m, r))
  <2> DEFINE n == calculate_bytes(m, r)
  <2>1. /\ m \in Meter /\ r.total \in Nat /\ m.last \in Nat
        /\ m.base["today"] \in Nat /\ \A p \in Periods : m.base[p] \in Nat
    BY <1>2 DEF MeterSound, Meter, Reading, Periods
  <2>2. calendar_keys(r) \in Keys
    BY DEF Keys
  <2>3. CASE ~m.started \/ r.total < m.last
    <3>1. n = [started |-> TRUE, last |-> r.total, key |-> calendar_keys(r),
               base |-> [p \in Periods |-> r.total]]
      BY <2>3, MeterStarts
    <3>2. n \in Meter
      BY <2>1, <2>2, <3>1 DEF Meter
    <3>3. QED
      BY <2>1, <3>1, <3>2 DEF MeterSound, Periods
  <2>4. CASE m.started /\ m.last <= r.total
    <3>1. n = [started |-> TRUE, last |-> r.total, key |-> n.key, base |-> n.base]
      BY <2>1, <2>4, MeterGoesOn
    <3>2. /\ n.base \in [Periods -> Nat]
          /\ \A p \in Periods : n.base[p] <= r.total
      <4>1. /\ n.base = [p \in Periods |-> IF r.valid /\ m.key[p] # calendar_keys(r)[p]
                                           THEN r.total ELSE m.base[p]]
        BY <2>1, <2>4, MeterGoesOn
      <4>2. \A p \in Periods : m.base[p] <= r.total
        BY <1>2, <2>1, <2>4 DEF MeterSound
      <4>3. QED
        BY <2>1, <4>1, <4>2
    <3>3. \/ n.key = calendar_keys(r) /\ n.base["today"] = r.total
          \/ n.key = m.key /\ n.base = m.base
      BY <2>1, <2>4, KeysMove
    <3>4. n \in Meter
      <4>1. n.key \in Keys
        BY <2>1, <2>2, <3>3 DEF Meter
      <4>2. [started |-> TRUE, last |-> r.total, key |-> n.key, base |-> n.base] \in Meter
        BY <2>1, <3>2, <4>1 DEF Meter
      <4>3. QED
        BY <3>1, <4>2
    <3>5. n.last = r.total
      BY <3>1
    <3>6. QED
      BY <1>2, <2>1, <2>4, <3>2, <3>3, <3>4, <3>5 DEF MeterSound, Periods
  <2>5. QED
    BY <2>1, <2>3, <2>4 DEF Meter
<1>3. ASSUME NEW m, MeterSound(m)
      PROVE  /\ Figure(m, "today") \in 0 .. Figure(m, "week")
             /\ Figure(m, "today") <= Figure(m, "month")
  <2>1. /\ m.last \in Nat /\ m.base["today"] \in Nat
        /\ m.base["week"] \in Nat /\ m.base["month"] \in Nat
        /\ m.base["today"] <= m.last
        /\ m.base["week"] <= m.base["today"] /\ m.base["month"] <= m.base["today"]
    BY <1>3 DEF MeterSound, Meter, Periods
  <2>2. QED
    BY <2>1 DEF Figure
<1>4. QED
  BY <1>1, <1>2, <1>3

(* While the clock is set, a figure grows by what was counted between two   *)
(* readings, unless its period or the counter starts anew: then it is zero. *)
(* The first reading gives zero.                                            *)
THEOREM FiguresCountOn ==
    ASSUME NEW m, MeterSound(m), NEW r \in Reading, r.valid, NEW p \in Periods
    PROVE  LET n == calculate_bytes(m, r)
           IN  /\ HasTaken(n, r)
               /\ ~m.started => Figure(n, p) = 0
               /\ \A before \in Reading : HasTaken(m, before) =>
                      Figure(n, p) =
                          IF \/ r.total < before.total
                             \/ calendar_keys(r)[p] # calendar_keys(before)[p]
                          THEN 0 ELSE Figure(m, p) + (r.total - before.total)
<1> DEFINE n == calculate_bytes(m, r)
           k == calendar_keys(r)
<1>1. /\ m \in Meter /\ r.total \in Nat /\ m.last \in Nat /\ m.base[p] \in Nat
      /\ m.base[p] <= m.last
  BY DEF MeterSound, Meter, Reading, Periods
<1>2. CASE ~m.started \/ r.total < m.last
  <2>1. n.started /\ n.last = r.total /\ n.key = k /\ n.base[p] = r.total
    BY <1>2, MeterStarts
  <2>2. Figure(n, p) = 0
    BY <1>1, <2>1 DEF Figure
  <2>3. QED
    BY <1>1, <1>2, <2>1, <2>2 DEF HasTaken
<1>3. CASE m.started /\ m.last <= r.total
  <2>0. /\ n = [started |-> TRUE, last |-> r.total, key |-> n.key, base |-> n.base]
        /\ n.key = [x \in Periods |-> IF m.key[x] # k[x] THEN k[x] ELSE m.key[x]]
        /\ n.base = [x \in Periods |-> IF m.key[x] # k[x] THEN r.total ELSE m.base[x]]
    BY <1>1, <1>3, MeterGoesOn
  <2>1. n.started /\ n.last = r.total
    BY <2>0
  <2>2. n.base[p] = IF m.key[p] # k[p] THEN r.total ELSE m.base[p]
    BY <2>0
  <2>3. n.key = k
    <3>1. k = [x \in Periods |-> k[x]]
      BY Zenon DEF calendar_keys
    <3>2. QED
      BY <2>0, <3>1, Zenon
  <2>4. HasTaken(n, r)
    BY <2>1, <2>3 DEF HasTaken
  <2>5. ASSUME NEW before \in Reading, HasTaken(m, before)
        PROVE  Figure(n, p) = IF r.total < before.total \/ k[p] # calendar_keys(before)[p]
                              THEN 0 ELSE Figure(m, p) + (r.total - before.total)
    <3>1. before.total = m.last /\ m.key = calendar_keys(before)
      BY <2>5 DEF HasTaken
    <3>2. QED
      BY <1>1, <1>3, <2>1, <2>2, <3>1 DEF Figure
  <2>6. QED
    BY <1>3, <2>4, <2>5
<1>4. QED
  BY <1>1, <1>2, <1>3 DEF Meter

-----------------------------------------------------------------------------
(* Induction over a sequence of readings: a set of numbers without a least  *)
(* number outside it holds them all.                                        *)
LEMMA NatSetInduction ==
    ASSUME NEW S, 0 \in S, \A n \in Nat : n \in S => n + 1 \in S
    PROVE  \A n \in Nat : n \in S
<1> DEFINE R == OpToRel(<, Nat)
           T == Nat \ S
<1>1. IsWellFoundedOn(R, Nat)
  BY NatLessThanWellFounded, Zenon
<1>2. ASSUME T # {} PROVE FALSE
  <2>1. T \subseteq Nat
    OBVIOUS
  <2>2. PICK x \in T : \A y \in T : ~(<<y, x>> \in R)
    <3> HIDE DEF T, R
    <3> QED
      BY <1>1, <1>2, <2>1, WFMin
  <2>3. x \in Nat /\ x # 0
    OBVIOUS
  <2>4. x - 1 \in Nat /\ x - 1 < x /\ (x - 1) + 1 = x
    BY <2>3
  <2>5. <<x - 1, x>> \in R
    BY <2>3, <2>4, Zenon DEF OpToRel
  <2>6. x - 1 \in S
    BY <2>2, <2>4, <2>5
  <2>7. QED
    BY <2>3, <2>4, <2>6
<1>3. QED
  BY <1>2

(* The meters that the first n readings leave one after another.            *)
MetersOf(s, n, f) ==
    /\ f \in [0..n -> {m \in Meter : MeterSound(m)}]
    /\ f[0] = NoMeter
    /\ \A i \in 1..n : f[i] = calculate_bytes(f[i - 1], s[i])

LEMMA MetersRun ==
    ASSUME NEW s \in Seq(Reading)
    PROVE  \A n \in 0..Len(s) : \E f : MetersOf(s, n, f)
<1> DEFINE D == {m \in Meter : MeterSound(m)}
           S == {n \in Nat : n <= Len(s) => \E f : MetersOf(s, n, f)}
<1>1. NoMeter \in D
  BY FiguresStayInOrder DEF MeterSound
<1>2. ASSUME NEW x \in D, NEW r \in Reading PROVE calculate_bytes(x, r) \in D
  BY FiguresStayInOrder DEF MeterSound
<1>3. 0 \in S
  <2> DEFINE g == [i \in 0..0 |-> NoMeter]
  <2>1. g \in [0..0 -> D] /\ g[0] = NoMeter
    BY <1>1
  <2>2. 1..0 = {}
    OBVIOUS
  <2> HIDE DEF g
  <2>3. MetersOf(s, 0, g)
    BY <2>1, <2>2 DEF MetersOf
  <2>4. QED
    BY <2>3
<1>4. ASSUME NEW n \in Nat, n \in S PROVE n + 1 \in S
  <2> SUFFICES ASSUME n + 1 <= Len(s) PROVE \E g : MetersOf(s, n + 1, g)
    OBVIOUS
  <2>1. PICK f : MetersOf(s, n, f)
    BY <1>4
  <2> DEFINE v == calculate_bytes(f[n], s[n + 1])
             g == [i \in 0..(n + 1) |-> IF i = n + 1 THEN v ELSE f[i]]
  <2>2. f \in [0..n -> D] /\ f[n] \in D /\ s[n + 1] \in Reading
    BY <2>1 DEF MetersOf
  <2>3. v \in D
    BY <1>2, <2>2
  <2> HIDE DEF v, D
  <2>4. g \in [0..(n + 1) -> D]
    BY <2>2, <2>3
  <2>5. g[0] = f[0] /\ g[n + 1] = v /\ \A i \in 0..n : g[i] = f[i]
    OBVIOUS
  <2> HIDE DEF g
  <2>6. ASSUME NEW i \in 1..(n + 1) PROVE g[i] = calculate_bytes(g[i - 1], s[i])
    <3>1. CASE i = n + 1
      <4>1. i - 1 = n /\ g[i - 1] = f[n]
        BY <2>5, <3>1
      <4>2. QED
        BY <2>5, <3>1, <4>1 DEF v
    <3>2. CASE i \in 1..n
      <4>1. g[i] = f[i] /\ g[i - 1] = f[i - 1]
        BY <2>5, <3>2
      <4>2. QED
        BY <2>1, <3>2, <4>1 DEF MetersOf
    <3>3. QED
      BY <3>1, <3>2
  <2>7. MetersOf(s, n + 1, g)
    BY <2>1, <2>4, <2>5, <2>6 DEF MetersOf, D
  <2>8. QED
    BY <2>7
<1>5. \A n \in Nat : n \in S
  <2> HIDE DEF S
  <2> QED
    BY <1>3, <1>4, NatSetInduction
<1>6. QED
  BY <1>5

(* MeterAfter is the last of them.                                          *)
LEMMA MeterAfterRuns ==
    ASSUME NEW s \in Seq(Reading)
    PROVE  \E f : MetersOf(s, Len(s), f) /\ MeterAfter(s) = f[Len(s)]
<1> DEFINE N == Len(s)
           Meters(f) == f = [i \in 0..N |-> IF i = 0 THEN NoMeter
                                            ELSE calculate_bytes(f[i - 1], s[i])]
           m == CHOOSE f : Meters(f)
<1>1. PICK f : MetersOf(s, N, f)
  BY MetersRun
<1>2. f = [i \in 0..N |-> f[i]]
  BY <1>1 DEF MetersOf
<1>3. \A i \in 0..N : f[i] = IF i = 0 THEN NoMeter ELSE calculate_bytes(f[i - 1], s[i])
  BY <1>1 DEF MetersOf
<1>4. Meters(f)
  BY <1>2, <1>3
<1>5. Meters(m)
  <2> HIDE DEF Meters
  <2> QED
    BY <1>4
<1>6. MeterAfter(s) = m[N]
  BY DEF MeterAfter
<1> HIDE DEF m
<1>7. \A i \in 0..N : m[i] = IF i = 0 THEN NoMeter ELSE calculate_bytes(m[i - 1], s[i])
  BY <1>5
<1> DEFINE S == {i \in Nat : i <= N => m[i] = f[i]}
<1>8. 0 \in S
  BY <1>3, <1>7
<1>9. ASSUME NEW i \in Nat, i \in S PROVE i + 1 \in S
  <2> SUFFICES ASSUME i + 1 <= N PROVE m[i + 1] = f[i + 1]
    OBVIOUS
  <2>1. i + 1 # 0 /\ (i + 1) - 1 = i /\ i + 1 \in 0..N
    OBVIOUS
  <2>2. m[i] = f[i]
    BY <1>9
  <2>3. QED
    BY <1>3, <1>7, <2>1, <2>2
<1>10. \A i \in Nat : i \in S
  <2> HIDE DEF S
  <2> QED
    BY <1>8, <1>9, NatSetInduction
<1>11. m[N] = f[N]
  BY <1>10
<1>12. QED
  BY <1>1, <1>6, <1>11

TimedReading == {r \in Reading : r.valid}

(* With the clock set, the meter after i readings has taken the last of     *)
(* them, and a figure counts from the one its period started with.          *)
LEMMA CountedFrom ==
    ASSUME NEW s \in Seq(TimedReading), NEW p \in Periods,
           NEW f, MetersOf(s, Len(s), f)
    PROVE  \A i \in 1..Len(s) :
               /\ HasTaken(f[i], s[i])
               /\ \E k \in 1..i : /\ Starts(s, p, k)
                                  /\ \A j \in k + 1..i : ~Starts(s, p, j)
                                  /\ Figure(f[i], p) = s[i].total - s[k].total
<1> DEFINE Counted(i) == /\ HasTaken(f[i], s[i])
                         /\ \E k \in 1..i : /\ Starts(s, p, k)
                                            /\ \A j \in k + 1..i : ~Starts(s, p, j)
                                            /\ Figure(f[i], p) = s[i].total - s[k].total
           S == {n \in Nat : n + 1 <= Len(s) => Counted(n + 1)}
<1>1. ASSUME NEW i \in 1..Len(s)
      PROVE  /\ s[i] \in Reading /\ s[i].valid /\ s[i].total \in Nat
             /\ MeterSound(f[i - 1])
             /\ f[i] = calculate_bytes(f[i - 1], s[i])
  <2>1. i - 1 \in 0..Len(s)
    OBVIOUS
  <2>2. s[i] \in Reading /\ s[i].valid
    BY DEF TimedReading
  <2>3. s[i] \in Reading /\ s[i].valid /\ s[i].total \in Nat
    BY <2>2 DEF Reading
  <2>4. QED
    BY <2>1, <2>3 DEF MetersOf
<1>2. 0 \in S
  <2> SUFFICES ASSUME 1 <= Len(s) PROVE Counted(1)
    OBVIOUS
  <2>1. 1 \in 1..Len(s) /\ 1 - 1 = 0
    OBVIOUS
  <2>2. f[0] = NoMeter /\ ~NoMeter.started
    BY DEF MetersOf, NoMeter
  <2>3. HasTaken(f[1], s[1]) /\ Figure(f[1], p) = 0
    <3>1. MeterSound(NoMeter) /\ f[1] = calculate_bytes(NoMeter, s[1])
      BY <1>1, <2>1, <2>2
    <3>2. QED
      BY <1>1, <2>1, <2>2, <3>1, FiguresCountOn
  <2>4. Starts(s, p, 1)
    BY DEF Starts
  <2>5. s[1].total - s[1].total = 0
    BY <1>1, <2>1
  <2>6. \A j \in 1 + 1..1 : ~Starts(s, p, j)
    OBVIOUS
  <2>7. QED
    BY <2>3, <2>4, <2>5, <2>6
<1>3. ASSUME NEW n \in Nat, n \in S PROVE n + 1 \in S
  <2> DEFINE i == n + 1
             h == n + 2
  <2> SUFFICES ASSUME h <= Len(s) PROVE Counted(h)
    OBVIOUS
  <2>1. i \in 1..Len(s) /\ h \in 1..Len(s) /\ h - 1 = i /\ h # 1 /\ i = h - 1
    OBVIOUS
  <2>2. Counted(i)
    BY <1>3, <2>1
  <2> HIDE DEF i, h
  <2>3. /\ s[h] \in Reading /\ s[h].valid /\ s[h].total \in Nat
        /\ MeterSound(f[i]) /\ f[h] = calculate_bytes(f[i], s[h])
        /\ s[i] \in Reading /\ s[i].total \in Nat
    BY <1>1, <2>1
  <2>4. /\ HasTaken(f[h], s[h])
        /\ Figure(f[h], p) = IF \/ s[h].total < s[i].total
                                \/ calendar_keys(s[h])[p] # calendar_keys(s[i])[p]
                             THEN 0 ELSE Figure(f[i], p) + (s[h].total - s[i].total)
    BY <2>2, <2>3, FiguresCountOn
  <2>5. Starts(s, p, h) <=> \/ s[h].total < s[i].total
                            \/ calendar_keys(s[h])[p] # calendar_keys(s[i])[p]
    BY <2>1 DEF Starts
  <2>6. CASE Starts(s, p, h)
    <3>1. Figure(f[h], p) = s[h].total - s[h].total
      BY <2>3, <2>4, <2>5, <2>6
    <3>2. h \in 1..h /\ \A j \in h + 1..h : ~Starts(s, p, j)
      BY <2>1
    <3>3. QED
      BY <2>4, <2>6, <3>1, <3>2
  <2>7. CASE ~Starts(s, p, h)
    <3>1. PICK k \in 1..i : /\ Starts(s, p, k)
                            /\ \A j \in k + 1..i : ~Starts(s, p, j)
                            /\ Figure(f[i], p) = s[i].total - s[k].total
      BY <2>2
    <3>2. s[k].total \in Nat
      BY <1>1, <2>1
    <3>3. Figure(f[h], p) = s[h].total - s[k].total
      BY <2>3, <2>4, <2>5, <2>7, <3>1, <3>2
    <3>4. k \in 1..h /\ \A j \in k + 1..h : ~Starts(s, p, j)
      <4>1. \A j \in k + 1..h : j = h \/ j \in k + 1..i
        BY <2>1
      <4>2. QED
        BY <2>1, <2>7, <3>1, <4>1
    <3>5. QED
      BY <2>4, <3>1, <3>3, <3>4
  <2>8. QED
    BY <2>6, <2>7
<1>4. \A n \in Nat : n \in S
  <2> HIDE DEF S
  <2> QED
    BY <1>2, <1>3, NatSetInduction
<1>5. \A i \in 1..Len(s) : i - 1 \in Nat /\ (i - 1) + 1 = i
  OBVIOUS
<1>6. ASSUME NEW i \in 1..Len(s) PROVE Counted(i)
  <2>1. i - 1 \in S
    <3> HIDE DEF S
    <3> QED
      BY <1>4, <1>5
  <2> HIDE DEF Counted
  <2>2. (i - 1) + 1 <= Len(s) => Counted((i - 1) + 1)
    BY <2>1
  <2>3. QED
    BY <1>5, <2>2
<1>7. QED
  BY <1>6

(* For a day, a week and a month, whatever the readings of a set clock and  *)
(* however many: the traffic shown is what was counted since the period or  *)
(* the counter last started.  And whatever the clock does, the figures stay *)
(* in order (usb_net.c:414-486, 898-907).                                   *)
THEOREM FiguresAreWhatWasCounted ==
    /\ \A s \in Seq(TimedReading) \ {<<>>}, p \in Periods :
           Figure(MeterAfter(s), p) = CountedSinceStart(s, p)
    /\ \A s \in Seq(Reading) :
           LET m == MeterAfter(s)
           IN  /\ Figure(m, "today") \in 0 .. Figure(m, "week")
               /\ Figure(m, "today") <= Figure(m, "month")
<1>1. ASSUME NEW s \in Seq(TimedReading), s # <<>>,
             NEW p \in Periods
      PROVE  Figure(MeterAfter(s), p) = CountedSinceStart(s, p)
  <2> DEFINE N == Len(s)
             Begins(k) == Starts(s, p, k) /\ \A j \in k + 1..N : ~Starts(s, p, j)
             start == CHOOSE k \in DOMAIN s : Begins(k)
  <2>1. s \in Seq(Reading)
    BY DEF TimedReading
  <2>2. N \in 1..N /\ DOMAIN s = 1..N
    BY <1>1
  <2>3. PICK f : MetersOf(s, N, f) /\ MeterAfter(s) = f[N]
    BY <2>1, MeterAfterRuns
  <2>4. PICK k \in 1..N : Begins(k) /\ Figure(f[N], p) = s[N].total - s[k].total
    BY <2>2, <2>3, CountedFrom
  <2>5. start \in DOMAIN s /\ Begins(start)
    <3> HIDE DEF Begins
    <3> QED
      BY <2>2, <2>4
  <2> HIDE DEF start
  <2>6. start = k
    <3>1. start \in 1..N
      BY <2>2, <2>5
    <3>2. ~(k + 1 <= start) /\ ~(start + 1 <= k)
      BY <2>4, <2>5, <3>1
    <3>3. QED
      BY <3>1, <3>2
  <2>7. QED
    BY <2>3, <2>4, <2>6 DEF CountedSinceStart, start
<1>2. ASSUME NEW s \in Seq(Reading)
      PROVE  MeterSound(MeterAfter(s))
  <2>1. PICK f : MetersOf(s, Len(s), f) /\ MeterAfter(s) = f[Len(s)]
    BY MeterAfterRuns
  <2>2. Len(s) \in 0..Len(s)
    OBVIOUS
  <2>3. QED
    BY <2>1, <2>2 DEF MetersOf
<1>3. QED
  BY <1>1, <1>2, FiguresStayInOrder

(* In particular for the readings a run checks.                             *)
THEOREM SpecFiguresMatch == Spec => []FiguresMatchReadings
<1>1. ASSUME NEW n \in Nat, NEW clock \in BOOLEAN
      PROVE  /\ Readings(n, clock) \subseteq Seq(Reading) \ {<<>>}
             /\ clock => Readings(n, clock) \subseteq Seq(TimedReading)
  <2> DEFINE R == [total : Totals, day : Days, valid : {TRUE, clock}]
  <2>1. R \subseteq Reading /\ (clock => R \subseteq TimedReading)
    <3> SUFFICES ASSUME NEW r \in R PROVE r \in Reading /\ (clock => r.valid)
      BY DEF TimedReading
    <3>1. r.valid \in {TRUE, clock}
      OBVIOUS
    <3>2. clock => r.valid
      BY <3>1, Zenon
    <3>3. r = [total |-> r.total, day |-> r.day, valid |-> r.valid]
      OBVIOUS
    <3>4. r.total \in Nat /\ r.day \in Nat
      BY DEF Totals, Days
    <3>5. r.valid \in BOOLEAN
      BY <3>1, Zenon
    <3>6. [total |-> r.total, day |-> r.day, valid |-> r.valid] \in Reading
      BY <3>4, <3>5 DEF Reading
    <3>7. r \in Reading
      BY <3>3, <3>6
    <3>8. QED
      BY <3>2, <3>7
  <2>2. Readings(n, clock) = {s \in BoundedSeq(R, n) : s # <<>>}
    BY DEF Readings
  <2> HIDE DEF R
  <2>3. BoundedSeq(R, n) \subseteq Seq(R)
    BY DEF BoundedSeq, SeqOf
  <2>4. Seq(R) \subseteq Seq(Reading) /\ (clock => Seq(R) \subseteq Seq(TimedReading))
    BY <2>1
  <2>5. QED
    BY <2>2, <2>3, <2>4
<1>2. /\ Readings(4, TRUE) \subseteq Seq(TimedReading) \ {<<>>}
      /\ Readings(3, FALSE) \subseteq Seq(Reading)
  BY <1>1
<1>3. FiguresMatchReadings
  BY <1>2, FiguresAreWhatWasCounted DEF FiguresMatchReadings
<1>4. QED
  BY <1>3, PTL
=============================================================================
