------------------------- MODULE UsbDongleProperties -------------------------
(* What UsbDongle and TrafficFigures promise.                               *)
EXTENDS UsbDongle, TrafficFigures

(* Every variable keeps its type, and only a main task that serves has      *)
(* other tasks beside it.                                                   *)
TypeOK ==
    /\ main \in [pc : {"boot", "attach", "dial", "share", "serve", "poll", "clear", "redial",
                       "reshare", "stop", "hangup", "set", "reset", "gone"},
                 act : Actions \cup {"NONE"}, target : Types]
    /\ pending \in Actions \cup {"NONE"}
    /\ type \in [current : Types, target : Types, flash : Types \cup {"OTHER"}]
    /\ status \in [pc : {"off", "idle", "head", "tail", "end"}, ver : 0 .. MaxStores,
                   seq : Nat, head : 0 .. MaxStores, tail : 0 .. MaxStores]
    /\ portal \in [pc : {"off", "closed", "select", "recv", "check", "set", "begin", "head",
                         "tail", "end", "answer"},
                   req : Requests \cup {"PAGE"}, seq : Nat,
                   head : 0 .. MaxStores, tail : 0 .. MaxStores]
    /\ open \subseteq Ports
    /\ waiting \subseteq open
    /\ button \in {"off", "up", "set"}

(* A page or a status answer is built from one status as it was stored,     *)
(* never from parts of two, although nothing locks the status task out of   *)
(* the copy (usb_net.c:650-679).                                            *)
PageIsWhole == portal.pc = "answer" => portal.head = portal.tail

(* Outside a reset under way the program's protocol is the one the SDK      *)
(* will boot with, and a switch that is pending or under way is to the      *)
(* other one: presses, failed attempts and refusals in between included     *)
(* (usb_net.c:1768-1788, 1816-1822, 2350).                                  *)
SwitchIsToTheOther ==
    main.pc \in {"poll", "clear", "redial", "reshare", "stop", "hangup", "set"} =>
        /\ type.current = type.flash
        /\ pending = "SWITCH" \/ button = "set" => type.target # type.current
        /\ main.pc \in {"stop", "hangup", "set"} /\ main.act = "SWITCH" =>
               main.target # type.current

(* A queued request stays pending: it is cleared when it is taken, a reset  *)
(* forgets it, and nothing else but a switch of the button can take its     *)
(* place or be cleared in its stead, although the portal looks before it    *)
(* writes and the main task takes before it clears, with no lock            *)
(* (usb_net.c:2316-2363).                                                   *)
QueuedActionKept ==
    [][\A act \in Requests : pending = act /\ pending' # act =>
           \/ main.pc = "clear" /\ main.act \in {act, "SWITCH"} /\ pending' = "NONE"
           \/ main.pc = "reset"
           \/ button = "set" /\ pending' = "SWITCH"]_vars

(* A request the portal queued is taken by the main task, unless the device *)
(* resets first or a switch of the button displaces this very request; it   *)
(* is neither forgotten nor left pending for ever, however often the button *)
(* is pressed: "HTTP handlers queue control actions, while the main task    *)
(* executes them serially" (README.md:143, usb_net.c:2316-2363).            *)
QueuedActionRuns ==
    /\ QueuedActionKept
    /\ \A act \in Requests : pending = act ~> pending # act

(* A browser that connected is taken up, or loses its connection to a       *)
(* failed select or a reset, unless an earlier client stays silent for      *)
(* ever: recv has no timeout (usb_net.c:2883).  That goes for port 80; on   *)
(* port 8080 it may wait as long as new clients come to port 80, which is   *)
(* looked at first, and no longer (usb_net.c:3250-3309, 672-677).           *)
ClientsAreServed ==
    \/ <>[](portal.pc = "recv")
    \/ /\ "captive" \in waiting ~> "captive" \notin waiting
       /\ \/ []<>("captive" \in waiting)
          \/ "page" \in waiting ~> "page" \notin waiting

(* With a valid clock the traffic of a day, a week and a month is what was  *)
(* counted since the period or the counter last started, whatever readings  *)
(* follow a power-on.  Also while the clock is unset or put back, a day's   *)
(* traffic is never negative and never more than that of its week or its    *)
(* month (usb_net.c:414-486, 898-907).                                      *)
FiguresMatchReadings ==
    main = Off =>
        /\ \A s \in Readings(4, TRUE), p \in Periods :
               Figure(MeterAfter(s), p) = CountedSinceStart(s, p)
        /\ \A s \in Readings(3, FALSE) :
               LET m == MeterAfter(s)
               IN  /\ Figure(m, "today") \in 0 .. Figure(m, "week")
                   /\ Figure(m, "today") <= Figure(m, "month")
=============================================================================
