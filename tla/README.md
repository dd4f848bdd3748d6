# A TLA+ model of unirtos-maker-examples

The repository is a collection of examples for UniRTOS on a cellular module.
Most show one driver; four are programs with a protocol of their own:
`emergency_call_alarm`, `voice_chatbot`, `cloud_loudspeaker` and `4g_donlg`.
This directory models these four. `PROJECT.json` lists the components, the TLC
runs, the lines each definition stands for, the hazards and the theorems.

## 1. The system

### emergency_call_alarm

A device with an SOS button and a voice recogniser. A trigger makes it send an
SMS to every emergency contact and then call them one after the other until one
answers. The contacts come from the cloud and are kept in NV memory.

| part | state | operations | talks to |
|---|---|---|---|
| alert session (`core.c`, `app.c`) | `alarm_session_t`, the event queue | one handler per event, five parts of a tick | everyone posts events to it; it calls the others |
| contact store (`cloud/contact_store.c`) | two buffers, two counts, the active index, the NV record | init, get, update | written by the cloud task, read without a lock by the alarm task |
| cloud channel (`cloud/mqtt_client.c`) | an event queue; the MQTT client's link, subscription, publications | open, connect, subscribe, publish, dispatch, drain, close, retry | MQTT callback posts to its queue; it updates the store and posts `CONTACTS_UPDATED` |
| contact list parser (`cloud/config_parser.c`) | none | parse, build | channel and store |
| indicators, TTS (`feedback/indicator.c`) | LED mode, LED timer, buzzer, TTS semaphore | apply a state, poll the battery, speak, wait | alert session; timer and TTS callbacks |
| calls and SMS (`service/call_sms.c`) | none | start and stop a call, fan out SMS, IMS and SMS callbacks | modem |
| SOS key, ASR UART (`machine/`) | none | one interrupt handler, one UART callback | post triggers |

What is hard here:

* Three tasks' worth of callbacks post into a queue of 16 that drops when full.
* The modem reports a call late, and its report does not name the call.
* `start_next_call` reads the contact table anew for every contact, while the
  cloud task may replace it.
* The tick runs only when the queue stayed empty for 500 ms, and it can start an
  alert or fail a session in the middle, before its later parts.
* Readers of the contact table hold a plain pointer into a double buffer.
* Power can be lost between the switch of the table and the write to NV.
* The channel waits for events without a timeout.

What makes the parts correct: flags, timers and indicators agree with the
state; nothing but a conversation waits for a report of the modem alone; every
contact gets a call, in order; readers see one whole list; an acknowledged list
survives a power loss; a new link never sees events of the old one; the
channel comes back after a loss.

### voice_chatbot

A client of a conversational cloud service over a websocket.

| part | state | operations | talks to |
|---|---|---|---|
| conversation (`core/chat_core.c`, `bus/chat_bus.c`) | IDLE, CONNECTING, ACTIVE, ERROR; mode, button, idle, backoff and press times; a bus of 16 events | one handler per event, a tick after 1 s without an event | everyone posts to its bus; it calls session and network manager |
| network manager (`network/net_mgr.c`) | `g_net_activating`, the PDP context | request ready, activation callback, PDP event callback | modem; posts `NET_READY` |
| websocket client (`network/coze_client.c`) | `g_client_connecting`, the worker's queue, the reassembly buffer | connect, receive callback, worker, reset | websocket library; worker calls the protocol |
| session, protocol (`network/coze_session.c`, `coze_protocol.c`) | session mode, `s_chat_busy` | start, stop, complete, dispatch of a cloud event | core task and worker |
| audio (`network/coze_audio_task.c`, `audio/`) | five flags, a queue of 96 frames, drop window, player and capture streams | uplink task, downlink task, start, stop, push, flush, press | core task and worker call it |
| talk button, wake-up UART (`peripherals/`) | stable level, time of the last edge | two interrupt handlers | post to the bus |

What is hard: handlers with no guard on the state, so that reports of old
connections are handled in the new one; flags set after the asynchronous call
whose callback clears them; a full bus; a check of the talk button followed by
a send; four tasks that share flags, a queue and two streams without a lock,
and a flush that drains, closes and only then mutes. Correct means that audio
runs exactly in a conversation, that core, uplink and cloud agree on whose turn
it is, that connecting ends, that an interrupted answer is not heard, that
nothing follows the end of an utterance, and that streams are released.

### cloud_loudspeaker

Speaks the texts it receives over MQTT.

| part | state | operations |
|---|---|---|
| MQTT service (`cloud_mqtt.c`) | the session's client id, `ready`, `closing`, the backoff, an event queue and a request queue | open, connect, subscribe, receive, time out, close, sleep and retry |
| audio task (`cloud_loudspeaker.c`) | none | welcome, start the service, speak one request after another |
| speech (`xf_tts.c`) | parser, output block, ring, two streams, two flags of the websocket callback | open, receive, decode, pump, drain the tail, close |

Hard: event reports do not name the client and are dropped at a full queue; a
session that is given up while its client lives; a ring between a socket and a
player that takes as much as it likes; a websocket that reports after its clip
was abandoned.

### 4g_donlg

Shares a cellular connection over USB and serves a page to control it
(`usb_net.c`): a main task that starts everything and then runs one pending
action at a time, a status task, a portal task with two listening ports, an
optional button task, and traffic figures of the day, the week and the month.
Hard: the status is copied without a lock, guarded by a counter; two tasks
check and set the pending action; a protocol switch that fails half way; a
counter of bytes that restarts and a clock that is set late.

### The other examples

`mqtt_demo`, `tcp_demo`, `datacall` and `fluid_matrix_lamp` have small
protocols that repeat a pattern modelled above, or a single loop.
`Multithreading`, `mutex_lock`, `boot_reason`, `e-ink_screen`,
`https_get_weather`, `large_screen`, `led_gpio`, `small_screen_demo`,
`sms_send` and `uart_demo` are drivers, drawing code or demonstrations of one
primitive; `uniclaw_agent` holds no source. They are not modelled.

Most lines of the repository are images, fonts, vendored JSON parsers, HTML
pages and display drivers; that is why the mapped share of all lines is small.

## 2. The modules

### AlarmCore - the alert session

One step of the alarm task is one event handler (`HandleVoiceTrigger`,
`HandleSosEdge`, ...), one part of the tick (`TickConfirm`, `TickCall`,
`TickStop`, `TickPoll`, `TickRecover`, in this order through `pc`), or one try
of `start_next_call`. A handler that ends in `start_next_call` leaves `pc` at
`"dial"` and `resume` at the place to go on, so callbacks, and a new contact
table, can come in between two tries, and during the TTS wait before the first.
A refused call leaves `pc` at `"dial"`: the recursion of the code.

`session` is `alarm_session_t` field by field. `out` is what
`feedback_apply_state` and the low battery warning do to the LED and the buzzer;
the vibration motor has no pin in `alarm_config.h` and is left out. `queue` is
the queue with `alarm_post_event`, which drops.

The modem is the environment: `line` is the newest call it accepted, `held`
counts the earlier calls it has not released yet, and each may ring, be
answered or be released at any moment. The model does not let the modem report
a call it never accepted; incoming calls are left out.

The contact table changes in one step (`PublishContacts`). That is what
`ContactStore` is shown to implement.

`AlertRotation` is the promise without timers, queues and call states: contacts
are tried one by one from the first, a conversation needs a call, and an alert
fails only when no contact is left.

### ContactStore - the double buffer and the NV record

The writer clears the standby buffer, copies one contact per step, sets the
count, flips the index, writes NV (or fails) and acknowledges. The reader takes
the index, the count, and one contact per step. `Restart` can come at any step
and keeps the NV record only.

`ContactRegister` is the promise: one table, replaced as a whole, one saved
table, and a start with the saved table or with the factory contacts.

### CloudChannel - the MQTT task

`cloud_task` drains the queue, opens a link, then reacts to events until one of
them means that the link is down; it closes, sleeps and starts again. The MQTT
client answers each request it accepted once, and may lose the link at any
moment; its callback drops events at a full queue.

### ChatCore - the conversation, its network and its bus

The core task takes one event (`HandleWake`, `HandlePressed`, ...) or, on an
empty bus, one tick of the state it is in (`TickError`, `TickActive`,
`TickIdle`). `net_mgr_request_ready` and `coze_client_connect` start something
and set a flag afterwards; between the two the core task is at `"netmgr"` or
`"open"` and the callback may already run. `chat_bus_post_event` drops. The
modem, the websocket library, the cloud and the finger are the environment; a
websocket reports its close once, whenever it likes. The worker takes a chunk
and dispatches it in a later step, so that a reset can come in between. The
audio tasks appear as three flags and as the activity they report.

`JsonStream` is the reassembly of JSON events, character by character over an
alphabet of five: what the scan knows after each character of the text in the
buffer, what a part makes of the buffer and of the events found, and what a
sequence of parts makes of both.

### AudioPath - uplink, downlink, flush

Core task, worker, uplink and downlink are split wherever another task can get
in between two accesses that matter: a flush is drain, close, set the window;
the uplink builds, checks, sends; the downlink takes, gates, holds, starts the
player, writes. Frames are all alike; `residue` counts those written to the
player while the window is open, `sent` the appends since complete.

### Loudspeaker, SpeechStream

`Loudspeaker` is the MQTT task with its session (`cloud_mqtt_session`) and the
audio task. The SDK has a few clients, any of which may answer, fail, lose its
link or report the close it was asked for, at any time; a session may be over
while its client still has something to say.

`SpeechStream` is one `xf_tts_speak` after another. A clip is the numbers 1, 2,
3, ... and a mark; reading, output block, ring with its wrap, pump and tail
move them, so that gaps and repetitions can be seen.

### UsbDongle, TrafficFigures

`UsbDongle` has the main task with its start-up and its pending action in two
steps (read, clear), the status task that stores in two parts between two
counts, the portal that loads in two parts between two looks at the count and
checks and sets the action in two steps, and the button. `TrafficFigures` is
the arithmetic of the figures as operators over one reading, next to a
reference definition over the whole sequence of readings.

### Files

| module | what it is |
|---|---|
| `AlarmCore`, `ContactStore`, `CloudChannel`, `ChatCore`, `AudioPath`, `Loudspeaker`, `SpeechStream`, `UsbDongle` | the state machines |
| `JsonStream`, `TrafficFigures` | algorithms with a reference definition |
| `...Properties` | what is claimed of them |
| `AlertRotation`, `ContactRegister` | abstract specifications |
| `MC...` | constants for TLC |
| `...Proofs` | proofs |

A definition named `X_Wrong` stands before `X` and is a faulty variant of it.
Nothing uses it: it is what is put in the place of `X` to see that a property
notices.

## 3. What is model-checked

| run | question | bounds |
|---|---|---|
| `alarm_safety` | `TypeOK`, `SessionConsistent`, `IndicatorsShowAlert`, `RosterKept`, `ImplementsRotation` | two tables of 2 and 1 contacts, queue of 2, 2 triggers, 1 new table; 2.6 million states |
| `alarm_liveness` | `AlertResolves`, `TalkEnds` | a queue of 1 that SMS reports and late call reports compete for, 2 contacts, 2 triggers |
| `store_safety` | `TypeOK`, `OneDownloadIsSafe`, `AckedSurvivesRestart`, `ImplementsRegister` | 3 downloads, 2 readers in turn, 1 power loss |
| `cloud_safety` | `TypeOK`, `OpensClean`, `RetriesUnlessDropped` | queue of 8 as in the code, 3 publications in flight |
| `chat_session` | `TypeOK`, `AudioFollowsState`, `PttFollowsButton`, `TurnModeAgrees`, `StreamIsFresh`, `EventsAreWhole` | bus of 2, worker queue of 1, 3 edges of the button, 1 other input; two of six objects cut into three parts |
| `chat_liveness` | `ConnectingResolves`, `UnusedSessionEnds` | bus of 1, countdowns of 2, 2 edges, 1 other input |
| `audio_path` | `TypeOK`, `BoundedResidue`, `OneTrailingAppend`, `MuteEnds`, `StopReleasesPlayer` | queue of 1, prebuffer of 2, window twice the cooldown; no bound on sessions, presses or frames |
| `loudspeaker` | `TypeOK`, `SleepFollowsFailures`, `SetupEnds` | 2 clients, event queue of 2, request queue of 1, the code's backoff of 5 to 60 s, 6 failures told apart |
| `speech` | `TypeOK`, `NoGap`, `NothingHeld`, `PlayedToTheEnd` | 2 clips of up to 7 units, ring of 5, block and chunk of 2, 2 waits for the driver |
| `dongle` | `TypeOK`, `PageIsWhole`, `SwitchIsToTheOther`, `FiguresMatchReadings`, `QueuedActionRuns`, `ClientsAreServed` | 1 status after the first, any number of connections and presses; up to 4 readings |

Why these bounds. Times of the alarm are in units of the 500 ms tick, one or
two long: a countdown only has to be seen above and at its last period, since
the code distinguishes nothing else. Two triggers are enough for a second alert
to meet reports of the first one's calls; two contacts show a rotation, and an
index that a second alert could inherit. Three downloads are one more than the
two a double buffer can carry. Two tables of different length let a replacement
leave the index past the end. In `chat_session` three edges are a press, its
release and the next press, so that one wakes the device and another talks or
interrupts; one other input is a
wake word, a lost network, a lost websocket or an unasked message, in any place
of the run; a bus of 1 or 2 drops at every place where the bus of 16 can.
`audio_path` has no bound on its actors; a queue of 1 is enough, as a frame is
either in the queue, in the hands of the downlink or held for the prebuffer,
and each of these is reached. Two MQTT clients are a current one and one whose
session was given up. Seven units wrap a ring of five with a block of two still
in front, and two waits for the driver let a clip end by their limit or before
it. Connections and presses of the dongle are not bounded. One status is written
while another is copied; a portal that the status task overtakes again and again
would have to start its copy anew each time, and is bounded away by `MaxStores`.
In the same way `MaxMessages` bounds away a stream of messages without an end,
each of which starts the wait of `cloud_mqtt.c:620` anew: `SetupEnds` holds for a
session whose events end.

Runs that end in a violation show that the code does not do what a comment says:

| run | what the code does |
|---|---|
| `alarm_late_release` | the late release of an earlier call skips the contact that is being called (`core.c:211`) |
| `append_after_complete` | a frame checked before the button was released is sent after the complete event; `coze_audio_task.c:388` says that none is |

The passing runs say what does hold instead: `OneTrailingAppend`, one frame at
most.

Other places where code and text disagree, met while modelling and not worth a
run each:

* `core.c:62` uses a table published during an alert at once; `core.c:231` says
  it is not swapped. `RosterKept` is what holds while no table is published.
* `indicator.c:430` switches the LED on in a call, `README_zh.md:110` says off;
  `indicator.c:494` leaves an idle buzzer on after a low battery warning,
  `README_zh.md:108` says off.
* `contact_store.c:122` rewrites a buffer whose pointer was taken while the last
  download was being written; `contact_store.c:174` says the next update leaves
  it alone. `OneDownloadIsSafe` counts the download that was under way.
* `mqtt_client.c:135` drops the report of a lost link at a full queue, and a
  refused subscription (`:234`) is only logged; `mqtt_client.c:600` promises to
  reconnect, subscribe and receive.
* `net_mgr.c:165` can set `g_net_activating` after the callback that clears it;
  then no request asks the modem again.
* `cloud_mqtt.c:578` says a session runs as long as its client; it can be given
  up while the client lives, and the client id stays taken. `cloud_mqtt.c:563`
  drops a valid message at a full queue; the README of the example says each is
  queued and played.
* `xf_tts_speak` returns 0 also for a clip that a late close of an earlier
  websocket cut short, and for one that the driver had not taken within the wait
  of the tail (`xf_tts.c:1028`). `PlayedToTheEnd` says what the driver got: all of
  a clip whose end was received, else what had arrived when the flag was set, and
  it excepts the time limits.
* The portal of `4g_donlg` and its button can both find the pending action free,
  and one of two accepted actions is lost. `QueuedActionRuns` says, for any
  number of presses, that only a switch of the button can displace a request,
  never one request another.

### Fairness

`AlarmCore`: the alarm task takes a step when it can (it is a task of its own
that never blocks without a timeout), and the network ends every call some
time, the newest and the earlier ones each (a cellular call does not last for
ever). Nothing else is fair: no answer, no ring, no SMS report, no new table is
ever owed, and a full queue may drop any report. That the tick gets its turn
follows because triggers, tables, calls and SMS are finite.

`CloudChannel`: the task takes a step, and the client answers what it accepted
and reports a close. New messages and losses are not owed.

`ChatCore`: core task and worker are scheduled; the modem answers an activation
and the library reports whether a websocket opened; the cloud answers
`chat.update` unless it leaves it unanswered, which it may, and which `lost`
records. No close, no loss and no message is owed.

`AudioPath`: the tasks go on within an operation, the downlink runs and time
passes. Neither the user nor the cloud is fair.

`Loudspeaker`: both tasks are scheduled and a clip returns. The SDK owes
nothing, not even the answer to a close.

`UsbDongle`: every task is scheduled. No client is assumed to speak: `recv` has
no timeout, and with a client that stays silent for ever no other is served,
which `ClientsAreServed` excepts. One client is taken per `select`, and the
captive port is looked at first (`usb_net.c:3280-3289`): a stream of clients there
that never breaks off keeps the page port waiting for ever, which the property
excepts too. Browsers and the button may come and go without end.

### Deadlock

Checked for `AlarmCore` and `AudioPath`, which always go on. `ContactStore` is
passive and stops when its bounds are used up; so does `SpeechStream` after its
clips. `CloudChannel` and `ChatCore` really can stop: the one waits for an event
that was dropped, the other is CONNECTING without a timeout. In `Loudspeaker`
the audio task returns when the service does not start, and in `UsbDongle` the
main task may give up.


## 4. What is proved

For every value of the constants that the named assumptions of the modules
allow: any sets of contacts, tables, clients and ports, any timing, prebuffer
and drop window, any depth of every queue, any size of the ring, any bounds; and
of the two algorithms for every input, however long.

| theorem | says |
|---|---|
| `AlarmCoreProofs!TypeCorrect` | `Spec => []TypeOK` |
| `AlarmCoreProofs!SessionKeepsConsistent` | `Spec => []SessionConsistent` |
| `AlarmCoreProofs!IndicatorsFollowState` | `Spec => []IndicatorsShowAlert` |
| `AlarmCoreProofs!SessionCallsRoster` | `Spec => []RosterKept` |
| `AlarmCoreProofs!SessionImplementsRotation` | `Spec => ImplementsRotation` |
| `ContactStoreProofs!StoreTypeCorrect` | `Spec => []TypeOK` |
| `ContactStoreProofs!ReadersSafe` | `Spec => []OneDownloadIsSafe` |
| `ContactStoreProofs!AcknowledgedListSurvives` | `Spec => AckedSurvivesRestart` |
| `ContactStoreProofs!StoreImplementsRegister` | `Spec => ImplementsRegister` |
| `CloudChannelProofs!ChannelTypeCorrect` | `Spec => []TypeOK` |
| `CloudChannelProofs!ChannelOpensClean` | `Spec => OpensClean` |
| `CloudChannelProofs!ChannelNoticesLoss` | `Spec => []LossNoticed` |
| `ChatCoreProofs!ChatTypeCorrect` | `Spec => []TypeOK` |
| `ChatCoreProofs!ChatAudioFollows` | `Spec => []AudioFollowsState` |
| `ChatCoreProofs!ChatPttFollows` | `Spec => []PttFollowsButton` |
| `ChatCoreProofs!ChatModesAgree` | `Spec => []TurnModeAgrees` |
| `ChatCoreProofs!ChatStreamFresh` | `Spec => []StreamIsFresh` |
| `ChatCoreProofs!ChatConnectingAwaits` | `Spec => []ConnectingAwaits` |
| `ChatCoreProofs!StreamIsScanned` | the scan of a stream of JSON objects finds exactly its objects |
| `ChatCoreProofs!CutsDoNotMatter` | a text in parts is dispatched as its scan as a whole |
| `ChatCoreProofs!ObjectsAreReceived` | a stream of objects in parts is dispatched object by object |
| `ChatCoreProofs!ChatEventsAreWhole` | `Spec => []EventsAreWhole` |
| `AudioPathProofs!AudioTypeCorrect` | `Spec => []TypeOK` |
| `AudioPathProofs!ResidueIsBounded` | `Spec => []BoundedResidue` |
| `AudioPathProofs!AtMostOneTrails` | `Spec => []OneTrailingAppend` |
| `AudioPathProofs!PlayerIsClosedAgain` | `Spec => []PlayerHasCloser` |
| `LoudspeakerProofs!LoudspeakerTypeCorrect` | `Spec => []TypeOK` |
| `LoudspeakerProofs!SleepGrowsWithFailures` | `Spec => []SleepFollowsFailures` |
| `SpeechStreamProofs!SpeechTypeCorrect` | `Spec => []TypeOK` |
| `SpeechStreamProofs!SpeechHoldsNothing` | `Spec => []NothingHeld` |
| `SpeechStreamProofs!SpeechLosesNothing` | `Spec => []NoGap` |
| `SpeechStreamProofs!SpeechPlaysToTheEnd` | `Spec => PlayedToTheEnd` |
| `UsbDongleProofs!DongleTypeCorrect` | `Spec => []TypeOK` |
| `UsbDongleProofs!PagesAreWhole` | `Spec => []PageIsWhole` |
| `UsbDongleProofs!SwitchesToTheOther` | `Spec => []SwitchIsToTheOther` |
| `UsbDongleProofs!RequestsAreKept` | `Spec => QueuedActionKept` |
| `UsbDongleProofs!FiguresStayInOrder` | one more reading keeps the meter sound; of a sound meter today is not negative, and within its week and its month |
| `UsbDongleProofs!FiguresCountOn` | one more reading adds what was counted, or starts a figure at zero |
| `UsbDongleProofs!FiguresAreWhatWasCounted` | after any readings with a valid clock a figure is what was counted since its start |
| `UsbDongleProofs!SpecFiguresMatch` | `Spec => []FiguresMatchReadings` |

Every inductive invariant below was given to TLC on the constants of its run
before it was proved.

**AlarmCore.** `TypeOK` is inductive with the typing of the operators it is
built from. `SessionConsistent` is not: its part about the countdowns says
nothing while `pc = "dial"`, and a step of `start_next_call` needs to know that
it runs in an active, unanswered session. `DialsInAlert` says so, and
`SessionInv` is the three together. The refinement follows from `SessionInv`
and one lemma per action that says which step of `AlertRotation`, or none, it
is. `IndicatorsShowAlert` becomes inductive as `ShowsState`, which speaks of
states and not of flags: the flags can change without a step of the feedback,
and `SessionConsistent` leads back to them. `RosterKept` needs to know that a
running alert still has the table it started with, when a try can be due and
that no alert runs in FAILED: `RosterInv` is `SessionInv` with that.

**ContactStore.** `OneDownloadIsSafe` needs to know where a reader's buffer is
relative to the writer's. `StoreInv` has a part about the writer (the standby
buffer holds the first `slot` contacts of `list` while it copies; all of them
at the flip) and one about the reader: its buffer is the active one, or the
standby one after a flip, and `begun` and `midway` say which; while it is, the
buffer and its count still equal `snapshot`. The other theorems use the
writer's part.

**CloudChannel.** `OpensClean` needs `Quiet`: from the close to the end of the
sleep the link is down with nothing in flight, and after the drain the queue
stays empty because nobody is left to report. `ChannelNoticesLoss` is the safety
core of `RetriesUnlessDropped`: a task that waits over a link that is down has
the event that tells it in its queue, unless it was dropped. For that a client
that opens a link must be the only one with something to report
(`OpensAlone`), or its refusal could meet a full queue.

**ChatCore.** `TurnModeAgrees` speaks of a conversation with an open websocket
only, which is too late: `ModesMatch` says of every state that the session was
asked for in the mode of the core task, that no websocket is open in IDLE and
ERROR, and that the cloud and the uplink have that mode as soon as there is a
websocket and a conversation. With it, `AudioFollowsState`, `PttFollowsButton`
and `StreamIsFresh` are inductive. `ChatConnectingAwaits` is the safety core of
`ConnectingResolves`: CONNECTING has no timeout, and an answer of the modem, its
event, a websocket on its way or a report of one is always there to end it,
unless `lost` or `StaleActivating` says why not. `SeekInv` adds that
`g_client_connecting` does not outlive a session (`FlagEnds`) and that a session
with a websocket, or with the flag set, has a report of it on its way
(`WsReports`); without the two the flag could turn a request away with nothing
behind it.

**JsonStream.** What is promised is stated without the scan: `StringBodies`,
`Bodies` and `Streams` are the least sets that are closed under the rules of
the grammar (an escape takes the next character along, an object holds
characters, strings and objects, a stream has blanks between its objects).
`StreamIsScanned` follows the grammar: a scan that comes upon a string leaves it
as a string ends (`StringBodyPasses`), one that comes upon the body of an object
leaves it at the depth at which it came (`BodyPasses`), and so an object that
begins outside all others is found at its last brace (`ObjectIsFound`).
`CutsDoNotMatter` follows the parts: `ScanResumes` says that a scan that starts
after an object, with nothing known, finds from there on what a scan from the
beginning finds, which is what lets the worker throw away the text before it
and start its scan of the rest anew with each part. Two conditions remain, and
the code has both: a part must fit in the buffer with what is pending (`Fit`;
else the worker drops text), and outside the objects there is no quote
(`QuotesInside`; a string that no object encloses and that a cut divides would be
forgotten with its first half). `CutObjectsAreReceived` applies the two to the
objects and cuts of the run, from `AccumMax > 15`, which is twice the longest of
them and a blank; the code has 32768.

**AudioPath.** `AudioInv` adds three parts. `HeldFits`: between the gate and
the last write the downlink holds something, and nothing elsewhere.
`ResidueFits`: what was played in the window and what may still be held add up
to no more than the prebuffer; this is where the order drain, close, window
matters. `ReleaseHolds` and `TrailFits`: from the release on the button is up
in a session of the button, and the frame sent after complete and the frame
that passed its second look are the same one. `PlayerHasCloser` is the safety
core of `StopReleasesPlayer`: `ClosesAgain` adds that the downlink plays only
while it remembers that it has to close, and that between closing the player
and forgetting it nobody but the core task opens it.

**SpeechStream.** The code waits for room in the ring before it puts a block
there, "only a safety net". The look at the room before a read is enough:
`Fits` says that what is in the ring, in the output block and read but not yet
decoded always fits into the ring. `HeldLate` says that nothing is open before
the streams are. `NoGap` speaks of the decoded units as one sequence: the units
played, the ring from its head over the wrap, the output block and what was
read. `ClipInv` proves it from where each of them starts (`Heard`), that the
head is the tail and the count apart (`Closes`) and that nothing read is left
behind (`AllFed`). `PlayedToTheEnd` is about the step that ends the tail. A clip
whose end was decoded is decoded to its last unit (`Clip`), and for one that was
closed `CloseSeen` says what the receive loop may conclude from a flag that it
looked at before it found the websocket empty. `Ending` carries this from the
loop over the flush, which empties the output block, to a ring that is empty.

**Loudspeaker.** `SleepFollowsFailures` holds in the sleep only; `BackoffGrows`
follows the backoff from one sleep to the next: while a session runs it is
already that of its failure. Only a session that waits has a client
(`SessionHasClient`), which the types need. The powers of two are a recursive
function; `PowersDouble` is its recursion equation, proved by induction.

**UsbDongle.** A page is whole because the portal compares two looks at the
count: `CopyInv` says what the portal's copy is worth while the count has not
moved (`NumberTells`, `CopyIsCurrent`), which stays true although the status
task goes on writing. `AloneAtStart` and `ActionInHand` tie the protocol to
the place in the main task. `QueuedActionKept` is the first
half of `QueuedActionRuns`, the action property: a queued request stays pending until it is taken, a
reset forgets it or a switch displaces it. `RequestWaits` is what it needs: a
portal that is about to write an action it found free displaces nothing but a
switch, and the main task that is about to clear finds what it took, unless a
switch is involved.

**TrafficFigures.** `MeterSound` says that no baseline is above the day's and
the day's not above the counter, and that the keys are those of one reading, so
that a week or a month never begins without a day. `FiguresStayInOrder` and
`FiguresCountOn` are the step of one reading; `FiguresAreWhatWasCounted` is the
induction over any number of them, of any size (`CountedFrom`: the baseline is
the counter at the last reading that started the period, and that start is the
one the reference definition chooses).

Induction. The library's induction theorems take an operator and cannot be used
with these provers. `NatSetInduction` is the same for a set of numbers, proved
from `WFMin` and `NatLessThanWellFounded`; that a recursive function has the
value its definition says is proved with it (`ScanSteps`, `DispatchSteps`,
`MeterAfterRuns`, `PowersExist`). Induction over the structure of a text needs no
theorem: what is in the least closed set is in every closed set, and the texts
of which the claim holds are one.

What stays with TLC: all liveness, which the proof system does not reach
(`AlertResolves`, `TalkEnds`, `RetriesUnlessDropped`, `ConnectingResolves`,
`UnusedSessionEnds`, `MuteEnds`, `StopReleasesPlayer`, `SetupEnds`,
`QueuedActionRuns`, `ClientsAreServed`). Every invariant and every action
property of the runs is proved, and of five of the liveness properties the
safety core: `ConnectingResolves`, `RetriesUnlessDropped`, `StopReleasesPlayer`,
`QueuedActionRuns` and, in the countdowns of `SessionConsistent`, `AlertResolves`.

## 5. Assumptions and omissions

* The NV driver replaces a record as a whole or not at all.
* Stores take effect in program order. Only `g_active_idx` of the contact store
  is volatile, and neither it nor the count that guards the status of
  `4g_donlg` comes with a barrier; a reordering of other stores past them is not
  modelled (for the contact store it is listed as a hazard).
* The cloud task is the only caller of `alarm_contact_store_update`, so the
  store's mutex is never contended and is left out.
* The MQTT client of the alarm reports a close, and a loss as one event, within
  the 30 s that the task sleeps before it opens again.
* Payloads, digests, topics, log texts, the UCS2 conversion and memory are left
  out; a contact is a model value and a list that the parser accepts is one of
  `Lists`.
* If creating a queue, a task or a mutex fails at start, the program does not
  run as modelled, except where the code goes on or gives up in the model too
  (`cloud_mqtt_start`, the start-up of the dongle).
* voice_chatbot: the sub-state, which only shows what is going on, the tool
  calls, and the registration with the network before the data call.
* cloud_loudspeaker: NTP, the signature of the URL, base64 and the JSON of the
  answers; a unit of sound is a number.
* voice_chatbot, audio: a delta and the start of a speech are modelled only while
  the link is open, although the worker may still dispatch chunks queued before
  the close; and stopping the player and forgetting that it is open
  (`coze_audio_task.c:774-777`) are one step. Neither adds a state that the
  properties tell apart.
* cloud_loudspeaker: what the playback stream itself still holds when a clip is
  over; a unit that the driver took counts as played.
* 4g_donlg: HTML, the parsing of requests, the DNS task (switched off); a request is one
  that asks for a page, one that asks for an action, or neither.

### Not modelled

* `emergency_call_alarm`: the LED timer's callback and the TTS semaphore, the
  contact list parser and the search for the keyword, the audio codec.
* `fluid_matrix_lamp`: its keys and modes. The fluid is numeric.
* The other examples, for the reasons in section 1 and in `PROJECT.json`.

The map names about 4200 lines. They are more than half of the files that hold
the protocols of the four programs; the rest of the repository is fonts, images
and the vendored cJSON and LVGL sources, drawing code, and demonstrations in a
single task that have no state worth a model.

## 6. Plan

Done: `AlarmCore`, `ContactStore`, `CloudChannel`, `ChatCore`, `AudioPath`,
`Loudspeaker`, `SpeechStream`, `UsbDongle`, each with its runs, and the proofs
of every safety property, action property and refinement that the runs check.

Left, in this order:

1. `AlarmDevice`: `AlarmCore` reading a `ContactStore`, to check the two
   together and not only through `ContactRegister`.
2. `AlarmIndicator`: the LED timer callback step by step against
   `set_led_blink_mode`, and the TTS semaphore with its late finish events.
3. `ContactParser` and `KeywordSearch`: the pure algorithms, as operators over
   short sequences compared with a reference definition.
4. `LampKeys`: the key debounce and the cycle of modes of `fluid_matrix_lamp`.
