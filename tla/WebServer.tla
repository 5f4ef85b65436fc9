------------------------------ MODULE WebServer ------------------------------
(***************************************************************************)
(* www_test: two web tasks serve one page each, on the access point and on *)
(* the station interface (server.rs).  A page waits in one select for what *)
(* its browser says and for what the board has to tell it: voltages and    *)
(* ADC buffers (adc.rs), the state of the pins (digital_io.rs), bytes from *)
(* the UART (uart.rs).  Commands go to a pin's task over its own           *)
(* RequestResponseChannel, to the UART, or to main, which puts the board   *)
(* to sleep (main.rs).  The five pins have a task and a channel each and   *)
(* share nothing: this is one of them.                                     *)
(*                                                                         *)
(* Tasks are cooperative: while the pin's task is between two awaits only  *)
(* the hardware moves.  The receiver of POWER_STATE and the power commands *)
(* belong to PowerController.                                              *)
(***************************************************************************)
EXTENDS RequestResponse

CONSTANTS
  Pages,        \* the web tasks, 2 * WEB_TASK_POOL_SIZE
  Outsides,     \* what may be connected to the pin
  BufferSlots,  \* slots of ADC_BUFFER_DATA, 2 in the code
  RxSlots,      \* slots of UART_RX_DATA, 4 in the code
  TxSlots,      \* slots of UART_TX_CHANNEL, 4 in the code
  Scenes        \* what goes on in one behaviour: the sources that speak and the
                \* commands browsers give, with bounds on commands and ADC batches

\* The sources of a page in the order in which its select polls them: two Watches
\* and two PubSubChannels.
Sources == <<"voltage", "pin", "buffer", "uart">>
SourceNames == {"voltage", "pin", "buffer", "uart"}
PinRequests == {"low", "high", "OpenDrain", "PushPull"}
PinModes == {"OpenDrain", "PushPull"}
PageStates == {"closed", "select", "sending", "calling", "queueing"}
Commands == PinRequests \cup {"send", "shutdown", "other"}

ASSUME WebAssumption ==
  /\ "main" \notin Pages
  /\ Clients = Pages \cup {"main"}
  /\ Requests = PinRequests
  /\ Outsides \subseteq [high: BOOLEAN, strong: BOOLEAN]
  /\ {BufferSlots, RxSlots, TxSlots} \subseteq Nat \ {0}
  /\ Scenes \subseteq [happens: SUBSET (SourceNames \cup Commands),
                      commands: Nat, batches: Nat]

VARIABLES      \* the pin and its task
  outside,     \* what is connected to the pin: its level, and whether it wins
  level,       \* the output register, is_set_high
  mode,        \* current_mode, and the drive mode of the pin
  edge,        \* an edge was latched for wait_for_any_edge
  pinTask,     \* where digital_pin_task is
  pinWatch     \* the value of DIGITAL_Dn_STATE, as a set

VARIABLES      \* the pages and what they are told
  page,        \* what each web task does
  unread,      \* values and messages each page has not taken, by source
  shown,       \* the last batch whose voltages and whose buffer each page took
  batches,     \* batches of the ADC so far, the last one's sequence + 1
  received,    \* uart_receive_task holds bytes it has not published
  txQueue,     \* messages in UART_TX_CHANNEL
  writing      \* uart_transmit_task writes

VARIABLES      \* main
  signal,      \* SHUTDOWN_SIGNAL
  main,        \* where the main task is
  floats       \* the calls main has still to make to the pin

VARIABLES      \* bounds and history, read by no task
  scene,       \* what goes on in this behaviour
  commands,    \* commands so far
  missed,      \* an edge since pin_state was read that nobody waited for
  undone       \* a page's command was taken after main's shutdown set the mode

pinVars   == <<outside, level, mode, edge, pinTask, pinWatch, missed>>
pageVars  == <<page, unread, shown>>
lineVars  == <<batches, received, txQueue, writing>>
mainVars  == <<signal, main, floats>>
webVars   == <<callVars, pinVars, pageVars, lineVars, mainVars, scene, commands, undone>>

(***************************************************************************)
(* The pin.                                                                *)
(***************************************************************************)

\* What the pin reads: a strong source wins against the output, and an open drain
\* that is released leaves the pin to the outside.
Reads(out, lvl, md) ==
  IF out.strong \/ (md = "OpenDrain" /\ lvl) THEN out.high ELSE lvl

\* pin_state
PinState ==
  LET high == Reads(outside, level, mode) IN
  IF mode = "OpenDrain" /\ level THEN IF high THEN "InHigh" ELSE "InLow"
  ELSE IF high # level THEN "FunckingBad"
  ELSE IF level THEN "DrivingHigh" ELSE "DrivingLow"

\* What SetState and SetMode do to the output register and the mode.
LevelAfter(req) == req = "high" \/ (req # "low" /\ level)
ModeAfter(req) == IF req \in PinModes THEN req ELSE mode

\* No other task is in the middle of a poll, and the board is awake.
MayRun == pinTask \in {"boot", "wait"} /\ main # "asleep"

(***************************************************************************)
(* The pages.                                                              *)
(***************************************************************************)
IsOpen(p) == page[p] # "closed"

Nothing == [s \in SourceNames |-> 0]

\* A message for every open page: a Watch keeps the last value only, and so does
\* publish_immediate with the last BufferSlots.
Tell(told, s, most) ==
  [p \in Pages |->
     IF IsOpen(p) /\ told[p][s] < most THEN [told[p] EXCEPT ![s] = @ + 1] ELSE told[p]]

\* A fresh receiver of a Watch finds its value unread, a fresh subscriber nothing.
Fresh ==
  [Nothing EXCEPT !["voltage"] = IF batches > 0 THEN 1 ELSE 0,
                  !["pin"] = IF pinWatch = {} THEN 0 ELSE 1]

\* Deliberate bugs stand before the definition they stand in for.
BuffersFirst(p, s) ==
  \A t \in SourceNames \ {"buffer"} : s = t => unread[p]["buffer"] = 0

\* select and select4 poll in the order in which they are given their futures.
FirstReady(p, s) ==
  \A i, j \in DOMAIN Sources :
    i < j /\ Sources[j] = s => unread[p][Sources[i]] = 0

LeaveUnread(p, s) == UNCHANGED unread
TakeMessage(p, s) == unread' = [unread EXCEPT ![p][s] = @ - 1]

\* The number of the oldest buffer a page has not taken.
OldestBuffer(p) == batches - unread[p]["buffer"] + 1

RaiseOnly == <<"high">>
FloatRequests == <<"OpenDrain", "high">>

ListenAgain == "arm"
AfterCommand == "publish"

WebInit ==
  /\ CallInit
  /\ outside = [high |-> TRUE, strong |-> FALSE]
  /\ level = TRUE
  /\ mode = "OpenDrain"
  /\ edge = FALSE
  /\ pinTask = "boot"
  /\ pinWatch = {}
  /\ page = [p \in Pages |-> "closed"]
  /\ unread = [p \in Pages |-> Nothing]
  /\ shown = [p \in Pages |-> [voltage |-> 0, buffer |-> 0]]
  /\ batches = 0
  /\ received = FALSE
  /\ txQueue = 0
  /\ writing = FALSE
  /\ signal = FALSE
  /\ main = "running"
  /\ floats = <<>>
  /\ scene \in Scenes
  /\ commands = 0
  /\ missed = FALSE
  /\ undone = FALSE

(***************************************************************************)
(* digital_pin_task.                                                       *)
(***************************************************************************)

\* What is outside the pin changes, at any time; the pin may see an edge.
OutsideChanges ==
  /\ main # "asleep"
  /\ "pin" \in scene.happens
  /\ outside' \in Outsides \ {outside}
  /\ LET falls == Reads(outside', level, mode) # Reads(outside, level, mode) IN
     /\ edge' = (edge \/ (falls /\ pinTask = "wait"))
     /\ missed' = (missed \/ (falls /\ pinTask = "arm"))
  /\ UNCHANGED <<level, mode, pinTask, pinWatch, callVars, pageVars, lineVars,
                 mainVars, scene, commands, undone>>

\* The top of the loop: the pin is read and its state sent to all receivers.
PublishPin ==
  /\ pinTask = "publish" \/ (pinTask = "boot" /\ MayRun)
  /\ pinWatch' = {[mode |-> mode, state |-> PinState]}
  /\ unread' = Tell(unread, "pin", 1)
  /\ missed' = FALSE
  /\ pinTask' = "arm"
  /\ UNCHANGED <<outside, level, mode, edge, callVars, page, shown, lineVars,
                 mainVars, scene, commands, undone>>

\* The select finds no request and enables the interrupt: the poll ends.
ArmEdge ==
  /\ pinTask = "arm"
  /\ requests = <<>>
  /\ edge' = FALSE
  /\ pinTask' = "wait"
  /\ UNCHANGED <<outside, level, mode, pinWatch, missed, callVars, pageVars,
                 lineVars, mainVars, scene, commands, undone>>

\* The request is polled first and wins; the future of the edge is dropped.
TakeCommand ==
  /\ pinTask = "arm" \/ (pinTask = "wait" /\ MayRun)
  /\ RecvRequest
  /\ level' = LevelAfter(Head(requests).body)
  /\ mode' = ModeAfter(Head(requests).body)
  /\ edge' = FALSE
  /\ pinTask' = "answer"
  /\ undone' = \/ Head(requests).from # "main"
               \/ undone /\ Head(requests).body # "OpenDrain"
  /\ UNCHANGED <<outside, pinWatch, missed, pageVars, lineVars, mainVars, scene,
                 commands>>

AnswerCommand ==
  /\ pinTask = "answer"
  /\ SendResponse
  /\ pinTask' = AfterCommand
  /\ UNCHANGED <<outside, level, mode, edge, pinWatch, missed, pageVars, lineVars,
                 mainVars, scene, commands, undone>>

\* The edge alone only starts the loop over.
SeeEdge ==
  /\ pinTask = "wait" /\ MayRun
  /\ edge
  /\ requests = <<>>
  /\ edge' = FALSE
  /\ pinTask' = "publish"
  /\ UNCHANGED <<outside, level, mode, pinWatch, missed, callVars, pageVars,
                 lineVars, mainVars, scene, commands, undone>>

PinTask == PublishPin \/ ArmEdge \/ TakeCommand \/ AnswerCommand \/ SeeEdge

(***************************************************************************)
(* adc_task and the UART's tasks.                                          *)
(***************************************************************************)
LineFrame ==
  /\ MayRun
  /\ UNCHANGED <<callVars, pinVars, page, shown, mainVars, scene, commands, undone>>

\* 125 samples: the last one's voltages to the Watch, all to the subscribers, of
\* whom the slow lose the oldest.
AdcBatch ==
  /\ "buffer" \in scene.happens
  /\ batches < scene.batches
  /\ batches' = batches + 1
  /\ unread' = Tell(Tell(unread, "voltage", 1), "buffer", BufferSlots)
  /\ UNCHANGED <<received, txQueue, writing>>
  /\ LineFrame

UartReads ==
  /\ "uart" \in scene.happens
  /\ ~received
  /\ received' = TRUE
  /\ UNCHANGED <<unread, batches, txQueue, writing>>
  /\ LineFrame

\* publish waits until the slowest page has taken its oldest message.
UartPublishes ==
  /\ received
  /\ \A p \in Pages : unread[p]["uart"] < RxSlots
  /\ unread' = Tell(unread, "uart", RxSlots)
  /\ received' = FALSE
  /\ UNCHANGED <<batches, txQueue, writing>>
  /\ LineFrame

\* uart_transmit_task takes the next message, and its write ends, perhaps with an error.
UartWrites ==
  /\ \/ ~writing /\ txQueue > 0 /\ writing' = TRUE /\ txQueue' = txQueue - 1
     \/ writing /\ writing' = FALSE /\ UNCHANGED txQueue
  /\ UNCHANGED <<unread, batches, received>>
  /\ LineFrame

(***************************************************************************)
(* WebsocketHandler::run.                                                  *)
(***************************************************************************)
PageFrame == MayRun /\ UNCHANGED <<pinVars, batches, received, writing, main, floats,
                                   scene, undone>>

\* A browser connects: all receivers and subscribers are taken.
OpenPage(p) ==
  /\ page[p] = "closed"
  /\ page' = [page EXCEPT ![p] = "select"]
  /\ unread' = [unread EXCEPT ![p] = Fresh]
  /\ shown' = [shown EXCEPT ![p] = [voltage |-> 0, buffer |-> 0]]
  /\ UNCHANGED <<callVars, txQueue, signal, commands>>
  /\ PageFrame

\* The browser leaves, sends what is not understood, or cannot be sent to: run
\* returns and the receivers are dropped.
ClosePage(p) ==
  /\ page[p] \in {"select", "sending"}
  /\ page' = [page EXCEPT ![p] = "closed"]
  /\ unread' = [unread EXCEPT ![p] = Nothing]
  /\ UNCHANGED <<shown, callVars, txQueue, signal, commands>>
  /\ PageFrame

\* The select yields what source s has for the page; the send may have to wait.
Show(p, s) ==
  /\ page[p] = "select"
  /\ unread[p][s] > 0
  /\ FirstReady(p, s)
  /\ TakeMessage(p, s)
  /\ shown' = [shown EXCEPT ![p] =
       [voltage |-> IF s = "voltage" THEN batches ELSE shown[p].voltage,
        buffer  |-> IF s = "buffer" THEN OldestBuffer(p) ELSE shown[p].buffer]]
  /\ page' \in {page, [page EXCEPT ![p] = "sending"]}
  /\ UNCHANGED <<callVars, txQueue, signal, commands>>
  /\ PageFrame

\* The browser took what was sent.
SendEnds(p) ==
  /\ page[p] = "sending"
  /\ page' = [page EXCEPT ![p] = "select"]
  /\ UNCHANGED <<unread, shown, callVars, txQueue, signal, commands>>
  /\ PageFrame

\* A command; the select polls the browser before everything else.
Command(p, c) ==
  /\ page[p] = "select"
  /\ c \in scene.happens
  /\ commands < scene.commands
  /\ commands' = commands + 1
  /\ UNCHANGED <<unread, shown, txQueue>>
  /\ PageFrame

SetPin(p) ==
  /\ \E r \in PinRequests : Command(p, r) /\ Call(p, r)
  /\ page' = [page EXCEPT ![p] = "calling"]
  /\ UNCHANGED signal

SendUart(p) ==
  /\ Command(p, "send")
  /\ page' = [page EXCEPT ![p] = "queueing"]
  /\ UNCHANGED <<callVars, signal>>

RequestShutdown(p) ==
  /\ Command(p, "shutdown")
  /\ signal' = TRUE
  /\ UNCHANGED <<callVars, page>>

\* I2C and power commands and pings: the page is busy with the answer.
OtherCommand(p) ==
  /\ Command(p, "other")
  /\ page' = [page EXCEPT ![p] = "sending"]
  /\ UNCHANGED <<callVars, signal>>

\* set and set_mode of DigitalIoHandle.
Transact(p) ==
  /\ page[p] = "calling"
  /\ \/ (Lock(p) \/ SendRequest(p)) /\ UNCHANGED page
     \/ RecvResponse(p) /\ page' = [page EXCEPT ![p] = "select"]
  /\ UNCHANGED <<unread, shown, txQueue, signal, commands>>
  /\ PageFrame

\* UartHandle::send waits for room.
Enqueue(p) ==
  /\ page[p] = "queueing"
  /\ txQueue < TxSlots
  /\ txQueue' = txQueue + 1
  /\ page' = [page EXCEPT ![p] = "select"]
  /\ UNCHANGED <<unread, shown, callVars, signal, commands>>
  /\ PageFrame

\* What the page's task does by itself, and what its browser may do.
PageTask(p) == (\E s \in SourceNames : Show(p, s)) \/ Transact(p) \/ Enqueue(p)

Browser(p) ==
  \/ OpenPage(p)
  \/ ClosePage(p)
  \/ SendEnds(p)
  \/ SetPin(p)
  \/ SendUart(p)
  \/ RequestShutdown(p)
  \/ OtherCommand(p)

(***************************************************************************)
(* main.                                                                   *)
(***************************************************************************)
MainFrame == MayRun /\ UNCHANGED <<pinVars, pageVars, lineVars, scene, commands>>

\* The select of the main loop yields the shutdown.
MainWakes ==
  /\ main = "running"
  /\ signal
  /\ main' = "boost"
  /\ signal' = FALSE
  /\ UNCHANGED <<callVars, floats, undone>>
  /\ MainFrame

\* The boost converter is off, or could not be turned off.
BoostIsOff ==
  /\ main = "boost"
  /\ main' = "float"
  /\ floats' = FloatRequests
  /\ undone' = FALSE
  /\ UNCHANGED <<callVars, signal>>
  /\ MainFrame

FloatPin ==
  /\ main = "float"
  /\ \/ /\ floats # <<>>
        /\ Call("main", Head(floats))
        /\ floats' = Tail(floats)
     \/ (Lock("main") \/ SendRequest("main") \/ RecvResponse("main")) /\ UNCHANGED floats
  /\ UNCHANGED <<main, signal, undone>>
  /\ MainFrame

PinsFloat ==
  /\ main = "float"
  /\ floats = <<>>
  /\ phase["main"] = "idle"
  /\ main' = "ship"
  /\ UNCHANGED <<callVars, signal, floats, undone>>
  /\ MainFrame

\* enter_shipping_mode has returned, with whatever answer.
Sleep ==
  /\ main = "ship"
  /\ main' = "asleep"
  /\ UNCHANGED <<callVars, signal, floats, undone>>
  /\ MainFrame

MainTask == MainWakes \/ BoostIsOff \/ FloatPin \/ PinsFloat \/ Sleep

Asleep == main = "asleep" /\ UNCHANGED webVars

WebNext ==
  \/ OutsideChanges
  \/ PinTask
  \/ AdcBatch
  \/ UartReads
  \/ UartPublishes
  \/ UartWrites
  \/ \E p \in Pages : PageTask(p) \/ Browser(p)
  \/ MainTask
  \/ Asleep

(***************************************************************************)
(* A task that can go on is polled in the end.  Nothing is assumed of      *)
(* browsers, not even that they take what they are sent, of the pin's      *)
(* surroundings, of samples or of the power task that main calls.          *)
(***************************************************************************)
WebFairness ==
  /\ WF_webVars(PinTask)
  /\ \A p \in Pages : WF_webVars(PageTask(p))
  /\ WF_webVars(FloatPin)
  /\ WF_webVars(UartPublishes)
  /\ WF_webVars(UartWrites)

WebSpec == WebInit /\ [][WebNext]_webVars /\ WebFairness

(***************************************************************************)
(* Properties.                                                             *)
(***************************************************************************)

\* Every variable keeps to its type.
WebTypeOK ==
  /\ TypeOK
  /\ outside \in [high: BOOLEAN, strong: BOOLEAN]
  /\ {level, edge, received, writing, signal, missed, undone} \subseteq BOOLEAN
  /\ mode \in PinModes
  /\ pinTask \in {"boot", "publish", "arm", "wait", "answer"}
  /\ page \in [Pages -> PageStates]
  /\ unread \in [Pages -> [SourceNames -> Nat]]
  /\ shown \in [Pages -> [voltage: Nat, buffer: Nat]]
  /\ batches \in Nat
  /\ txQueue \in 0..TxSlots
  /\ main \in {"running", "boost", "float", "ship", "asleep"}
  /\ scene \in Scenes
  /\ commands \in Nat

\* While the pin's task waits, what the pages are told of the pin is so: after every
\* command, whoever gave it, and after every edge, but for one that came between the
\* reading of the pin and the wait for an edge, which nobody waited for.
PinIsShown ==
  pinTask = "wait" /\ ~edge /\ ~missed
  => pinWatch = {[mode |-> mode, state |-> PinState]}

\* A page never shows a buffer of samples beside voltages that are older than it,
\* however long it was kept from its select.
VoltageKeepsUp == \A p \in Pages : shown[p].buffer <= shown[p].voltage

\* "float GPIOs" (main.rs:182): the board falls asleep with its pins in open drain
\* and released, unless a page, which the shutdown does not stop, gave a command
\* after main had set the mode.
SleepsFloating == main = "asleep" => (mode = "OpenDrain" /\ level) \/ undone

\* The invariants behind these.  The pin was read when it was last published, and an
\* edge is latched by a task that waits only.
PinInv ==
  /\ edge => pinTask = "wait"
  /\ pinTask \in {"arm", "wait"} /\ ~edge /\ ~missed
     => pinWatch = {[mode |-> mode, state |-> PinState]}

\* An open page that has no voltages left to take has the last batch's.
VoltageInv ==
  \A p \in Pages :
    /\ unread[p]["buffer"] <= batches
    /\ shown[p].buffer <= shown[p].voltage
    /\ shown[p].voltage <= batches
    /\ IsOpen(p) /\ unread[p]["voltage"] = 0 => shown[p].voltage = batches

\* What main has asked of the pin and was served holds until a page's command.
Done(req) == undone \/ IF req = "OpenDrain" THEN mode = "OpenDrain" ELSE level

ServedMain(queue) ==
  queue # <<>> /\ Head(queue).from = "main" => Done(Head(queue).body)

FloatInv ==
  /\ ServedMain(serving)
  /\ ServedMain(responses)
  /\ main # "float" => phase["main"] = "idle"
  /\ main = "float" =>
       \/ floats = FloatRequests /\ phase["main"] = "idle"
       \/ /\ floats = <<"high">>
          /\ IF phase["main"] = "idle" THEN Done("OpenDrain")
                                       ELSE asked["main"] = {"OpenDrain"}
       \/ /\ floats = <<>>
          /\ Done("OpenDrain")
          /\ IF phase["main"] = "idle" THEN Done("high") ELSE asked["main"] = {"high"}
  /\ main \in {"ship", "asleep"} => Done("OpenDrain") /\ Done("high")

\* A page is in transact while its web task is, for run does not return in a call; and
\* the pin's task answers before it does anything else.
PageCallInv ==
  /\ \A p \in Pages : phase[p] # "idle" <=> page[p] = "calling"
  /\ serving # <<>> <=> pinTask = "answer"

\* What a page waits for can happen: the pin's task can finish its poll, and it, main or
\* some page can go on with the calls; UART_TX_CHANNEL has room or a message to be
\* written; and a page with anything to take can take something, though perhaps from
\* an earlier branch of its select.
CallerCanGoOn(c) ==
  /\ IF c = "main" THEN main = "float" ELSE page[c] = "calling"
  /\ \/ phase[c] = "locking" /\ MutexFree
     \/ phase[c] = "sending" /\ Len(requests) < Capacity
     \/ phase[c] = "awaiting" /\ responses # <<>>

NoPageIsStuck ==
  main # "asleep" =>
    /\ IF pinTask = "answer" THEN serving # <<>> /\ Len(responses) < Capacity
                             ELSE serving = <<>>
    /\ \A p \in Pages :
         /\ page[p] = "calling" =>
              pinTask # "wait" \/ requests # <<>> \/ \E c \in Clients : CallerCanGoOn(c)
         /\ page[p] = "queueing" => txQueue < TxSlots \/ txQueue > 0
         /\ page[p] = "select" =>
              \A s \in SourceNames : unread[p][s] > 0 =>
                \E t \in SourceNames : unread[p][t] > 0 /\ FirstReady(p, t)

\* Whatever a page has not taken it goes on taking until it has all, and the UART's
\* bytes get published, unless the board sleeps, a browser never takes what it is
\* sent, or the pin never rests: its state comes before buffers and bytes.
Stuck(p) == <>[](page[p] = "sending")

KeepsTaking(p, s) ==
  []<>(unread[p][s] = 0) \/ []<><<unread[p][s]' < unread[p][s]>>_unread

PagesCatchUp ==
  \/ []<>edge
  \/ <>(main = "asleep")
  \/ /\ \A p \in Pages, s \in SourceNames : Stuck(p) \/ KeepsTaking(p, s)
     /\ (\E p \in Pages : Stuck(p)) \/ []<>(~received)
=============================================================================
