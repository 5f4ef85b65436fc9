# A TLA+ verification of esp32-mainboard

This directory models the firmware of the board (Rust, Embassy on an ESP32-C6) in
TLA+, checks the models with TLC and proves theorems about them with TLAPS.  Paths
below are relative to `src/` (crate sources in `src/src/`); `PROJECT.json` names, for
every definition, the lines it stands for.

Three programs carry the logic.  The **test stand controller** arms and fires a rocket
engine on commands from an MQTT broker, moves a valve servo, presses a camera's
shutter and publishes measurements.  The **rail clock** gives one pulse a minute to
a station clock and keeps its state in the SRAM of an RTC.  The **web test program**
serves a page on each of its two interfaces, from which the board is tried out.  All stand on shared
tasks: the power controller, the interrupt line and a request/response channel.

## 1. Inventory

| component | source | state it keeps | operations | modelled in |
|---|---|---|---|---|
| launch sequencer | `test_stand_controller/sequencer.rs`, `fire_trigger.rs`, `signal_light.rs` | CURRENT_STATE, LAST_ARMED_VALUE, SEQUENCER_CHANNEL (4), signals FIRE_ACTIVATE and FIRE_CANCEL, two I2C expanders | FIRE, FIRE_END, FIRE_RESET, BUZZER_COMPLETE, edges of the safety switch, countdown, ignition, abort | Sequencer, SequencerDesign |
| camera shutter | `camera_shutter.rs` | SHUTTER_CHANNEL (4), the pin | request, press, release | Sequencer |
| request/response channel | `channel.rs` | two channels and a mutex | transact, recv_request, send_response | RequestResponse, RequestResponseDesign, WebServer |
| power controller | `power/controller.rs`, `tasks/power.rs` | mode, charger and expander registers, boost pin, POWER_STATE | switch_mode, read_stats, enter_shipping_mode, requests | PowerController, PowerDesign |
| external interrupt task | `tasks/interrupt.rs` | the latched edge of the shared INT line | wait, ask the power task, signal the RTC's listener | PowerController, RailClock |
| main and shutdown | `test_stand_controller/main.rs` | SHUTDOWN_SIGNAL | boost off, shipping mode, deep sleep | PowerController |
| servo controller | `test_stand_controller/servo.rs` | position, status, SERVO_COMMAND_CHANNEL | OPEN, CLOSE, reversal, timer ticks | ServoController |
| MQTT client and queue | `mqtt/client.rs`, `mqtt/queue.rs`, `mqtt/commands` | OUTBOUND_QUEUE (256), the connection | connect, subscribe, dispatch, publish, reconnect | MqttSession |
| codec, packets, topics | `mqtt/codec.rs`, `mqtt/sensors`, `mqtt/topics.rs` | none | packing, payloads, topics, words of commands | Payloads |
| temperature collection, TMP107 | `temperature_collection.rs`, `tmp107.rs` | batch, UART FIFO and receiver | trigger, wait, global read, LEDs | TemperatureChain |
| sensor collection | `sensor_collection.rs` | sample buffers | sample, publish a batch | what it queues: MqttSession |
| rail clock | `railclock/driver.rs`, `main.rs`, `rtc.rs` | hand position, semaphore of pushes, RTC flag and SRAM | push, pulse, alarm, restart, shutdown | RailClock |
| rail clock NTP, battery, MQTT | `railclock/ntp.rs`, `battery.rs`, `mqtt.rs` | - | set the clock, measure, publish | their effect on the clock only: RailClock |
| web test program | `www_test/server.rs`, `digital_io.rs`, `adc.rs`, `uart.rs`, `main.rs` | a select per page, a task, Watch and channel per pin, ADC_BUFFER_DATA (2), UART channels (4 each) | show, set a pin, send to the UART, edges, batches, shutdown | WebServer |
| sensor test, Wi-Fi, board glue | `tmp107_sensor_test/`, `wifi.rs`, `board.rs`, ... | - | constants | not modelled (section 8) |

**How they interact.**  Commands arrive in the MQTT task, are decoded and dispatched: a state command
goes to the sequencer's channel, a servo command to the servo's (unless CURRENT_STATE
is FIRE), SHUTDOWN to main (unless FIRE).  The sequencer drives the light over I2C,
raises FIRE_ACTIVATE or FIRE_CANCEL for the fire task, and queues shutter presses.
The fire task waits for the buzzer or the cancellation, fires, and reports back to
the sequencer's channel.  All of them queue statuses for the MQTT task with
`try_send`.  Power is reached only through the request/response channel: by main, by
the interrupt task and, on the rail clock, by the clock task.  A page of the web test
program waits in one select for its browser, for voltages, pins, samples and UART bytes;
what its browser asks of a pin goes over that pin's own request/response channel, which
main shares when it floats the pins before it sleeps.

**What is hard.**  Tasks are cooperative: between two pending awaits nothing else
runs, but what was read before an await may be stale after it, and a `select` drops
the future that lost.  Queues are bounded and nearly always filled with `try_send`,
whose failure is ignored or logged.  Every I2C transfer may fail half way through
a sequence.  The INT line is shared and edge-triggered, so a change while it is low
makes no edge.  Connections die unnoticed; the board may restart while an expander
still drives the trigger, or the SRAM holds anything.  The UART returns when bytes
are in its FIFO, not when they have been sent.  `PROJECT.json` lists each hazard
at its line, with the properties aimed at it.

**What makes each component correct.**

* Sequencer: no ignition without its own accepted FIRE, no launch lost, no abort lost or
  left over, light in step with the state and LAST_ARMED_VALUE with the switch.
* Shutter: every accepted press is made and released.
* Channel: one call at a time, every answer goes to the call that asked.
* Power: charger, VBUS switch and remembered mode agree; the charger takes up OTG behind
  an open VBUS switch only (on leaving it the two overlap for one I2C transfer); every call
  returns; the shutdown completes.
* Web: what a page is told of a pin is so; nothing a page has to be told is forgotten; samples
  are never shown beside older voltages; the board sleeps with floating pins.
* Servo: stays between its ends, rests where its status says, moves smoothly, obeys
  the last command, holds still in FIRE.
* MQTT: the broker ends up retaining what is so, whatever broke, and hears it in the order in which
  it came about; the task reconnects; what is sent can be decoded.
* Temperature: a reading is of this round and of the right sensor, packets carry
  the times of their own samples, and no tick is missed.
* Rail clock: one minute lost per start at most, every push made into a pulse, pulses
  under power, no alarm left unserved.

## 2. Modules and how they correspond to the code

Each component is one module: its state as variables, an action per handler or per
stretch of a task between two awaits, `Next`, `Spec`, properties at the end.  `X.tla`
is extended by `MCX.tla` (values for TLC, cfg files beside it) and by `XProofs.tla`.
Definitions that stand directly before another of the same shape and say something
wrong (`ForgetCancel`, `NibblesSwapped`, ...) are deliberate bugs: each replaces the
definition after it to see that a property notices.  No specification uses them.

**Sequencer** composes four tasks.  `cpu` names the task whose poll is in progress,
so that a step that needs several transfers cannot be interleaved with another task
but can be with pins and timers.  `StateTask` has one action per command, with all
that the handler does to the sequencer: transition, light, signals, shutter.  What it queues for
the broker with `try_send` changes nothing here and is MqttSession's `Change`.  `FireTask` is
boot, countdown, ignition or abort.  `Init` lets
the trigger and the light be anything: the expanders keep their outputs over a restart.
The history variables `launches, ignitions, ignited, lateStart, leftover, edgeMissed` and `unlit` (the
lamps of the present state could not be lit) are read by no task.  **SequencerDesign** is the state machine and light table of
`docs/plans/2026-03-01-signal-light-sequencer-design.md`: three states, lamps, ignitions
that use up launches, and a buzzer that sounds until the countdown of its launch is over
(`over <- ignited`).  The last the code does not always keep (section 4): a launch that begins while an
earlier countdown runs, or with a BUZZER_COMPLETE still queued (`leftover`), is mapped with the lamps of the state
while it is in FIRE (`PunctualLight`), and so is a state whose lamps could not be lit; otherwise the
lamps that are lit are mapped.

**RequestResponse** is `channel.rs` for any clients, requests and capacity: lock,
send, await, answer, unlock, each its own action.  **RequestResponseDesign** is a
service that answers one pending call at a time; the refinement mapping takes
`pending` and `answered` from the phases of the callers and the responses on their way.
**PowerController** instantiates RequestResponse for its own channel, so that the
callers main, interrupt task and application meet the real protocol.  Its `switch_mode`
is two transfers, expander then charger (`pins`, `regs`), either of which may fail.  The
PCF8574's INT semantics are external (`Level`, `IntLow`, `Get`): low while the inputs differ from
the last access.  The application is `www_test`'s web socket or the rail clock.
**PowerDesign** is what supply, battery and load see of it: charger and memory follow the VBUS
switch and nothing else, OTG is chosen only when no supply was seen, and after the battery is
disconnected nothing moves.  Requests, tasks, INT and failures are absent; its `up` is a power task that
is past `boot` and did not end there, and the other seven variables are the chips and the mode as they are (`supply <- vbus`, `noticed <- reading`,
`switch <- pins`, `battery <- batfet`).  The two halves of `switch_mode` are its `Isolate` and `Follow`; that the
first may be all of it is how it allows for a torn switch.

**WebServer** EXTENDS RequestResponse: the channel's variables and steps are those of one
pin, its server is `digital_pin_task`, its clients are the web tasks and main.  The five
pins share nothing, so this is one of them.  A page's select takes what is ready in the order
in which the code polls; `Show` takes one message, and `unread` counts what each page has
yet to take from its receivers: one value of a Watch, the last buffers of the ADC, the UART's messages.  An edge that comes
while the pin's task is not waiting is lost (`missed`).  The receiver of POWER_STATE and the power
commands belong to PowerController, whose application they are.

**ServoController** has the code's integer arithmetic, degrees and pulses in full;
`EnterFire` and `LeaveFire` stand for the sequencer, which leaves and enters FIRE in
just these ways (theorem `StatesCycle` of SequencerProofs).  A command that interrupts a
movement is put back at the end of the channel (`Resend`), as the code does.

**MqttSession** keeps the value of each retained topic, the outbound queue, the
connection (`alive`: the broker knows it; `reachable`: packets get through), the
packets not yet read, the last of which may have arrived in part (`partial`), and what the broker
retains.  DNS and TCP are one step (`Connect`); then the task waits for the CONNACK (phase `greeting`)
and for each SUBACK.  A batch is cut short by a full
queue, a session that ends clears it, and `StartSession` queues the current values.
**OutboundDesign** is what queue, session and network promise together: a line that loses
messages, with the mapping `line <- Pipeline` (what is being sent, then the queue).
It EXTENDS **Payloads**, which says what each message looks like in bytes: the 12-bit
packing of `codec.rs`, the payloads of `mqtt/sensors`, the decimal topic of a sensor,
the words `decode` accepts.  `TakeOutbound` ends the session for a message that does not fit
its buffer; `HandleCommand` dispatches only words that decode.

**TemperatureChain** is a timed model; a unit is one byte on the wire (87 us at
115200 baud).  It has the transmit FIFO with its refill threshold, the conversion
of the sensors, whether it was done when they were asked (`answered`), the receiver with what was
left in it, the ticker and the batch.

**RailClock** composes the clock task, the listener for ticks, the interrupt task, the
button and main with the RTC's flag and SRAM; `Restart` loses everything but the SRAM
and the hand of the clock.

## 3. Runs

| run | module | states | what it asks |
|---|---|---|---|
| `sequencer` | MCSequencer | 542 k | safety of launch, abort and switch; FIRE leads to its ignition, the shutter settles, the design is implemented, its lamps included; one failing transfer, channels of 2 and 1 |
| `buzzer_silence` | MCSequencer | violation | the design's "then red only" |
| `buzzer_early` | MCSequencer | violation | the design's "buzzer + red (3s)" |
| `web` | MCWebServer | 303 k | pages over the pin's channel: own answers, the channel's design, pins, voltages and floating as shown, pages catch up |
| `power` | MCPowerController | 181 k | safety and liveness of modes, interrupts, requests, shutdown and of a restart that finds the charger in any mode, the design (`ImplementsPowerDesign`), one failure |
| `power_vbus` | MCPowerController | violation | the loss of VBUS is served |
| `servo` | MCServoController | 123 k | the servo's safety, smoothness and the end of movements |
| `servo_order` | MCServoController | violation | the last command wins |
| `mqtt` | MCMqttSession | 895 k | payloads, retained values, the order of messages (`ImplementsOutbound`), arrival, reconnection |
| `mqtt_connect` | MCMqttSession | violation | the state is published on connect |
| `railclock` | MCRailClock | 802 k | pulses, alarms, power, restarts |
| `temperature` | MCTemperatureChain | 619 k | samples, ticks and packets for chains of 2 and 18 sensors |

**Bounds, and why they are enough.**

* Sequencer: channels of 2 and 1 instead of 4 and 4 fill within two commands; two
  FIREs let leftovers of one launch meet the next; one failure reaches every error
  path.  `buzzer_early` has the code's 4, room for three commands and the announcement behind them.  `FIRE_END`, `FIRE_RESET` and the switch are unbounded.
* Web: two pages and main, so that two wait for the channel while one is served.  The outside
  of the pin is a pull-up or a source that holds it low, so that all five readings of a pin occur.  Buffers
  of 2, as in the code, and of 2 and 1 messages for the UART, which three fill.  Each behaviour is one
  of four scenes: both pages and the pin; a page during the shutdown; three batches with UART bytes;
  bytes in both directions.  What the scenes keep apart meets only in the page's select.
* Power: one call of the application (boost on, or passive mode) and one failure among the
  calls of main and the interrupt task, which are unbounded; expander, charger and lines start in
  every state a restart of the CPU may find.
* Servo: capacity 3, five commands: a channel that fills, reversals of reversals,
  a full channel when a command is put back.  The tick is 382 ms instead of 20, for six steps
  a movement instead of 114 (20 ms with capacity 4 and two commands has also been run
  without an error); the proofs are for every tick.
* Mqtt: two retained topics and a queue of two that one status and its log line fill
  (three in `mqtt_connect`).  `Payloads` is evaluated with the code's own constants;
  samples and words are taken at their edges in packets of one to five.
* Rail clock: the SRAM may hold a phase the program writes (0), one it never does (4) and one to
  be replaced (2), and a lag of 0 or 1 minute; two pushes after each start; one failure.  Restarts
  are unbounded.
* Temperature: the code's times.  Six rounds, in which a reply may be missing, late or
  short; batches of 3 instead of 20.  18 sensors is the longest chain that keeps its ticks.

Deadlock is checked except in `railclock` (asleep or halted by a panic) and
`temperature` (end of the rounds).  The deep sleep of `power` is a stuttering action.

## 4. What the violations show

* **`BuzzerFallsSilent`** (`sequencer.rs:136`): BUZZER_COMPLETE is sent with `try_send`;
  when commands fill the channel it is lost and the buzzer sounds until the next state.
* **`BuzzerLastsItsTime`** (`sequencer.rs:177`): FIRE_END, FIRE_RESET and FIRE are queued when the
  countdown's timer comes due.  The timer wins its select, BUZZER_COMPLETE of the first launch goes
  behind them and is handled in the FIRE state of the second, whose buzzer falls silent at once.
* **`VbusLossIsServed`** (`tasks/interrupt.rs`): an edge while the task awaits its answer
  is not seen, and `read_stats` then clears INT, although nobody has looked at the
  mode since: the board stays in charging mode with no supply until something else reads the expander.
* **`LastCommandWins`** (`servo.rs:180`): OPEN under way with CLOSE, OPEN waiting: CLOSE
  interrupts, is put behind OPEN, and the servo ends closed.
* **`ConnectPublishesState`** (`mqtt/client.rs:162`): the queue is cleared at the end of a
  session and fills again in the five seconds of the reconnect delay (seven messages every
  100 ms reach 256 in less than four), so the states to be published on connect are dropped.

Also seen while modelling, with no property of their own: the comment at `tmp107.rs:279` says `tx`
waits "for all bits to leave the wire", and it does not; MAX_SENSORS is 31 but chains
of 19 and more are late for their ticks; `README.md:79` speaks of a queue of 128
messages, `mqtt/queue.rs:10` has 256; the rail clock writes its 24 bytes of state at the beginning of the
64 of the SRAM and reads the archive's root from their end, so that they are never read back.

## 5. Fairness

* Sequencer and PowerController: strong fairness for each task.  Embassy polls every woken
  task once before it polls any again, but a task is disabled while another one's poll
  is in progress, so weak fairness would promise nothing.  Timers come due (weak).
  Nothing is assumed of operators, of the switch, of VBUS or of the MQTT task.
* Servo: the task and its timer (weak).  `MovesEnd` also needs that commands end: each
  duplicate renews the 20 ms timer.
* Mqtt: the task goes on when it can, a reachable broker acknowledges, and a reachable
  session whose connection is gone is reset, for the collection tasks keep it
  sending.  Not assumed: that a dead connection is noticed by a task that only waits, for the CONNACK, a
  SUBACK or the rest of a packet whose header it has read.  None of the three has a timeout, and
  `Reconnects` excepts them by name (`Hung`); without any one of them TLC finds it violated.
* Rail clock: the clock task, for a power task that has started.
* Web: weak fairness for the pin's task, for each page's own steps, for main's calls to the pin and
  for the UART's tasks.  Nothing is assumed of browsers: one that never takes what it was sent blocks
  its own page and, through the UART's PubSubChannel, the other page's bytes (`Stuck`).
* RequestResponse, as a module of its own, and TemperatureChain have no liveness property.

## 6. Proofs

Sixty listed theorems hold for every value of the constants.  These are the arguments.
Type invariants are proved for all modules; where a run would only repeat that, it does not list them.

* **SequencerProofs.**  `LaunchInv`: `OneIgnitionPerFire` and the others are not inductive
  alone; they need that a cancellation a countdown may still take in FIRE comes with a
  renewed request (`CancelIsAskedFor`), and that the state is ARMED until the task runs.
  From it `IgnitionsAreGranted`, `NoLaunchIsLost`, `NoCancelIsLost`, `NoTriggerFromBefore` and
  the action property `AbortsAreAskedFor`.  `BuzzerIsAnnouncedInTime` is what remains of the violated
  `BuzzerLastsItsTime`: in FIRE, with nothing left over, a BUZZER_COMPLETE in the channel is announced by the launch's
  own countdown (`AnnouncedInTime`, for which only `Ignite` announces, and with it `ignited`).  `LightCorrect` and `ArmedValueCorrect` have invariants
  of their own; the first is checked by the run as a part of `ImplementsDesign`.  `SequencerImplementsDesign`: whatever
  transfers fail, every step is a step of the design or a stutter; a failing transfer leaves the tower as
  it was, and that is all it can do to the design.
* **RequestResponseProofs.**  `CallInv`: whoever holds the mutex, and nobody else, is between
  request and answer, and the one message under way is its own.  `AnswersAreOwn`,
  `ChannelsNeverFill`, `CallsAreSerial` follow, and `RefinesDesign` step by step.
  `NobodyWaitsForEver`: while a call is under way some caller or the server meets its guard, so that
  mutex, channels and callers never wait in a circle.
* **PowerProofs.**  `SwitchInv` says where in `switch_mode` expander, charger and mode may
  differ; with it `HardwareCorrect`, `StatsCorrect` and `OtgIsIsolated`.  `PowerAnswersAreOwn` reuses `CallInv`
  through the instance.  `SleepIsSafe`: no request is taken while an answer is on its way (`SleepInv`, from
  `OneMessage`), and main's place tells what it asked for (`MainInv`), so what boost_off and shipping
  mode have done is undone by nobody but the application.  `ModeIsVbus`: `VbusInv` says that the mode is in step with what the
  expander last showed, and INT high, from the moment a check looked at the mode until the next edge (`Settled`), and that
  P6 stays as it was read while the task switches, for whoever could hear of a change awaits that very answer
  (`NobodyListens`).  `PowerImplementsDesign` maps every step to PowerDesign, failing transfers included: `DesignInv` adds
  that a change to OTG goes by a reading without supply, and that after the battery is disconnected the shipping request
  or its answer is on its way, so that main holds the mutex until it sleeps and no request reaches the task (`OnlyMainIsLeft`).
  `BatteryGoesLast` is that part as a theorem of its own, `OtgIsIsolated` the action property the design implies.
* **WebProofs.**  Every step of the web program is a step of the channel or leaves it alone, so
  `WebImplementsDesign` and `WebAnswersAreOwn` are the channel's theorems; that main's calls are such steps needs
  `FloatInv`, which also gives `FallsAsleepFloating`.  `PinAsShown` from `PinInv` (an edge is latched by a waiting task
  only).  `VoltageKeepsUpAlways` from `VoltageInv`: a batch is numbered, a page has as many buffers unread as
  the oldest is behind, and its select takes voltages first.  `NoPageWaitsForEver`: a page is in `transact` exactly while
  its web task is (`PageCallInv`), so whoever holds the pin's mutex still runs, and the channel's `NobodyWaitsForEver` applies.
* **ServoProofs.**  `RestInv` (a position between the ends means a command still waits),
  `MotionInv` (a movement is on its interpolated position) and `LoneInv`; lemmas on the truncating
  division give `MotionSmooth` for every speed and tick, and `SpanCorrect`.  `MovementsGoOn`: between two
  commands let through, what is left of a movement (commands in the channel, timer ticks ahead, the timer itself, in this order) only
  goes down.
* **MqttProofs.**  `RetainedCorrect`: the type invariant and `RetainedIsCurrent` are inductive together,
  over any list of distinct topics; the lemmas are about the last message of a topic in a line.
  `RoomIsEnough` says when the promise that `mqtt_connect` refutes is kept.  `MqttImplementsOutbound` maps every step to
  OutboundDesign: what tasks queue joins the end of the line and is so at that moment (`OfferSays`), `Sent` takes its head,
  `TakeOutbound` leaves it as it is, and the end of a session empties it.
  That every message fits its buffer is proved from the code's batch sizes (`SamplesFit`, `StatusesFit`) and used
  wherever a message is sent.  `FastSamplesAreLossless` and `TemperaturesAreLossless`: for packets of every
  length, odd or even, and all values, a reader gets back the two times and the samples, for a word of four bytes is the number that
  was written (`WordOfFour`) and unpacking what `Pack` made gives the samples (`PackingIsLossless`); with `TopicsAreDistinct`
  this is more than `SentIsReadable` needs, whose property looks at bounded packets.
* **RailClockProofs.**  `PulseInv` (outputs and hand agree from the first pulse on; the converter is on
  for pulses), `AlarmInv` (a flag that was heard is on its way to the listener) and `PushesAreAccounted` (every push is
  a permit, a pulse to come or a pulse made), from which `PushesAreKept`.
* **TemperatureProofs.**  `TimingInv` and `BatchInv`; `SamplesCorrect` and `TicksAreOnTime`
  assume `Fits`: the bytes of a round, those that wait for the FIFO included (`Backlog`, which the refills work off in
  lumps), are through before the next tick.  With the code's times that is so for chains of up to 18 sensors
  and no longer ones, which TLC evaluates (`CodeFits` in MCTemperatureChain); `PacketsCorrect` assumes nothing of the times.

Assumptions on constants are named in each module (`SequencerAssumption`, ...): capacities
are positive, bounds natural, topics distinct, "FIRE" a value of the state topic.

**Only model-checked:** all liveness (`FireLeadsToIgnition`, `ShutterSettles`,
`CallsReturn`, `ShutdownCompletes`, `RestartIsHealed`, `PagesCatchUp`, `MovesEnd`, `StatusArrives`, `Reconnects`,
`PushesAreMade`), which needs fairness and ENABLED.  Of six of them the part without fairness is proved:
`NobodyWaitsForEver` (of `CallsReturn`), `NoPageWaitsForEver` (`PagesCatchUp`), `SwitchCorrect` (`RestartIsHealed`: once
the first switch succeeded, expander and charger differ only within a switch or after a torn one),
`MovementsGoOn` (`MovesEnd`), `PushesAreKept` (`PushesAreMade`), and
`NoLaunchIsLost` with `AbortsAreAskedFor` (`FireLeadsToIgnition`).  Every safety property of a passing run is a theorem.

## 7. Exceptions stated in the properties

Each names a case in which the code does not deliver, so that the property is about all others:
`RetainedIsCurrent` excepts a topic whose newest value found the queue full (`lost`),
`Reconnects` a wait on a connection that died unnoticed (`Hung`), `ImplementsDesign` of the sequencer the buzzer of a launch
that begins with something left over (`leftover`) and the lamps of a state that could not be lit (`unlit`),
`CancelNotLost` a countdown begun outside FIRE (`lateStart`: FIRE and FIRE_END handled before the fire task was
polled; `FIRE_CANCEL.reset()` then forgets the cancellation), `ArmedValueFresh` a missed edge,
`ModeFollowsVbus` a missed edge or a commanded mode, `AsleepSafely` a boost converter the application set last, `PinIsShown` a missed edge, `SleepsFloating` a page's command
after main had set the mode (`undone`: nothing stops the pages during the shutdown), `PagesCatchUp` a
page whose browser takes nothing and a pin whose edges never end, `HardwareFollowsMode` a switch torn by a failing transfer, `AlarmsAreServed` an alarm on
a line the expander already held low (`masked`), `OnePulseIsLost` a stored phase the program never writes.

## 8. Not modelled, and why

* Charger settings, the charger's watchdog and the `psel` and `otg` pins: they depend on register
  words the tasks never read back.  POWER_STATE beyond the boost flag: nobody acts on it.
* DNS and TCP are one step.  Keep-alive is part of the connection's dying.  A CONNACK or SUBACK that has
  arrived in part counts as not come yet, for the task waits for it in either case.
* The ADC loops of `sensor_collection.rs`, which are straight-line code: only the batches they queue.
* TMP107 registers and addresses count as bytes; `TxError` has no variants, so writes do not fail.
* Start-up: spawning and the panics of `expect` come before any task.
* Of `www_test`: HTTP and `picoserve`, the parsing of commands, ping and pong, the charger page's
  I2C transfers beyond the time they take, start-up and the receivers a third page would be refused.  That the
  page's select drops a WebSocket message of which only a part was read (`server.rs:388`) is a matter
  of bytes on a stream that the model does not have.
* SHUTDOWN accepted in ARMED with a FIRE queued before it (`mqtt/client.rs:92`): MqttSession and PowerController have
  both halves; the code says nothing of which should win, so there is no property to state beyond the check itself.
* The session of the rail clock's `mqtt.rs` is the test stand's with fewer messages and nothing retained;
  its commands are RailClock's `Press` and `Shutdown`.
* `tmp107_sensor_test`, `wifi.rs`, `battery.rs`, `ntp.rs` are I/O or bench programs.

## 9. Plan

The order was: what can fire an engine (Sequencer), what everything calls
(RequestResponse, then PowerController over it), what moves (ServoController), what the
operator sees (MqttSession, Payloads), the second program (RailClock), the timed one
(TemperatureChain), the third program over the channel (WebServer), and then the proofs of
the power controller's shutdown, types and mode, its design and refinement (PowerDesign).  That is done.  What could
still be added: NTP synchronisation of the rail clock against pushes under way, and the part without fairness of
`ShutdownCompletes` (main's calls are served by a task that has started, which `NobodyWaitsForEver` says of the
channel alone).
