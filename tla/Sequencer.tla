------------------------------ MODULE Sequencer ------------------------------
(***************************************************************************)
(* The rocket sequencer of test_stand_controller: state_sequencer_task and *)
(* fire_sequencer_task (sequencer.rs), the bounded channel and the two     *)
(* latched signals between them, the signal light and the fire trigger     *)
(* behind their PCF8574 expanders, the safety switch, and the camera       *)
(* shutter task that both accepted FIRE and FIRE_END poke.                 *)
(*                                                                         *)
(* Embassy tasks are cooperative: a task runs from one pending await to    *)
(* the next without another task in between.  cpu names the task whose     *)
(* poll is in progress; only pins and timers move while it is not idle.    *)
(*                                                                         *)
(* What the tasks queue for the broker changes nothing here, not even when *)
(* the queue is full, and is the subject of MqttSession (Change).          *)
(***************************************************************************)
EXTENDS Naturals, Sequences

CONSTANTS
  ChannelCapacity,  \* SEQUENCER_CHANNEL, 4 in the code
  ShutterCapacity,  \* SHUTTER_CHANNEL, 4 in the code
  MaxFires,         \* bound on the FIRE commands an operator sends
  MaxFailures       \* bound on failing I2C transfers

ASSUME SequencerAssumption ==
  /\ ChannelCapacity \in Nat \ {0}
  /\ ShutterCapacity \in Nat \ {0}
  /\ MaxFires \in Nat
  /\ MaxFailures \in Nat

VARIABLES
  pin,            \* the safety switch input is high (armed)
  edge,           \* an edge was latched for the pending wait_for_any_edge
  lastArmed,      \* LAST_ARMED_VALUE
  channel,        \* SEQUENCER_CHANNEL
  state,          \* the local state of the task and CURRENT_STATE
  stateTask,      \* progress of state_sequencer_task
  light,          \* lamps the light tower expander drives
  fireActivate,   \* FIRE_ACTIVATE is signalled
  fireCancel,     \* FIRE_CANCEL is signalled
  fireTask,       \* progress of fire_sequencer_task
  timerExpired,   \* the buzzer timer of the running countdown is due
  trigger,        \* the fire trigger expander drives the trigger byte
  shutterChannel, \* number of requests in SHUTTER_CHANNEL
  shutterTask,    \* progress of camera_shutter_task
  cpu             \* the task whose poll is in progress

VARIABLES         \* bounds and history, read by no task
  unlit,          \* the lamps of the present state could not be lit
  edgeMissed,     \* the switch moved unseen since LAST_ARMED_VALUE was stored
  failures,       \* failing calls so far
  firesSent,      \* FIRE commands sent so far
  launches,       \* FIRE commands accepted so far
  ignitions,      \* calls of trigger.trigger() so far
  ignited,        \* the countdown of the last accepted FIRE ended in trigger()
  lateStart,      \* the running countdown began outside the FIRE state
  leftover        \* an earlier countdown ran, or its BUZZER_COMPLETE was still
                  \* queued, when the last FIRE was accepted

armedVars   == <<pin, edge, lastArmed, edgeMissed>>
fireVars    == <<fireActivate, fireCancel, fireTask, timerExpired, trigger,
                 ignitions, ignited, lateStart, leftover>>
shutterVars == <<shutterChannel, shutterTask>>
lightVars   == <<light, unlit>>
vars == <<armedVars, channel, state, stateTask, lightVars, fireVars, shutterVars,
          cpu, failures, firesSent, launches>>

States   == {"ARMED", "FIRE", "POSTFIRE"}
Commands == {"FIRE", "FIRE_END", "FIRE_RESET"}
Messages == Commands \cup {"BUZZER_COMPLETE"}
Lamps    == {"green", "red", "buzzer"}
Tasks    == {"state", "fire"}

(***************************************************************************)
(* Helpers.                                                                *)
(***************************************************************************)

\* Variants named ForgetCancel, KeepActivate and so on are deliberate bugs: each
\* stands in for the definition after it to show that a property notices.

\* Channel::try_send: a full channel refuses the message.
Offer(queue, msg) ==
  IF Len(queue) < ChannelCapacity THEN Append(queue, msg) ELSE queue

\* A BUZZER_COMPLETE waits in the queue.
Announced(queue) == \E i \in 1..Len(queue) : queue[i] = "BUZZER_COMPLETE"

\* A task may be polled when no other task's poll is in progress.
MayRun(task) == cpu \in {"idle", task}

\* n calls of this step fail.
Fail(n) ==
  /\ failures + n <= MaxFailures
  /\ failures' = failures + n

Failed(ok) == IF ok THEN 0 ELSE 1

\* The edge interrupt is enabled only while state_sequencer_task is suspended.
Listening == stateTask = "running" /\ cpu # "state"

\* FIRE_ACTIVATE.wait() takes the signal.
KeepActivate == UNCHANGED fireActivate
TakeActivate == fireActivate' = FALSE

\* FIRE_CANCEL.signal() and, at the start of a countdown, FIRE_CANCEL.reset().
ForgetCancel == UNCHANGED fireCancel
SignalCancel == fireCancel' = TRUE
KeepCancel == UNCHANGED fireCancel
ResetCancel == fireCancel' = FALSE

\* The write of 0xFF in FireTrigger::new.
LeaveTrigger == UNCHANGED trigger
ReleaseTrigger == trigger' = FALSE

\* SHUTTER_CHANNEL.receive()
PeekShutter == UNCHANGED shutterChannel
TakeShutter == shutterChannel' = shutterChannel - 1

\* publish_armed_change reads the pin anew.
ToggleLevel == lastArmed' = ~lastArmed
StoreLevel == lastArmed' = pin

\* The states in which FIRE_RESET and BUZZER_COMPLETE are acted on.
MayReset == state = "POSTFIRE"
AlwaysSilence == TRUE
MaySilence == state = "FIRE"

\* camera_shutter::trigger_shutter
TriggerShutter ==
  /\ shutterChannel' = IF shutterChannel < ShutterCapacity
                         THEN shutterChannel + 1 ELSE shutterChannel
  /\ UNCHANGED shutterTask

LitWhen(s) == CASE s = "ARMED"    -> {"green"}
                [] s = "FIRE"     -> {"red", "buzzer"}
                [] s = "POSTFIRE" -> {"green", "red"}

\* transition_state, then set_light, whose failure is not acted on.
Enter(next) ==
  \E lit \in BOOLEAN :
    /\ Fail(Failed(lit))
    /\ state' = next
    /\ light' = IF lit THEN LitWhen(next) ELSE light
    /\ unlit' = ~lit

\* set_light with its error ignored.
SetLight(lamps) ==
  \E lit \in BOOLEAN :
    /\ Fail(Failed(lit))
    /\ light' = IF lit THEN lamps ELSE light
    /\ unlit' = (unlit /\ ~lit)

\* trigger.trigger() and trigger.abort() with their errors ignored.
DriveTrigger(level) ==
  \E ok \in BOOLEAN :
    /\ Fail(Failed(ok))
    /\ trigger' = IF ok THEN level ELSE trigger

(***************************************************************************)
(* Restart: RAM is lost, but the expanders keep what they drive, so a      *)
(* boot may find any lamps lit and the trigger byte still driven.          *)
(***************************************************************************)
Init ==
  /\ pin \in BOOLEAN
  /\ edge = FALSE
  /\ lastArmed = pin
  /\ edgeMissed = FALSE
  /\ channel = <<>>
  /\ state = "ARMED"
  /\ stateTask = "boot"
  /\ light \in {{}, {"red"}} \cup {LitWhen(s) : s \in States}
  /\ fireActivate = FALSE
  /\ fireCancel = FALSE
  /\ fireTask = "boot"
  /\ timerExpired = FALSE
  /\ trigger \in BOOLEAN
  /\ shutterChannel = 0
  /\ shutterTask = "waiting"
  /\ cpu = "idle"
  /\ unlit = FALSE
  /\ failures = 0
  /\ firesSent = 0
  /\ launches = 0
  /\ ignitions = 0
  /\ ignited = FALSE
  /\ lateStart = FALSE
  /\ leftover = FALSE

(***************************************************************************)
(* The surroundings: the switch, the operator's commands, the timer.       *)
(***************************************************************************)

\* The operator turns the safety switch.
FlipSwitch ==
  /\ pin' = ~pin
  /\ edge' = (edge \/ Listening)
  /\ edgeMissed' = (edgeMissed \/ ~Listening)
  /\ UNCHANGED <<lastArmed, channel, state, stateTask, lightVars, fireVars,
                 shutterVars, cpu, failures, firesSent, launches>>

\* send_state_command, called from the MQTT task's poll.
SendStateCommand(cmd) ==
  /\ cpu = "idle"
  /\ channel' = Offer(channel, cmd)
  /\ IF cmd = "FIRE"
       THEN firesSent < MaxFires /\ firesSent' = firesSent + 1
       ELSE UNCHANGED firesSent
  /\ UNCHANGED <<armedVars, state, stateTask, lightVars, fireVars, shutterVars,
                 cpu, failures, launches>>

\* FIRE_BUZZER_DURATION_MS pass after the countdown began.
TimerExpires ==
  /\ fireTask = "counting"
  /\ ~timerExpired
  /\ timerExpired' = TRUE
  /\ UNCHANGED <<armedVars, channel, state, stateTask, lightVars, fireActivate,
                 fireCancel, fireTask, trigger, ignitions, ignited, lateStart,
                 leftover, shutterVars, cpu, failures, firesSent, launches>>

(***************************************************************************)
(* state_sequencer_task.                                                   *)
(***************************************************************************)

\* SignalLight::new switches every lamp off and ends the task if it cannot;
\* then the task shows ARMED, whether or not set_light succeeds.
StateBoot ==
  /\ stateTask = "boot"
  /\ MayRun("state")
  /\ \/ /\ Fail(1)
        /\ stateTask' = "stopped"
        /\ UNCHANGED <<state, lightVars, cpu>>
     \/ /\ \E lit \in BOOLEAN :
             /\ Fail(Failed(lit))
             /\ light' = IF lit THEN LitWhen("ARMED") ELSE {}
             /\ unlit' = ~lit
        /\ stateTask' = "running"
        /\ state' = "ARMED"
        /\ cpu' = "state"
  /\ UNCHANGED <<armedVars, channel, fireVars, shutterVars,
                 firesSent, launches>>

\* select polls the channel first: a ready message drops the edge future, and
\* with it an edge that was latched but not yet seen.
Receive(msg) ==
  /\ stateTask = "running"
  /\ MayRun("state")
  /\ channel # <<>>
  /\ Head(channel) = msg
  /\ channel' = Tail(channel)
  /\ edge' = FALSE
  /\ edgeMissed' = (edgeMissed \/ edge)
  /\ cpu' = "state"
  /\ UNCHANGED <<pin, lastArmed, stateTask, firesSent>>

Rejected ==
  \/ Receive("FIRE") /\ (state # "ARMED" \/ ~pin)
  \/ Receive("FIRE_END") /\ state # "FIRE"
  \/ Receive("FIRE_RESET") /\ ~MayReset

\* handle_command returns early, saying so on the command log only.
Reject ==
  /\ Rejected
  /\ UNCHANGED <<state, lightVars, fireVars, shutterVars, failures,
                 launches>>

AcceptFire ==
  /\ Receive("FIRE")
  /\ state = "ARMED"
  /\ pin
  /\ Enter("FIRE")
  /\ TriggerShutter
  /\ fireActivate' = TRUE
  /\ launches' = launches + 1
  /\ ignited' = FALSE
  /\ leftover' = (fireTask = "counting" \/ Announced(channel'))
  /\ UNCHANGED <<fireCancel, fireTask, timerExpired, trigger, ignitions,
                 lateStart>>

AcceptFireEnd ==
  /\ Receive("FIRE_END")
  /\ state = "FIRE"
  /\ SignalCancel
  /\ TriggerShutter
  /\ Enter("POSTFIRE")
  /\ UNCHANGED <<fireActivate, fireTask, timerExpired, trigger, ignitions,
                 ignited, lateStart, leftover, launches>>

AcceptFireReset ==
  /\ Receive("FIRE_RESET")
  /\ MayReset
  /\ Enter("ARMED")
  /\ UNCHANGED <<fireVars, shutterVars, launches>>

\* The countdown is over: red only, if the sequencer is still in FIRE.
BuzzerComplete ==
  /\ Receive("BUZZER_COMPLETE")
  /\ IF MaySilence THEN SetLight({"red"}) ELSE UNCHANGED <<lightVars, failures>>
  /\ UNCHANGED <<state, fireVars, shutterVars, launches>>

\* The channel is empty: store and publish the level read now, and wait again.
PublishArmedChange ==
  /\ stateTask = "running"
  /\ MayRun("state")
  /\ channel = <<>>
  /\ edge
  /\ edge' = FALSE
  /\ StoreLevel
  /\ edgeMissed' = FALSE
  /\ cpu' = "state"
  /\ UNCHANGED <<pin, channel, state, stateTask, lightVars, fireVars, shutterVars,
                 failures, firesSent, launches>>

\* Nothing is ready: the task suspends and the edge interrupt is enabled.
StateSuspend ==
  /\ cpu = "state"
  /\ channel = <<>>
  /\ cpu' = "idle"
  /\ UNCHANGED <<armedVars, channel, state, stateTask, lightVars, fireVars,
                 shutterVars, failures, firesSent, launches>>

(***************************************************************************)
(* fire_sequencer_task.                                                    *)
(***************************************************************************)

\* FireTrigger::new releases the trigger and ends the task if it cannot.
FireBoot ==
  /\ fireTask = "boot"
  /\ MayRun("fire")
  /\ \/ Fail(1) /\ fireTask' = "stopped" /\ UNCHANGED <<trigger, cpu>>
     \/ /\ Fail(0)
        /\ fireTask' = "waiting"
        /\ ReleaseTrigger
        /\ cpu' = IF fireActivate THEN "fire" ELSE "idle"
  /\ UNCHANGED <<armedVars, channel, state, stateTask, lightVars, fireActivate,
                 fireCancel, timerExpired, ignitions, ignited, lateStart,
                 leftover, shutterVars, firesSent, launches>>

\* FIRE_ACTIVATE.wait() returns, FIRE_CANCEL.reset() forgets an old cancel, and
\* the task suspends on the timer and the cancel.
StartCountdown ==
  /\ fireTask = "waiting"
  /\ MayRun("fire")
  /\ fireActivate
  /\ TakeActivate
  /\ ResetCancel
  /\ fireTask' = "counting"
  /\ timerExpired' = FALSE
  /\ lateStart' = (state # "FIRE")
  /\ cpu' = "idle"
  /\ UNCHANGED <<armedVars, channel, state, stateTask, lightVars, trigger,
                 ignitions, ignited, leftover, shutterVars, failures,
                 firesSent, launches>>

\* The loop goes on within the poll when FIRE_ACTIVATE is signalled already.
EndCountdown ==
  /\ fireTask' = "waiting"
  /\ cpu' = IF fireActivate THEN "fire" ELSE "idle"

\* select polls the timer first, so a due timer beats a pending cancel.  While
\* FIRE_ACTIVATE is signalled, the countdown that ends is not that of the last FIRE.
Ignite ==
  /\ fireTask = "counting"
  /\ MayRun("fire")
  /\ timerExpired
  /\ DriveTrigger(TRUE)
  /\ channel' = Offer(channel, "BUZZER_COMPLETE")
  /\ EndCountdown
  /\ ignitions' = ignitions + 1
  /\ ignited' = (ignited \/ ~fireActivate)
  /\ UNCHANGED <<armedVars, state, stateTask, lightVars, fireActivate, fireCancel,
                 timerExpired, lateStart, leftover, shutterVars,
                 firesSent, launches>>

Abort ==
  /\ fireTask = "counting"
  /\ MayRun("fire")
  /\ ~timerExpired
  /\ fireCancel
  /\ fireCancel' = FALSE
  /\ DriveTrigger(FALSE)
  /\ EndCountdown
  /\ UNCHANGED <<armedVars, channel, state, stateTask, lightVars, fireActivate,
                 timerExpired, ignitions, ignited, lateStart, leftover,
                 shutterVars, firesSent, launches>>

(***************************************************************************)
(* camera_shutter_task: 200 ms pressed, then 200 ms released.              *)
(***************************************************************************)
PressShutter ==
  /\ shutterTask = "waiting"
  /\ cpu = "idle"
  /\ shutterChannel > 0
  /\ TakeShutter
  /\ shutterTask' = "pressed"
  /\ UNCHANGED <<armedVars, channel, state, stateTask, lightVars, fireVars,
                 cpu, failures, firesSent, launches>>

\* A sleep of the shutter task ends.
ShutterTimer ==
  /\ shutterTask # "waiting"
  /\ cpu = "idle"
  /\ shutterTask' = IF shutterTask = "pressed" THEN "released" ELSE "waiting"
  /\ UNCHANGED <<armedVars, channel, state, stateTask, lightVars, fireVars,
                 shutterChannel, cpu, failures, firesSent, launches>>

(***************************************************************************)
(* The specification.                                                      *)
(***************************************************************************)
Environment ==
  \/ FlipSwitch
  \/ \E cmd \in Commands : SendStateCommand(cmd)
  \/ TimerExpires

StateTask ==
  \/ StateBoot
  \/ Reject
  \/ AcceptFire
  \/ AcceptFireEnd
  \/ AcceptFireReset
  \/ BuzzerComplete
  \/ PublishArmedChange
  \/ StateSuspend

FireTask == FireBoot \/ StartCountdown \/ Ignite \/ Abort

ShutterTask == PressShutter \/ ShutterTimer

Next == Environment \/ StateTask \/ FireTask \/ ShutterTask

(***************************************************************************)
(* The executor polls every woken task once before it polls any of them    *)
(* again, so a task that keeps being woken does run: strong fairness, for  *)
(* a task is disabled while another one's poll is in progress.  The timer  *)
(* comes due.  Nothing is assumed of the operator or the MQTT task.        *)
(***************************************************************************)
Fairness ==
  /\ SF_vars(StateTask)
  /\ SF_vars(FireTask)
  /\ SF_vars(ShutterTask)
  /\ WF_vars(TimerExpires)

Spec == Init /\ [][Next]_vars /\ Fairness

(***************************************************************************)
(* Properties.                                                             *)
(***************************************************************************)

\* Every variable keeps to its type and no channel outgrows its capacity.
TypeOK ==
  /\ pin \in BOOLEAN
  /\ edge \in BOOLEAN
  /\ lastArmed \in BOOLEAN
  /\ edgeMissed \in BOOLEAN
  /\ channel \in Seq(Messages)
  /\ Len(channel) <= ChannelCapacity
  /\ state \in States
  /\ stateTask \in {"boot", "running", "stopped"}
  /\ light \in SUBSET Lamps
  /\ unlit \in BOOLEAN
  /\ fireActivate \in BOOLEAN
  /\ fireCancel \in BOOLEAN
  /\ fireTask \in {"boot", "waiting", "counting", "stopped"}
  /\ timerExpired \in BOOLEAN
  /\ trigger \in BOOLEAN
  /\ shutterChannel \in 0..ShutterCapacity
  /\ shutterTask \in {"waiting", "pressed", "released"}
  /\ cpu \in Tasks \cup {"idle"}
  /\ failures \in 0..MaxFailures
  /\ firesSent \in 0..MaxFires
  /\ launches \in Nat
  /\ ignitions \in Nat
  /\ ignited \in BOOLEAN
  /\ lateStart \in BOOLEAN
  /\ leftover \in BOOLEAN

One(b) == IF b THEN 1 ELSE 0

\* An accepted FIRE drives the trigger at most once: the calls of trigger() and
\* the launches still under way (a signalled FIRE_ACTIVATE, a countdown) never
\* exceed the accepted FIRE commands, however the two tasks interleave.
OneIgnitionPerFire ==
  ignitions + One(fireActivate) + One(fireTask = "counting") <= launches

\* In the FIRE state the launch is requested, counting or done: no leftover
\* cancel of an earlier launch ever aborts the one the operator asked for.
FireNotLost ==
  state = "FIRE" => fireActivate \/ fireTask = "counting" \/ ignited

\* A countdown begun in FIRE that finds the sequencer elsewhere has a cancel
\* pending: a FIRE_END handled during the countdown is never forgotten.  (One
\* handled before the fire task is polled is: see lateStart.)
CancelNotLost ==
  fireTask = "counting" /\ state # "FIRE" /\ ~lateStart => fireCancel

\* The tower shows the state the sequencer is in, unless its lamps could not be lit:
\* a BUZZER_COMPLETE that arrives late never changes the light of POSTFIRE or ARMED.
\* (It may silence the next FIRE: see BuzzerLastsItsTime.)
LightMatchesState ==
  stateTask = "running" /\ ~unlit =>
    \/ light = LitWhen(state)
    \/ state = "FIRE" /\ light = {"red"}

\* LAST_ARMED_VALUE, which every connect republishes, is the level of the switch
\* unless an edge is waiting to be served or was missed: dropped by a select that
\* found a message, or raised while the task was not waiting.
ArmedValueFresh == ~edge /\ ~edgeMissed => lastArmed = pin

\* Once the fire task is up, a driven trigger stems from an accepted FIRE of this
\* boot, never from what the expander kept across a restart.
TriggerNeedsLaunch ==
  fireTask \in {"waiting", "counting"} /\ trigger => ignitions > 0

\* The invariant behind both: a cancel that a countdown may still take up in FIRE
\* comes with a renewed request.
CancelIsAskedFor ==
  fireTask = "counting" /\ fireCancel => state # "FIRE" \/ fireActivate

\* The sequencer leaves ARMED only once its task is up.
ArmedUntilRunning == stateTask # "running" => state = "ARMED"

LaunchInv ==
  /\ OneIgnitionPerFire
  /\ FireNotLost
  /\ CancelIsAskedFor
  /\ CancelNotLost
  /\ TriggerNeedsLaunch
  /\ ArmedUntilRunning

\* A launch is given up only if the sequencer left FIRE or was fired anew: the
\* abort of a countdown never leaves the FIRE state without a launch.
AbortIsAskedFor ==
  [][fireTask = "counting" /\ fireTask' = "waiting" /\ ignitions' = ignitions
       => state # "FIRE" \/ fireActivate]_vars

\* An accepted FIRE that is not ended leads to its own call of trigger(), unless the
\* fire task could not start.
FireLeadsToIgnition ==
  (state = "FIRE") ~> (ignited \/ state # "FIRE" \/ fireTask = "stopped")

\* The camera's shutter button is always released again and every queued press
\* is carried out.
ShutterSettles == []<>(shutterChannel = 0 /\ shutterTask = "waiting")

\* The light table of the design: "buzzer + red (3s), then red only".  It does not
\* hold: BUZZER_COMPLETE is dropped when SEQUENCER_CHANNEL is full.
BuzzerFallsSilent == ("buzzer" \in light) ~> ("buzzer" \notin light)

\* The same line read from the other end: in FIRE the buzzer falls silent only when
\* the countdown of this very launch is over.  It does not hold, not even when no
\* countdown began late: the BUZZER_COMPLETE of an earlier launch may wait behind
\* FIRE_END, FIRE_RESET and the next FIRE, and is then taken for this launch's.
BuzzerLastsItsTime ==
  [][state = "FIRE" /\ state' = "FIRE" /\ "buzzer" \in light /\ "buzzer" \notin light'
       => ignited \/ lateStart]_vars

\* What BuzzerLastsItsTime lacks: in a launch that nothing was left over for, who
\* announces the end of the countdown is the countdown of that launch.
AnnouncedInTime ==
  state = "FIRE" /\ ~leftover =>
    /\ fireTask = "counting" => ~fireActivate
    /\ Announced(channel) => ignited

\* The lamps, but for those that could not be lit, and for those in FIRE of a launch
\* that an earlier one may silence.
PunctualLight ==
  IF unlit \/ (state = "FIRE" /\ leftover) THEN LitWhen(state) ELSE light

Design == INSTANCE SequencerDesign WITH light <- PunctualLight, over <- ignited

\* The tasks, channels and signals together implement the state machine and light
\* table of the design, whatever transfers fail: every step is one of its steps or
\* leaves what it shows alone.  The buzzer of a launch falls silent after the
\* launch's own countdown and not before, unless that of an earlier launch, or its
\* BUZZER_COMPLETE, was left over when FIRE was accepted (BuzzerLastsItsTime).
ImplementsDesign == Design!Spec
=============================================================================
