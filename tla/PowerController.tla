--------------------------- MODULE PowerController ---------------------------
(***************************************************************************)
(* The power supply of the board: power_controller_task (tasks/power.rs)   *)
(* with the PowerController it owns (power/controller.rs), the callers of  *)
(* its RequestResponseChannel (main, ext_interrupt_task, an application    *)
(* task) and the chips on the I2C bus: the BQ24296 charger and the PCF8574 *)
(* expander, whose open-drain INT line ext_interrupt_task waits on.        *)
(*                                                                         *)
(* cpu names the task whose poll is in progress: tasks are cooperative, so *)
(* only VBUS and timers move while a poll is.                              *)
(***************************************************************************)
EXTENDS Naturals, Sequences

CONSTANTS
  ChannelCapacity,  \* POWER_CONTROL, 16 in the code
  AppRequests,      \* requests the application task makes
  MaxAppCalls,      \* bound on its calls
  MaxFailures       \* bound on failing I2C transfers

PowerRequests == {"boost_on", "boost_off", "check", "shipping", "passive"}

ASSUME PowerAssumption ==
  /\ ChannelCapacity \in Nat \ {0}
  /\ AppRequests \subseteq PowerRequests \ {"check", "shipping"}
  /\ MaxAppCalls \in Nat
  /\ MaxFailures \in Nat

VARIABLES         \* the chips and lines
  vbus,           \* a supply is present on VBUS
  held,           \* the expander drives P6 (vbus_present, active low) low itself
  seen,           \* VBUS as the expander's inputs showed it at the last access
  pins,           \* the mode whose CHR_EN and VBUS_ENABLE the expander drives
  charger,        \* the mode whose charge and OTG bits the charger holds
  batfet,         \* the charger connects the battery
  boost,          \* the boost converter pin is high
  edge            \* a falling edge of INT was latched for wait_for_falling_edge

VARIABLES         \* the tasks
  task,           \* where power_controller_task is
  initialised,    \* initial_mode_set
  mode,           \* PowerController::mode
  reading,        \* vbus_present in the stats last read
  target,         \* the mode switch_mode is entering
  published,      \* boost_enabled in the last POWER_STATE, as a set
  main,           \* where the main task is
  interrupt,      \* whether ext_interrupt_task runs
  cpu             \* the task whose poll is in progress

VARIABLES mutex, requests, serving, responses, phase, asked, got  \* POWER_CONTROL

VARIABLES         \* bounds and history, read by no task
  failures,       \* failing transfers so far
  appCalls,       \* calls of the application task so far
  edgeMissed,     \* INT fell while nobody waited for it, since the last check
  commanded,      \* a caller put the board into the passive or shipping mode
  torn,           \* the last switch_mode stopped between expander and charger
  boostBy         \* whose request set the boost converter last, as a set

PowerClients == {"main", "int", "app"}

Calls == INSTANCE RequestResponse WITH
           Clients <- PowerClients, Requests <- PowerRequests,
           Capacity <- ChannelCapacity

callVars  == <<mutex, requests, serving, responses, phase, asked, got>>
lineVars  == <<vbus, held, seen, edge, edgeMissed>>
chipVars  == <<pins, charger, batfet, boost>>
taskVars  == <<task, initialised, mode, reading, target, published, commanded, torn,
              boostBy>>
otherVars == <<main, interrupt, appCalls>>
vars == <<callVars, lineVars, chipVars, taskVars, otherVars, cpu, failures>>

Modes == {"Passive", "Charging", "Otg"}
Tasks == {"power", "main", "int", "app"}

(***************************************************************************)
(* Helpers.                                                                *)
(***************************************************************************)

\* What P6 shows, and INT, which is low while P6 differs from the last access.
Level  == vbus \/ held
IntLow == Level # seen

\* wait_for_falling_edge is pending.
Listening == interrupt = "up" /\ phase["int"] = "idle" /\ cpu # "int"

\* INT falls, if it does: the edge is latched for the task that waits, or missed.
Fall(falls) ==
  /\ edge' = (edge \/ (falls /\ Listening))
  /\ edgeMissed' = (edgeMissed \/ (falls /\ ~Listening))

MayRun(t) == cpu \in {"idle", t} /\ main # "asleep"

Fail == failures < MaxFailures /\ failures' = failures + 1

\* The mode called for by handle_power_controller_interrupt, if it is another.
\* Deliberate bugs stand before the definition they stand in for.
CalledForPlugOnly(present) == IF present THEN {"Charging"} \ {mode} ELSE {}
CalledFor(present) ==
  IF mode = "Otg"
    THEN IF present THEN {"Charging"} ELSE {}
    ELSE IF present THEN {} ELSE {"Otg"}

InitialMode(present) == IF present THEN "Charging" ELSE "Otg"

\* expander.get: it writes ones to the input pins, which ends an access and frees
\* P6, then reads the port, which ends another.
Get ==
  /\ Fall(held /\ ~vbus)
  /\ held' = FALSE
  /\ seen' = vbus
  /\ reading' = vbus
  /\ UNCHANGED vbus

\* expander.set of the byte read, P6 included, with new outputs.
Set(next) ==
  /\ pins' = next
  /\ Fall(Level # (vbus \/ reading))
  /\ seen' = Level
  /\ held' = reading
  /\ UNCHANGED vbus

\* Where switch_mode returns to.
AfterSwitch ==
  IF serving = <<>> THEN "select"
  ELSE IF Head(serving).body = "shipping" THEN "ship" ELSE "respond"

AlwaysRetry == "retry"
PressOn == "regs"
AfterFailedSwitch == IF serving = <<>> THEN "retry" ELSE "respond"

\* The first switch_mode counts only when it succeeded.
InitialisedAtOnce(done) == TRUE
InitialisedAfter(done) == IF done THEN TRUE ELSE initialised

\* switch_mode remembers the new mode only when both chips took it.
ModeAtOnce(done) == target
ModeAfter(done) == IF done THEN target ELSE mode

\* enter_shipping_mode goes by the charging mode.
ShippingAsIs == mode
ShippingMode == "Charging"

\* After an answer the loop starts over.
AfterResponse == "top"

\* The poll goes on at the select while a request is there, and otherwise ends.
AtSelect == cpu' = IF requests # <<>> THEN "power" ELSE "idle"

(***************************************************************************)
(* A restart of the CPU alone: the chips keep what they were told.         *)
(***************************************************************************)
Init ==
  /\ Calls!CallInit
  /\ vbus \in BOOLEAN /\ held \in BOOLEAN /\ seen \in BOOLEAN
  /\ pins \in Modes
  /\ charger \in Modes
  /\ batfet = TRUE
  /\ boost = FALSE
  /\ edge = FALSE
  /\ task = "boot"
  /\ initialised = FALSE
  /\ mode = "Passive"
  /\ reading = FALSE
  /\ target = "Passive"
  /\ published = {}
  /\ main = "start"
  /\ interrupt = "off"
  /\ cpu = "idle"
  /\ failures = 0
  /\ appCalls = 0
  /\ edgeMissed = FALSE
  /\ commanded = FALSE
  /\ torn = FALSE
  /\ boostBy = {}

(***************************************************************************)
(* The surroundings.                                                       *)
(***************************************************************************)

\* A supply is plugged in or pulled; while the expander holds P6 low INT is blind.
FlipVbus ==
  /\ main # "asleep"
  /\ vbus' = ~vbus
  /\ Fall(~IntLow /\ (vbus' \/ held) # seen)
  /\ UNCHANGED <<held, seen, callVars, chipVars, taskVars, otherVars, cpu, failures>>

\* Another source pulls the shared line: a charger event, an RTC alarm.
OtherInterrupt ==
  /\ main # "asleep"
  /\ ~IntLow
  /\ Listening
  /\ edge' = TRUE
  /\ UNCHANGED <<vbus, held, seen, edgeMissed, callVars, chipVars, taskVars,
                 otherVars, cpu, failures>>

(***************************************************************************)
(* power_controller_task.                                                  *)
(***************************************************************************)

\* PowerController::new: all pins high, then the charger's configuration; the
\* task ends if either transfer fails.
Boot ==
  /\ task = "boot"
  /\ MayRun("power")
  /\ boost' = FALSE
  /\ \/ /\ Fail
        /\ task' = "stopped"
        /\ cpu' = "idle"
        /\ UNCHANGED <<lineVars, pins, batfet>>
     \/ /\ Fail
        /\ task' = "stopped"
        /\ cpu' = "idle"
        /\ pins' = "Passive"
        /\ held' = FALSE
        /\ seen' = Level
        /\ UNCHANGED <<vbus, edge, edgeMissed, batfet>>
     \/ /\ task' = "top"
        /\ cpu' = "power"
        /\ pins' = "Passive"
        /\ held' = FALSE
        /\ seen' = Level
        /\ batfet' = TRUE
        /\ UNCHANGED <<vbus, edge, edgeMissed, failures>>
  /\ UNCHANGED <<callVars, charger, initialised, mode, reading, target,
                 published, commanded, torn, boostBy, otherVars>>

\* The top of the loop: read_stats, and POWER_STATE published.
ReadStats ==
  /\ task = "top"
  /\ cpu = "power"
  /\ Get
  /\ published' = {boost}
  /\ IF initialised
       THEN task' = "select" /\ AtSelect /\ UNCHANGED target
       ELSE task' = "pins" /\ target' = InitialMode(vbus) /\ UNCHANGED cpu
  /\ UNCHANGED <<callVars, chipVars, initialised, mode, commanded, torn, boostBy,
                 otherVars, failures>>

\* Either half of read_stats fails, the expander's perhaps after its write.
ReadStatsFails ==
  /\ task = "top"
  /\ cpu = "power"
  /\ Fail
  /\ \/ UNCHANGED lineVars
     \/ Fall(held /\ ~vbus) /\ held' = FALSE /\ seen' = Level /\ UNCHANGED vbus
  /\ task' = "retry"
  /\ cpu' = "idle"
  /\ UNCHANGED <<callVars, chipVars, initialised, mode, reading, target,
                 published, commanded, torn, boostBy, otherVars>>

\* The 50 ms after a failure, or the timeout of the select and the watchdog reset
\* that follows it.
PowerTimer ==
  /\ task \in {"retry", "select"}
  /\ MayRun("power")
  /\ cpu = "idle"
  /\ task' = "top"
  /\ cpu' = "power"
  /\ UNCHANGED <<callVars, lineVars, chipVars, initialised, mode, reading,
                 target, published, commanded, torn, boostBy, otherVars, failures>>

Receive ==
  /\ task = "select"
  /\ MayRun("power")
  /\ Calls!RecvRequest
  /\ task' = "handle"
  /\ cpu' = "power"
  /\ UNCHANGED <<lineVars, chipVars, initialised, mode, reading, target,
                 published, commanded, torn, boostBy, otherVars, failures>>

Handle(req) ==
  /\ task = "handle"
  /\ cpu = "power"
  /\ Head(serving).body = req
  /\ boostBy' = IF req \in {"boost_on", "boost_off"} THEN {Head(serving).from} ELSE boostBy
  /\ UNCHANGED <<callVars, pins, charger, batfet, initialised, mode, published,
                 torn, otherVars, cpu>>

SetBoost(level) ==
  /\ Handle(IF level THEN "boost_on" ELSE "boost_off")
  /\ boost' = level
  /\ task' = "respond"
  /\ UNCHANGED <<lineVars, reading, target, commanded, failures>>

\* handle_power_controller_interrupt: enter OTG without VBUS, leave it with VBUS.
CheckInterrupt ==
  /\ Handle("check")
  /\ edge' = (edge \/ (held /\ ~vbus /\ Listening))
  /\ edgeMissed' = FALSE
  /\ held' = FALSE
  /\ seen' = vbus
  /\ reading' = vbus
  /\ IF CalledFor(vbus) = {}
       THEN task' = "respond" /\ UNCHANGED target
       ELSE task' = "pins" /\ target' \in CalledFor(vbus)
  /\ UNCHANGED <<vbus, boost, commanded, failures>>

\* enter_shipping_mode and enter_passive_mode, first half: the stats.
EnterMode(req, next) ==
  /\ Handle(req)
  /\ Get
  /\ target' = next
  /\ task' = "pins"
  /\ commanded' = TRUE
  /\ UNCHANGED <<boost, failures>>

\* read_stats fails for a request that needs it: it is answered with the error.
HandleFails ==
  /\ \E req \in {"check", "shipping", "passive"} : Handle(req)
  /\ Fail
  /\ \/ UNCHANGED lineVars
     \/ Fall(held /\ ~vbus) /\ held' = FALSE /\ seen' = Level /\ UNCHANGED vbus
  /\ task' = "respond"
  /\ UNCHANGED <<boost, reading, target, commanded>>

\* switch_mode: first the expander.
SwitchPins ==
  /\ task = "pins"
  /\ cpu = "power"
  /\ \/ Set(target) /\ task' = "regs" /\ UNCHANGED <<cpu, failures>>
     \/ /\ Fail
        /\ task' = AfterFailedSwitch
        /\ cpu' = IF serving = <<>> THEN "idle" ELSE "power"
        /\ UNCHANGED <<pins, lineVars>>
  /\ mode' = ModeAfter(FALSE)
  /\ initialised' = InitialisedAfter(FALSE)
  /\ UNCHANGED <<callVars, charger, batfet, boost, reading, target,
                 published, commanded, torn, boostBy, otherVars>>

\* Then the charger, and only then the mode is taken to be the new one.
SwitchRegs ==
  /\ task = "regs"
  /\ cpu = "power"
  /\ \/ /\ charger' = target
        /\ mode' = ModeAfter(TRUE)
        /\ torn' = FALSE
        /\ initialised' = InitialisedAfter(TRUE)
        /\ task' = AfterSwitch
        /\ IF serving = <<>> THEN AtSelect ELSE UNCHANGED cpu
        /\ UNCHANGED failures
     \/ /\ Fail
        /\ torn' = TRUE
        /\ task' = AfterFailedSwitch
        /\ cpu' = IF serving = <<>> THEN "idle" ELSE "power"
        /\ mode' = ModeAfter(FALSE)
        /\ initialised' = InitialisedAfter(FALSE)
        /\ UNCHANGED charger
  /\ UNCHANGED <<callVars, lineVars, pins, batfet, boost, reading, target,
                 published, commanded, boostBy, otherVars>>

\* enter_shipping_mode: watchdog off and the battery disconnected.
Ship ==
  /\ task = "ship"
  /\ cpu = "power"
  /\ \/ batfet' = FALSE /\ UNCHANGED failures
     \/ Fail /\ UNCHANGED batfet
  /\ task' = "respond"
  /\ UNCHANGED <<callVars, lineVars, pins, charger, boost, initialised, mode,
                 reading, target, published, commanded, torn, boostBy, otherVars, cpu>>

\* The answer, the watchdog reset and the loop again, in the same poll.
Respond ==
  /\ task = "respond"
  /\ cpu = "power"
  /\ Calls!SendResponse
  /\ task' = AfterResponse
  /\ UNCHANGED <<lineVars, chipVars, initialised, mode, reading, target,
                 published, commanded, torn, boostBy, otherVars, cpu, failures>>

PowerTask ==
  \/ Boot
  \/ ReadStats
  \/ ReadStatsFails
  \/ PowerTimer
  \/ Receive
  \/ \E level \in BOOLEAN : SetBoost(level)
  \/ CheckInterrupt
  \/ EnterMode("shipping", ShippingMode)
  \/ EnterMode("passive", "Passive")
  \/ HandleFails
  \/ SwitchPins
  \/ SwitchRegs
  \/ Ship
  \/ Respond

(***************************************************************************)
(* The callers.  A poll of theirs ends when the mutex is taken or when the *)
(* request is sent.                                                        *)
(***************************************************************************)
ClientFrame == UNCHANGED <<chipVars, taskVars, failures>>

\* transact's lock and send, within the client's poll.
LockAndSend(c) ==
  /\ MayRun(c)
  /\ \/ Calls!Lock(c) /\ cpu' = c
     \/ Calls!SendRequest(c) /\ cpu' = "idle"
  /\ UNCHANGED <<lineVars, otherVars>>
  /\ ClientFrame

\* The mutex is taken: the poll ends.
WaitForMutex(c) ==
  /\ cpu = c
  /\ phase[c] = "locking"
  /\ mutex # {}
  /\ cpu' = "idle"
  /\ UNCHANGED <<callVars, lineVars, otherVars>>
  /\ ClientFrame

MainCalls(at, req, next) ==
  /\ main = at
  /\ MayRun("main")
  /\ Calls!Call("main", req)
  /\ main' = next
  /\ cpu' = "main"
  /\ UNCHANGED <<lineVars, interrupt, appCalls>>
  /\ ClientFrame

\* The answer is logged, never acted on.
MainReturns(at, next) ==
  /\ main = at
  /\ MayRun("main")
  /\ Calls!RecvResponse("main")
  /\ main' = next
  /\ UNCHANGED <<lineVars, appCalls>>
  /\ ClientFrame

MainBoots == MainCalls("start", "boost_on", "boost_on")

\* ext_interrupt_task is spawned and the boot goes on.
MainRuns ==
  MainReturns("boost_on", "running") /\ interrupt' = "starting" /\ cpu' = "idle"

\* SHUTDOWN_SIGNAL wakes the main task.
Shutdown == MainCalls("running", "boost_off", "boost_off")

\* www_test awaits other things before the next call, the other programs make it
\* in the same poll.
BoostIsOff ==
  MainReturns("boost_off", "ship") /\ cpu' \in {"main", "idle"} /\ UNCHANGED interrupt

ShipBoard == MainCalls("ship", "shipping", "shipping")

\* rtc.sleep_deep in the poll that got the answer.
Sleep == MainReturns("shipping", "asleep") /\ cpu' = "idle" /\ UNCHANGED interrupt

\* The first poll of ext_interrupt_task.
IntStarts ==
  /\ interrupt = "starting"
  /\ MayRun("int")
  /\ interrupt' = "up"
  /\ cpu' = "idle"
  /\ UNCHANGED <<callVars, lineVars, main, appCalls>>
  /\ ClientFrame

IntCalls ==
  /\ interrupt = "up"
  /\ MayRun("int")
  /\ edge
  /\ Calls!Call("int", "check")
  /\ edge' = FALSE
  /\ cpu' = "int"
  /\ UNCHANGED <<vbus, held, seen, edgeMissed, otherVars>>
  /\ ClientFrame

\* The answer, and wait_for_falling_edge anew.
IntListens ==
  /\ MayRun("int")
  /\ Calls!RecvResponse("int")
  /\ cpu' = "idle"
  /\ UNCHANGED <<lineVars, otherVars>>
  /\ ClientFrame

AppCalls ==
  /\ MayRun("app")
  /\ main # "start"
  /\ appCalls < MaxAppCalls
  /\ appCalls' = appCalls + 1
  /\ \E req \in AppRequests : Calls!Call("app", req)
  /\ cpu' = "app"
  /\ UNCHANGED <<lineVars, main, interrupt>>
  /\ ClientFrame

AppReturns ==
  /\ MayRun("app")
  /\ Calls!RecvResponse("app")
  /\ cpu' = "idle"
  /\ UNCHANGED <<lineVars, otherVars>>
  /\ ClientFrame

TransactStep(c) == LockAndSend(c) \/ WaitForMutex(c)

MainTask ==
  MainBoots \/ MainRuns \/ BoostIsOff \/ ShipBoard \/ Sleep \/ TransactStep("main")
IntTask  == IntStarts \/ IntCalls \/ IntListens \/ TransactStep("int")
AppTask  == AppReturns \/ TransactStep("app")

Asleep == main = "asleep" /\ UNCHANGED vars

Next ==
  \/ FlipVbus
  \/ OtherInterrupt
  \/ PowerTask
  \/ MainTask
  \/ Shutdown
  \/ IntTask
  \/ AppTask
  \/ AppCalls
  \/ Asleep

(***************************************************************************)
(* Every task that was woken is polled, though not while another one's     *)
(* poll is in progress; the releases of the mutex wake those that wait for *)
(* it, and no caller calls back to back for ever.  Nobody has to pull      *)
(* VBUS, ask for the shutdown or call from the application.                *)
(***************************************************************************)
Fairness ==
  /\ SF_vars(PowerTask)
  /\ SF_vars(MainTask)
  /\ SF_vars(IntTask)
  /\ SF_vars(AppTask)

Spec == Init /\ [][Next]_vars /\ Fairness

(***************************************************************************)
(* Properties.                                                             *)
(***************************************************************************)

\* Every variable keeps to its type.
TypeOK ==
  /\ Calls!TypeOK
  /\ {vbus, held, seen, batfet, boost, edge, initialised, reading} \subseteq BOOLEAN
  /\ {pins, charger, mode, target} \subseteq Modes
  /\ task \in {"boot", "top", "select", "retry", "handle", "pins", "regs",
               "ship", "respond", "stopped"}
  /\ published \in SUBSET BOOLEAN
  /\ main \in {"start", "boost_on", "running", "boost_off", "ship", "shipping",
               "asleep"}
  /\ interrupt \in {"off", "starting", "up"}
  /\ cpu \in Tasks \cup {"idle"}
  /\ failures \in 0..MaxFailures
  /\ appCalls \in 0..MaxAppCalls
  /\ {edgeMissed, commanded, torn} \subseteq BOOLEAN
  /\ boostBy \in SUBSET PowerClients

\* The charger is told to source VBUS only when the expander has opened the VBUS
\* switch before: no failing transfer and no order of requests makes the board
\* feed its own supply.
OtgNeedsIsolation == [][charger # "Otg" /\ charger' = "Otg" => pins = "Otg"]_vars

Design == INSTANCE PowerDesign WITH
            supply <- vbus, noticed <- reading, switch <- pins, battery <- batfet,
            up <- task \notin {"boot", "stopped"}

\* Task, callers and channel together do to the chips only what the design allows,
\* whatever transfer fails between the two halves of a change of mode: the charger
\* never takes up a mode that the expander was not set for, OTG is chosen only when
\* no supply was seen, and after the battery is disconnected no request that was
\* queued or is made moves a chip again.
ImplementsPowerDesign == Design!Spec

\* Whenever the task waits for requests, the expander, the charger and the mode it
\* remembers agree, unless its last switch_mode was torn by a failing transfer.
HardwareFollowsMode ==
  task = "select" /\ ~torn => pins = mode /\ charger = mode

Quiet ==
  /\ task = "select"
  /\ requests = <<>>
  /\ interrupt = "up"
  /\ phase["int"] = "idle"
  /\ ~edge

\* With everybody waiting, the board sources VBUS exactly when nobody supplies it,
\* but for a missed edge, a P6 the expander holds, a failure or a commanded mode.
ModeFollowsVbus ==
  Quiet /\ ~edgeMissed /\ ~held /\ ~commanded /\ failures = 0
  => (mode = "Otg" <=> ~vbus)

\* The board falls asleep in charging mode with the battery disconnected, and with
\* the boost converter off unless the application's request was the last to set it;
\* requests queued before or made between the last two calls change nothing of that.
AsleepSafely ==
  main = "asleep" /\ failures = 0 =>
    /\ mode = "Charging" /\ pins = "Charging" /\ charger = "Charging"
    /\ ~batfet
    /\ boost => boostBy = {"app"}

\* What POWER_STATE says of the boost converter is true whenever the task waits.
StatsAreFresh == task = "select" => published = {boost}

\* The invariant behind these: where in switch_mode the expander, the charger and
\* the mode may differ, and from where the task can come to the select.
SwitchInv ==
  /\ task = "boot" => ~initialised
  /\ task = "regs" => pins = target
  /\ initialised /\ ~torn => charger = mode
  /\ initialised /\ ~torn /\ task # "regs" => pins = mode
  /\ task \in {"select", "handle", "ship", "respond"} => initialised
  /\ serving # <<>> => initialised
  /\ task = "handle" => serving # <<>>
  /\ task = "select" => published = {boost}
  /\ task \in {"pins", "regs"} /\ serving = <<>> => published = {boost}

\* Where main is tells what it asked for last, and in deep sleep nothing runs.
MainInv ==
  /\ main \in {"start", "running", "ship", "asleep"} => phase["main"] = "idle"
  /\ main \in {"boost_on", "boost_off", "shipping"} => asked["main"] = {main}
  /\ asked["int"] \subseteq {"check"}
  /\ asked["app"] \subseteq AppRequests
  /\ main = "asleep" => cpu = "idle"

\* What the last two calls of main have done so far, and that nothing undoes it: no
\* request is taken while an answer is on its way.
AppBoost == boost => boostBy = {"app"}

InCharging == mode = "Charging" /\ pins = "Charging" /\ charger = "Charging"

Carries(queue, req) == queue # <<>> /\ Head(queue).body = req

BoostInv ==
  /\ main \in {"ship", "shipping", "asleep"} => AppBoost
  /\ task \in {"pins", "regs", "ship"} => ~Carries(serving, "boost_off")
  /\ task = "respond" /\ Carries(serving, "boost_off") => AppBoost
  /\ Carries(responses, "boost_off") => AppBoost

ShipInv ==
  /\ task \in {"pins", "regs"} /\ Carries(serving, "shipping") => target = "Charging"
  /\ task \in {"ship", "respond"} /\ Carries(serving, "shipping") => InCharging
  /\ task = "respond" /\ Carries(serving, "shipping") => ~batfet
  /\ Carries(responses, "shipping") => InCharging /\ ~batfet
  /\ main = "asleep" => InCharging /\ ~batfet

SleepInv ==
  /\ task \in {"boot", "top", "select", "retry", "stopped"} => serving = <<>>
  /\ task \in {"ship", "respond"} => serving # <<>>
  /\ responses # <<>> => initialised /\ task \in {"top", "select", "retry"}
  /\ BoostInv
  /\ failures = 0 => ShipInv

\* The remembered mode is in step with what the expander last showed, and INT is
\* high, from the moment when a check has looked at the mode (or the first switch_mode
\* is done) until the next edge; while the task switches, P6 stays as it was read, for
\* nobody listens and an edge would be missed.
Faithful == ~edgeMissed /\ ~commanded /\ failures = 0

Checked ==
  \/ task # "handle" /\ serving # <<>> /\ Head(serving).from = "int"
  \/ responses # <<>> /\ Head(responses).from = "int"

Settled == ~edge /\ (phase["int"] = "idle" \/ Checked)
InStep == seen = Level /\ (mode = "Otg" <=> ~seen)
Switching == task \in {"pins", "regs"}
OnItsWay == seen = reading /\ (target = "Otg" <=> ~reading)

VbusInv ==
  /\ ~initialised => interrupt = "off"
  /\ Switching /\ serving = <<>> => ~initialised
  /\ Switching /\ ~commanded /\ serving # <<>> => Head(serving).from = "int"
  /\ Faithful =>
       /\ initialised /\ Settled /\ ~Switching => InStep
       /\ task = "pins" => OnItsWay /\ ~held /\ vbus = reading
       /\ task = "regs" => OnItsWay /\ held = reading /\ (vbus => reading)

\* What the design needs beyond these, whatever fails: a change of mode goes by the
\* reading before it, and once the battery is disconnected main is on its way to deep
\* sleep and only the loop's read_stats is left to do.
OnlyMainIsLeft ==
  \/ task = "respond" /\ Carries(serving, "shipping")
  \/ /\ task \in {"top", "retry", "select"}
     /\ Carries(responses, "shipping") \/ main = "asleep"

DesignInv ==
  /\ Switching /\ target = "Otg" => ~reading
  /\ Switching /\ Carries(serving, "shipping") => target = "Charging"
  /\ task = "ship" => Carries(serving, "shipping") /\ InCharging
  /\ ~batfet => InCharging /\ OnlyMainIsLeft

\* Every call returns, whoever else is calling and whatever transfer fails, unless
\* the power task ended at boot or the board fell asleep.
CallsReturn ==
  \A c \in PowerClients :
    phase[c] # "idle" ~> (phase[c] = "idle" \/ task = "stopped" \/ main = "asleep")

\* A shutdown that was asked for ends in deep sleep.
ShutdownCompletes == main = "boost_off" ~> (main = "asleep" \/ task = "stopped")

\* A restart of the CPU finds the chips as they were, the charger perhaps sourcing
\* VBUS, and closes the switch before it asks anything (controller.rs:273): the switch
\* and the charger agree again, whatever transfer fails on the way to the first mode.
RestartIsHealed ==
  pins # charger
  ~> (pins = charger \/ (initialised /\ torn) \/ task = "stopped" \/ main = "asleep")

\* The comment in handle_power_controller_interrupt: "If VBUS is not present and we
\* are not in OTG mode, enter OTG mode".  It does not hold of the board: a falling
\* edge while ext_interrupt_task awaits its answer is not seen, and read_stats then
\* clears INT without a look at the mode.
VbusLossIsServed ==
  <>[](~vbus) => []<>(mode = "Otg" \/ main # "running" \/ task = "stopped")
=============================================================================
