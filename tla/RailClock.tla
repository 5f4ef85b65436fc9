------------------------------ MODULE RailClock ------------------------------
(***************************************************************************)
(* The rail clock: the pushes of the alarm, of the button and of MQTT, the *)
(* semaphore that counts them, clock_task that turns them into pulses for  *)
(* a movement which steps on each reversal of its polarity (driver.rs),    *)
(* listen_on_tick and main (main.rs), and the way an alarm of the MCP794xx *)
(* takes to them: the INT line it shares with the power expander, and      *)
(* ext_interrupt_task (tasks/interrupt.rs).                                *)
(*                                                                         *)
(* A call of RTC or of the PowerHandle is one step, at the moment the task *)
(* at the other end serves it: RequestResponse shows that it is answered   *)
(* in turn and with its own answer.  The board may restart at any moment.  *)
(***************************************************************************)
EXTENDS Naturals

CONSTANTS
  StoredPhases,  \* what the SRAM of the RTC may hold as state.pin at power-on
  StoredLags,    \* what it may hold as state.time, as the pushes it asks for
  MaxPushes,     \* bound on the pushes after each start
  MaxFailures    \* bound on failing transfers

\* The bits of state.pin that matter: those of the two outputs, and any other.
Phases == 0..7

ASSUME RailClockAssumption ==
  /\ StoredPhases \subseteq Phases
  /\ StoredLags \subseteq Nat
  /\ {MaxPushes, MaxFailures} \subseteq Nat

VARIABLES     \* the chips and the movement
  flag,       \* the alarm of the RTC has matched, and it holds the line low
  expander,   \* the power expander holds the line low
  sram,       \* state.pin as the SRAM of the RTC has it where it is read
  boost,      \* the boost converter supplies the movement
  hand        \* the polarity of the last pulse that moved the hand

VARIABLES     \* the tasks
  edge,       \* a falling edge was latched for wait_for_falling_edge
  interrupt,  \* where ext_interrupt_task is
  rtcInt,     \* RTC_INT_SIGNAL
  tick,       \* where listen_on_tick is
  permits,    \* the semaphore of CLOCK_DRIVER
  clock,      \* where clock_task is
  pin,        \* state.pin, and with it the two outputs
  left,       \* pulses left of those acquired
  main        \* where the main task is

VARIABLES     \* bounds and history, read by no task
  pushes,     \* push_forward since the start
  pulses,     \* pulses since the start
  stuck,      \* those of them, with the converter on, that did not move the hand
  masked,     \* an alarm matched unheard since the flag was last read
  failures

rtcVars   == <<flag, sram>>
lineVars  == <<expander, edge, interrupt, rtcInt>>
pulseVars == <<pin, hand, pulses, stuck>>
clockVars == <<permits, clock, left, pushes>>
vars == <<rtcVars, lineVars, boost, tick, main, pulseVars, clockVars, masked,
          failures>>

(***************************************************************************)
(* Helpers.  Deliberate bugs stand before the definition they stand in for.*)
(***************************************************************************)
Up == main \in {"running", "boost_off", "shipping"}

\* A transfer that may fail.
Transfer(ok) ==
  /\ ok \/ failures < MaxFailures
  /\ failures' = IF ok THEN failures ELSE failures + 1

LineLow == flag \/ expander

\* The line is pulled low: the edge is latched for the task if it waits for one.
Pull == edge' = (edge \/ (~LineLow /\ interrupt = "listening"))

KeepQuiet == UNCHANGED rtcInt
SignalRtc == rtcInt' = TRUE

Push(n) ==
  /\ permits' = permits + n
  /\ pushes' = pushes + n

\* acquire_all takes every permit.
TakeOne == 1
TakeAll == permits

SetBoostOff(on) == boost' = FALSE
SetBoost(on) == boost' = on

\* state.pin as read, or 0, with no polarity replaced by one.
AsStored(p) == p
Normalise(p) == IF p \in {0, 3} THEN 1 ELSE p

\* state.pin ^= 0x3
Flip(p) == 4 * (p \div 4) + (3 - (p % 4))

\* The outputs differ, and so drive the movement.
Polarised(p) == p % 4 \in {1, 2}

(***************************************************************************)
(* The start: every task at its beginning, no signal and no permit.        *)
(***************************************************************************)
Init ==
  /\ edge = FALSE
  /\ interrupt = "starting"
  /\ rtcInt = FALSE
  /\ tick = "setting"
  /\ permits = 0
  /\ clock = "reading"
  /\ pin = 0
  /\ left = 0
  /\ main = "running"
  /\ boost = FALSE
  /\ pushes = 0
  /\ pulses = 0
  /\ stuck = 0
  /\ flag \in BOOLEAN
  /\ expander \in BOOLEAN
  /\ sram \in StoredPhases
  /\ hand \in {1, 2}
  /\ masked = FALSE
  /\ failures = 0

\* A power cut or a reset; the RTC and the hand remember, on battery and as they are.
Restart ==
  /\ edge' = FALSE
  /\ interrupt' = "starting"
  /\ rtcInt' = FALSE
  /\ tick' = "setting"
  /\ permits' = 0
  /\ clock' = "reading"
  /\ pin' = 0
  /\ left' = 0
  /\ main' = "running"
  /\ boost' = FALSE
  /\ pushes' = 0
  /\ pulses' = 0
  /\ stuck' = 0
  /\ masked' = FALSE
  /\ UNCHANGED <<rtcVars, expander, hand, failures>>

(***************************************************************************)
(* The RTC, the line and ext_interrupt_task.                               *)
(***************************************************************************)

\* An alarm that finds the line low, and its task waiting for an edge, is unheard.
AlarmMatches ==
  /\ ~flag
  /\ pushes < MaxPushes
  /\ flag' = TRUE
  /\ Pull
  /\ masked' = (masked \/ (expander /\ interrupt = "listening" /\ ~edge))
  /\ UNCHANGED <<sram, expander, interrupt, rtcInt, boost, tick, main,
                 pulseVars, clockVars, failures>>

ExpanderPulls ==
  /\ ~expander
  /\ expander' = TRUE
  /\ Pull
  /\ UNCHANGED <<rtcVars, interrupt, rtcInt, boost, tick, main, pulseVars,
                 clockVars, masked, failures>>

\* The power task reads the expander after each request and each timeout.
PowerReads ==
  /\ Up
  /\ expander
  /\ expander' = FALSE
  /\ UNCHANGED <<rtcVars, edge, interrupt, rtcInt, boost, tick, main, pulseVars,
                 clockVars, masked, failures>>

\* From its first poll the task waits for an edge, and hears of no line already low.
IntStarts ==
  /\ Up
  /\ interrupt = "starting"
  /\ interrupt' = "listening"
  /\ masked' = flag
  /\ UNCHANGED <<rtcVars, expander, edge, rtcInt, boost, tick, main, pulseVars,
                 clockVars, failures>>

IntFires ==
  /\ Up
  /\ interrupt = "listening"
  /\ edge
  /\ edge' = FALSE
  /\ interrupt' = "checking"
  /\ UNCHANGED <<rtcVars, expander, rtcInt, boost, tick, main, pulseVars,
                 clockVars, masked, failures>>

\* check_interrupt, whose answer, an error or not, is only logged.
Checked ==
  /\ Up
  /\ interrupt = "checking"
  /\ interrupt' = "answered"
  /\ expander' \in {expander, FALSE}
  /\ UNCHANGED <<rtcVars, edge, rtcInt, boost, tick, main, pulseVars, clockVars,
                 masked, failures>>

IntSignals ==
  /\ Up
  /\ interrupt = "answered"
  /\ interrupt' = "listening"
  /\ SignalRtc
  /\ UNCHANGED <<rtcVars, expander, edge, boost, tick, main, pulseVars, clockVars,
                 masked, failures>>

IntTask == IntStarts \/ IntFires \/ Checked \/ IntSignals

(***************************************************************************)
(* listen_on_tick.                                                         *)
(***************************************************************************)
TickFrame ==
  UNCHANGED <<sram, lineVars, boost, pulseVars, clock, left>>

\* set_alarm, which may clear the flag it finds; its failure is a panic.
SetAlarm ==
  /\ Up
  /\ tick = "setting"
  /\ \E ok \in BOOLEAN :
       /\ Transfer(ok)
       /\ tick' = IF ok THEN "enabling" ELSE tick
       /\ main' = IF ok THEN main ELSE "halted"
       /\ flag' \in IF ok THEN {flag, FALSE} ELSE {flag}
  /\ masked' = (masked /\ flag')
  /\ UNCHANGED <<permits, pushes>>
  /\ TickFrame

EnableAlarm ==
  /\ Up
  /\ tick = "enabling"
  /\ \E ok \in BOOLEAN :
       /\ Transfer(ok)
       /\ tick' = IF ok THEN "waiting" ELSE tick
       /\ main' = IF ok THEN main ELSE "halted"
  /\ UNCHANGED <<flag, masked, permits, pushes>>
  /\ TickFrame

TickWakes ==
  /\ Up
  /\ tick = "waiting"
  /\ rtcInt
  /\ rtcInt' = FALSE
  /\ tick' = "asking"
  /\ UNCHANGED <<rtcVars, expander, edge, interrupt, boost, main, pulseVars,
                 clockVars, masked, failures>>

\* has_alarm_matched(..).unwrap_or(false)
HasAlarmMatched ==
  /\ Up
  /\ tick = "asking"
  /\ \E ok \in BOOLEAN :
       /\ Transfer(ok)
       /\ tick' = IF ok /\ flag THEN "clearing" ELSE "waiting"
  /\ masked' = FALSE
  /\ UNCHANGED <<flag, main, permits, pushes>>
  /\ TickFrame

\* The clock is pushed whether or not the flag was cleared.
ClearAlarm ==
  /\ Up
  /\ tick = "clearing"
  /\ \E ok \in BOOLEAN :
       /\ Transfer(ok)
       /\ flag' = (flag /\ ~ok)
  /\ tick' = "waiting"
  /\ Push(1)
  /\ UNCHANGED <<main, masked>>
  /\ TickFrame

TickTask == SetAlarm \/ EnableAlarm \/ TickWakes \/ HasAlarmMatched \/ ClearAlarm

\* The button of listen_on_buttons, or its MQTT topic.
Press ==
  /\ Up
  /\ pushes < MaxPushes
  /\ Push(1)
  /\ UNCHANGED <<rtcVars, lineVars, boost, tick, main, pulseVars, clock, left,
                 masked, failures>>

(***************************************************************************)
(* clock_task.                                                             *)
(***************************************************************************)

\* read_rtc_state; there is a time to catch up with if it was read.
ReadState ==
  /\ Up
  /\ clock = "reading"
  /\ \E ok \in BOOLEAN :
       /\ Transfer(ok)
       /\ pin' = Normalise(IF ok THEN sram ELSE 0)
       /\ clock' \in IF ok THEN {"catching", "waiting"} ELSE {"waiting"}
  /\ UNCHANGED <<rtcVars, lineVars, boost, tick, main, hand, pulses, stuck,
                 permits, left, pushes, masked>>

\* The second of the minute less the stored Unix time, in minutes: none for a
\* time that the clock was ever at, any number for one that the SRAM made up.
CatchUp ==
  /\ Up
  /\ clock = "catching"
  /\ \E ok \in BOOLEAN : Transfer(ok)
  /\ \E n \in StoredLags : Push(n)
  /\ clock' = "waiting"
  /\ UNCHANGED <<rtcVars, lineVars, boost, tick, main, pulseVars, left, masked>>

Acquire ==
  /\ Up
  /\ clock = "waiting"
  /\ permits > 0
  /\ left' = TakeAll
  /\ permits' = 0
  /\ clock' = "boosting"
  /\ UNCHANGED <<rtcVars, lineVars, boost, tick, main, pulseVars, pushes, masked,
                 failures>>

ClockFrame ==
  UNCHANGED <<rtcVars, lineVars, tick, main, permits, pushes, masked>>

BoostOn ==
  /\ Up
  /\ clock = "boosting"
  /\ SetBoost(TRUE)
  /\ clock' = "pulsing"
  /\ UNCHANGED <<pulseVars, left, failures>>
  /\ ClockFrame

\* The movement steps on a pulse of the other polarity than the last one's.
Pulse ==
  /\ Up
  /\ clock = "pulsing"
  /\ left > 0
  /\ left' = left - 1
  /\ pin' = Flip(pin)
  /\ pulses' = pulses + 1
  /\ LET moves == boost /\ Polarised(pin') /\ pin' % 4 # hand
     IN  /\ hand' = IF moves THEN pin' % 4 ELSE hand
         /\ stuck' = IF boost /\ ~moves THEN stuck + 1 ELSE stuck
  /\ UNCHANGED <<boost, clock, failures>>
  /\ ClockFrame

BoostOff ==
  /\ Up
  /\ clock = "pulsing"
  /\ left = 0
  /\ SetBoost(FALSE)
  /\ clock' = "dating"
  /\ UNCHANGED <<pulseVars, left, failures>>
  /\ ClockFrame

\* get_datetime, without which nothing is written.
ReadTime ==
  /\ Up
  /\ clock = "dating"
  /\ \E ok \in BOOLEAN :
       /\ Transfer(ok)
       /\ clock' = IF ok THEN "writing" ELSE "waiting"
  /\ UNCHANGED <<boost, pulseVars, left>>
  /\ ClockFrame

\* The record is written at the beginning of the 64 bytes at whose end
\* rkyv::access looks for it: what is read at the next start stays as it was.
WriteState ==
  /\ Up
  /\ clock = "writing"
  /\ \E ok \in BOOLEAN : Transfer(ok)
  /\ clock' = "waiting"
  /\ UNCHANGED <<boost, pulseVars, left>>
  /\ ClockFrame

ClockTask ==
  \/ ReadState \/ CatchUp \/ Acquire \/ BoostOn \/ Pulse \/ BoostOff
  \/ ReadTime \/ WriteState

(***************************************************************************)
(* main.                                                                   *)
(***************************************************************************)

\* SHUTDOWN_SIGNAL.
Shutdown ==
  /\ main = "running"
  /\ main' = "boost_off"
  /\ UNCHANGED <<rtcVars, lineVars, boost, tick, pulseVars, clockVars, masked,
                 failures>>

StopBoost ==
  /\ main = "boost_off"
  /\ SetBoost(FALSE)
  /\ main' = "shipping"
  /\ UNCHANGED <<rtcVars, lineVars, tick, pulseVars, clockVars, masked, failures>>

\* The answer to enter_shipping_mode is only logged; no source wakes the sleep.
Sleep ==
  /\ main = "shipping"
  /\ main' = "asleep"
  /\ UNCHANGED <<rtcVars, lineVars, boost, tick, pulseVars, clockVars, masked,
                 failures>>

(***************************************************************************)
(* The specification.  A task that can go on does, for the tasks that turn *)
(* a push into a pulse; nobody has to press, sleep or synchronise.         *)
(***************************************************************************)
Next ==
  \/ Restart
  \/ AlarmMatches
  \/ ExpanderPulls
  \/ PowerReads
  \/ IntTask
  \/ TickTask
  \/ Press
  \/ ClockTask
  \/ Shutdown
  \/ StopBoost
  \/ Sleep

Fairness == WF_vars(ClockTask)

Spec == Init /\ [][Next]_vars /\ Fairness

(***************************************************************************)
(* Properties.                                                             *)
(***************************************************************************)

\* Every variable keeps to its type.
TypeOK ==
  /\ {flag, expander, boost, edge, rtcInt, masked} \subseteq BOOLEAN
  /\ sram \in StoredPhases
  /\ hand \in {1, 2}
  /\ interrupt \in {"starting", "listening", "checking", "answered"}
  /\ tick \in {"setting", "enabling", "waiting", "asking", "clearing"}
  /\ clock \in {"reading", "catching", "waiting", "boosting", "pulsing", "dating",
               "writing"}
  /\ main \in {"running", "boost_off", "shipping", "asleep", "halted"}
  /\ pin \in Phases
  /\ {permits, left, pushes, pulses, stuck} \subseteq Nat
  /\ failures \in 0..MaxFailures

\* Until it is shut down, the clock loses at most one minute for each start: the
\* outputs go by the hand from the first pulse on, whatever the SRAM held, if it is
\* a state.pin that the program writes.
OnePulseIsLost == main = "running" /\ sram <= 3 => stuck <= 1

\* The movement gets its pulses with the converter on until main turns it off.
PulsesArePowered == [][pulses' > pulses => boost \/ main # "running"]_vars

Quiet ==
  /\ Up
  /\ interrupt = "listening" /\ ~edge
  /\ ~rtcInt
  /\ tick = "waiting"

\* No alarm is left unserved when everybody waits for the next: neither while the
\* line's task awaits the power task nor while the last alarm is being served.  An
\* alarm that finds the line low already is, and one whose flag cannot be read.
AlarmsAreServed == Quiet /\ ~masked /\ failures = 0 => ~flag

\* The invariants behind them.  While main does not interfere, the converter is on
\* for the pulses; from the first of them on the outputs and the hand agree.
PulseInv ==
  /\ clock = "reading" => pulses = 0
  /\ pulses = 0 => stuck = 0
  /\ main = "running" =>
       /\ clock = "pulsing" => boost
       /\ sram <= 3 =>
            /\ clock # "reading" => pin \in {1, 2}
            /\ pulses > 0 => pin = hand
            /\ stuck <= 1

\* Every push is a permit, a pulse still to come or a pulse made: what acquire_all
\* took together is worked off, and nothing is pulsed that nobody asked for.
PushesAreAccounted ==
  /\ pushes = permits + left + pulses
  /\ clock \notin {"boosting", "pulsing"} => left = 0

\* An alarm that was heard is on its way to listen_on_tick.
AlarmInv ==
  flag /\ ~masked /\ failures = 0 =>
    \/ interrupt # "listening"
    \/ edge
    \/ rtcInt
    \/ tick \in {"asking", "clearing"}

\* A clock that waits has nothing left to do: it never waits on a push that a permit
\* no longer speaks of.
NoPushIsForgotten == clock = "waiting" /\ permits = 0 => pulses = pushes

\* Every push, whatever made it and however many came together, becomes a pulse.
PushesAreMade ==
  \A n \in 1..MaxPushes : pushes >= n ~> (pulses >= n \/ pushes < n \/ ~Up)
=============================================================================
