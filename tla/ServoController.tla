--------------------------- MODULE ServoController ---------------------------
(***************************************************************************)
(* servo_controller_task of test_stand_controller (servo.rs), its command  *)
(* channel, and the guard of the MQTT handler before it, which reads the   *)
(* state of the sequencer (client.rs).  The positions are the code's own   *)
(* arithmetic on PWM ticks.                                                *)
(*                                                                         *)
(* Tasks are cooperative: polling holds from one pending await of the      *)
(* servo task to its next, and only its timer moves in the meantime.       *)
(***************************************************************************)
EXTENDS Integers, Sequences

CONSTANTS
  CommandCapacity,  \* SERVO_COMMAND_CHANNEL, 4 in the code
  MinPulse,         \* SERVO_MIN_PULSE_TICKS
  MaxPulse,         \* SERVO_MAX_PULSE_TICKS
  OpenDegrees,      \* SERVO_OPEN_DEGREES, in tenths of a degree
  ClosedDegrees,    \* SERVO_CLOSED_DEGREES
  FullRangeMs,      \* SERVO_FULL_RANGE_MS
  TickIntervalMs,   \* TICK_INTERVAL_MS, 20 in the code
  MaxCommands       \* bound on the commands the handler lets through

\* Half a turn in tenths of a degree.
HalfTurn == 1800

ASSUME ServoAssumption ==
  /\ CommandCapacity \in Nat \ {0}
  /\ MinPulse \in Nat
  /\ MaxPulse \in Nat
  /\ MinPulse < MaxPulse
  /\ OpenDegrees \in 0..HalfTurn
  /\ ClosedDegrees \in 0..HalfTurn
  /\ FullRangeMs \in Nat \ {0}
  /\ TickIntervalMs \in Nat \ {0}
  /\ MaxCommands \in Nat

VARIABLES
  state,    \* CURRENT_STATE of the sequencer
  channel,  \* SERVO_COMMAND_CHANNEL
  task,     \* progress of servo_controller_task
  ticks,    \* current_ticks, the PWM compare value and CURRENT_SERVO_TICKS
  status,   \* CURRENT_SERVO_STATUS
  order,    \* the command the running movement carries out
  start,    \* start_ticks of the running movement
  step,     \* ticks of the timer in the running movement
  due,      \* the timer of the running movement is due
  polling   \* the servo task's poll is in progress

VARIABLES   \* bounds and history, read by no task
  accepted, \* commands the handler let through
  last,     \* the last of them that the channel took
  crowded,  \* one of them joined another in the channel
  heldAtFire,  \* commands in the channel when the sequencer last entered FIRE
  fireMoves    \* movements begun since then

sequencerVars == <<state, heldAtFire>>
handlerVars == <<accepted, last, crowded>>
moveVars == <<task, ticks, status, order, start, step, due>>
vars == <<sequencerVars, channel, moveVars, polling, handlerVars, fireMoves>>

Commands == {"OPEN", "CLOSE"}
States == {"ARMED", "FIRE", "POSTFIRE"}

(***************************************************************************)
(* Arithmetic of servo.rs.  As in Sequencer, variants such as              *)
(* PositionDownward or LetThroughAlways are deliberate bugs: each stands   *)
(* in for the definition after it to show that a property notices.         *)
(***************************************************************************)

\* degrees_to_ticks
DegreesToTicks(degrees) == MinPulse + (degrees * (MaxPulse - MinPulse)) \div HalfTurn

OpenTicks == DegreesToTicks(OpenDegrees)
ClosedTicks == DegreesToTicks(ClosedDegrees)

\* target_ticks_for_command
Target(cmd) == IF cmd = "OPEN" THEN OpenTicks ELSE ClosedTicks

Distance(a, b) == IF a < b THEN b - a ELSE a - b

\* travel_time_ms in timer ticks: both divisions round down.
Steps(from, to) ==
  ((FullRangeMs * Distance(from, to)) \div (MaxPulse - MinPulse)) \div TickIntervalMs

Clamp(value) ==
  IF value < MinPulse THEN MinPulse ELSE IF value > MaxPulse THEN MaxPulse ELSE value

PositionFromTarget(from, to, n, total) == Clamp(to + (Distance(from, to) * n) \div total)
PositionDownward(from, to, n, total) == Clamp(from - (Distance(from, to) * n) \div total)

\* The position after n of total timer ticks; the i32 division truncates toward
\* the start.
Position(from, to, n, total) ==
  LET moved == (Distance(from, to) * n) \div total
  IN  Clamp(IF from <= to THEN from + moved ELSE from - moved)

MovingStatus(cmd) == IF cmd = "OPEN" THEN "opening" ELSE "closing"
ArrivedStatus(cmd) == IF cmd = "OPEN" THEN "open" ELSE "closed"

(***************************************************************************)
(* Helpers.                                                                *)
(***************************************************************************)

\* Channel::try_send: a full channel refuses the command.
Offer(queue, cmd) ==
  IF Len(queue) < CommandCapacity THEN Append(queue, cmd) ELSE queue

\* The guard of handle_servo_command.
LetThroughAlways == TRUE
LetThrough == state # "FIRE"

\* Both loops go on within the poll while the channel has a command.
GoOn == polling' = (channel' # <<>>)

Init ==
  /\ state = "ARMED"
  /\ channel = <<>>
  /\ task = "boot"
  /\ ticks = 0
  /\ status = "closed"
  /\ order = "CLOSE"
  /\ start = 0
  /\ step = 0
  /\ due = FALSE
  /\ polling = FALSE
  /\ accepted = 0
  /\ last = "CLOSE"
  /\ crowded = FALSE
  /\ heldAtFire = 0
  /\ fireMoves = 0

(***************************************************************************)
(* The surroundings: sequencer, MQTT task, timer.                          *)
(***************************************************************************)

\* What the sequencer does to CURRENT_STATE (Sequencer.tla says when).
EnterFire ==
  /\ ~polling
  /\ state = "ARMED"
  /\ state' = "FIRE"
  /\ heldAtFire' = Len(channel)
  /\ fireMoves' = 0
  /\ UNCHANGED <<channel, moveVars, polling, handlerVars>>

LeaveFire ==
  /\ ~polling
  /\ \/ state = "FIRE" /\ state' = "POSTFIRE"
     \/ state = "POSTFIRE" /\ state' = "ARMED"
  /\ UNCHANGED <<channel, moveVars, polling, handlerVars, heldAtFire, fireMoves>>

\* handle_servo_command, called from the MQTT task's poll, once the network is
\* up and hence long after the boot of this task.
ServoCommand(cmd) ==
  /\ ~polling
  /\ task # "boot"
  /\ LetThrough
  /\ accepted < MaxCommands
  /\ accepted' = accepted + 1
  /\ channel' = Offer(channel, cmd)
  /\ last' = IF channel' = channel THEN last ELSE cmd
  /\ crowded' = (crowded \/ channel # <<>>)
  /\ UNCHANGED <<sequencerVars, moveVars, polling, fireMoves>>

TimerExpires ==
  /\ task = "moving"
  /\ ~due
  /\ due' = TRUE
  /\ UNCHANGED <<sequencerVars, channel, task, ticks, status, order, start,
                 step, polling, handlerVars, fireMoves>>

(***************************************************************************)
(* servo_controller_task.                                                  *)
(***************************************************************************)

\* The servo is driven to the closed position.
Boot ==
  /\ task = "boot"
  /\ task' = "waiting"
  /\ ticks' = ClosedTicks
  /\ status' = "closed"
  /\ UNCHANGED <<sequencerVars, channel, order, start, step, due, handlerVars,
                 fireMoves>>
  /\ GoOn

Take(cmd) ==
  /\ channel # <<>>
  /\ Head(channel) = cmd
  /\ UNCHANGED <<sequencerVars, handlerVars>>

IgnoreAtTarget(cmd) ==
  /\ task = "waiting"
  /\ Take(cmd)
  /\ Target(cmd) = ticks
  /\ channel' = Tail(channel)
  /\ GoOn
  /\ UNCHANGED <<moveVars, fireMoves>>

BeginMove(cmd) ==
  /\ task = "waiting"
  /\ Take(cmd)
  /\ Target(cmd) # ticks
  /\ channel' = Tail(channel)
  /\ fireMoves' = fireMoves + 1
  /\ GoOn

StartMove(cmd) ==
  /\ BeginMove(cmd)
  /\ Steps(ticks, Target(cmd)) > 0
  /\ task' = "moving"
  /\ status' = MovingStatus(cmd)
  /\ order' = cmd
  /\ start' = ticks
  /\ step' = 0
  /\ due' = FALSE
  /\ UNCHANGED ticks

\* Less than a timer tick away: the servo is there at once.
JumpThere(cmd) ==
  /\ BeginMove(cmd)
  /\ Steps(ticks, Target(cmd)) = 0
  /\ ticks' = Target(cmd)
  /\ status' = ArrivedStatus(cmd)
  /\ UNCHANGED <<task, order, start, step, due>>

\* The loop of a movement ends; a movement at its target says so.
EndMove(otherwise) ==
  /\ task' = "waiting"
  /\ due' = FALSE
  /\ status' = IF ticks' = Target(order) THEN ArrivedStatus(order) ELSE otherwise
  /\ UNCHANGED <<order, start, step>>

KeepStatus(cmd) == status
SayArrived(cmd) == ArrivedStatus(cmd)

\* The command asks for where the servo is: the movement stops here.
StopHere(cmd) ==
  /\ task = "moving"
  /\ Take(cmd)
  /\ Target(cmd) = ticks
  /\ channel' = Tail(channel)
  /\ UNCHANGED <<ticks, fireMoves>>
  /\ EndMove(SayArrived(cmd))
  /\ GoOn

\* The command asks for what is being done; the timer starts anew.
IgnoreSame(cmd) ==
  /\ task = "moving"
  /\ Take(cmd)
  /\ Target(cmd) # ticks
  /\ Target(cmd) = Target(order)
  /\ channel' = Tail(channel)
  /\ due' = FALSE
  /\ GoOn
  /\ UNCHANGED <<task, ticks, status, order, start, step, fireMoves>>

Forget(cmd) == Tail(channel)
Resend(cmd) == Offer(Tail(channel), cmd)

\* Any other command goes back into the channel, behind the commands that came
\* after it, and ends the movement where it is.
SendBack(cmd) ==
  /\ task = "moving"
  /\ Take(cmd)
  /\ Target(cmd) \notin {ticks, Target(order)}
  /\ channel' = Resend(cmd)
  /\ UNCHANGED <<ticks, fireMoves>>
  /\ EndMove(status)
  /\ GoOn

TickUncounted ==
  /\ task = "moving"
  /\ channel = <<>>
  /\ due
  /\ UNCHANGED <<step, sequencerVars, channel, handlerVars, fireMoves>>

\* select polls the channel first, so the timer counts only when that is empty.
TickReady ==
  /\ task = "moving"
  /\ channel = <<>>
  /\ due
  /\ step' = step + 1
  /\ UNCHANGED <<sequencerVars, channel, handlerVars, fireMoves>>

Total == Steps(start, Target(order))

StepOn ==
  /\ TickReady
  /\ step + 1 < Total
  /\ ticks' = Position(start, Target(order), step + 1, Total)
  /\ due' = FALSE
  /\ polling' = FALSE
  /\ UNCHANGED <<task, status, order, start>>

Arrive ==
  /\ TickReady
  /\ step + 1 >= Total
  /\ task' = "waiting"
  /\ ticks' = Target(order)
  /\ status' = ArrivedStatus(order)
  /\ due' = FALSE
  /\ polling' = FALSE
  /\ UNCHANGED <<order, start>>

(***************************************************************************)
(* The specification.                                                      *)
(***************************************************************************)
ServoTask ==
  \/ Boot
  \/ \E cmd \in Commands :
       \/ IgnoreAtTarget(cmd)
       \/ StartMove(cmd)
       \/ JumpThere(cmd)
       \/ StopHere(cmd)
       \/ IgnoreSame(cmd)
       \/ SendBack(cmd)
  \/ StepOn
  \/ Arrive

Next ==
  \/ EnterFire
  \/ LeaveFire
  \/ \E cmd \in Commands : ServoCommand(cmd)
  \/ TimerExpires
  \/ ServoTask

\* A woken task is polled and a timer comes due; commands and the sequencer may
\* do what they like.
Fairness == WF_vars(ServoTask) /\ WF_vars(TimerExpires)

Spec == Init /\ [][Next]_vars /\ Fairness

(***************************************************************************)
(* Properties.                                                             *)
(***************************************************************************)

\* Every variable keeps to its type, the channel to its capacity, and the pulse
\* to the limits of the servo.
TypeOK ==
  /\ state \in States
  /\ channel \in Seq(Commands)
  /\ Len(channel) <= CommandCapacity
  /\ task \in {"boot", "waiting", "moving"}
  /\ ticks \in MinPulse..MaxPulse \cup {0}
  /\ status \in {"closed", "opening", "open", "closing"}
  /\ order \in Commands
  /\ start \in MinPulse..MaxPulse \cup {0}
  /\ step \in Nat
  /\ due \in BOOLEAN
  /\ polling \in BOOLEAN
  /\ accepted \in 0..MaxCommands
  /\ last \in Commands
  /\ crowded \in BOOLEAN
  /\ heldAtFire \in Nat
  /\ fireMoves \in Nat

AtRest == task = "waiting" /\ channel = <<>>

Between(x, a, b) == (a <= x /\ x <= b) \/ (b <= x /\ x <= a)

\* The servo never leaves the span between its two positions, wherever a movement
\* starts and however often it is reversed: a longer pulse strains the valve.
StaysBetweenEnds == task # "boot" => Between(ticks, ClosedTicks, OpenTicks)

\* Once it has nothing left to do, the servo is in the position its status says:
\* no interrupted movement leaves OPENING or CLOSING behind, nor OPEN half way.
RestsWhereItSays ==
  AtRest => \/ status = "open" /\ ticks = OpenTicks
            \/ status = "closed" /\ ticks = ClosedTicks

\* Entering FIRE holds the servo to the commands already in its channel: each
\* starts one movement at most, sent back or not, and no other one gets in.
FireHoldsServo == state = "FIRE" => fireMoves + Len(channel) <= heldAtFire

\* Commands that never meet in the channel are obeyed: at rest the servo is where
\* the last of them sent it, even one that reversed a movement.
LoneCommandsWin == AtRest /\ ~crowded => ticks = Target(last)

\* The invariants behind them.  A movement that was interrupted leaves a command
\* in the channel, for either position, to take the servo on.
RestInv ==
  task = "waiting" =>
    \/ status = "open" /\ ticks = OpenTicks
    \/ status = "closed" /\ ticks = ClosedTicks
    \/ channel # <<>> /\ ticks \notin {OpenTicks, ClosedTicks}

\* A movement is where its timer has brought it on the way from start.
MotionInv ==
  /\ task # "boot" => ticks \in MinPulse..MaxPulse
  /\ task = "moving" =>
       /\ start \in MinPulse..MaxPulse
       /\ Between(start, ClosedTicks, OpenTicks)
       /\ step < Total
       /\ ticks = Position(start, Target(order), step, Total)

\* A lone command is the last one, queued, under way or carried out.
LoneInv ==
  ~crowded =>
    /\ channel \in {<<>>, <<last>>}
    /\ channel = <<>> /\ task = "waiting" => ticks = Target(last)
    /\ channel = <<>> /\ task = "moving" => Target(order) = Target(last)
    /\ task = "boot" => channel = <<>> /\ last = "CLOSE"

ServoInv == RestInv /\ MotionInv /\ LoneInv /\ StaysBetweenEnds /\ FireHoldsServo

\* "Updates target, recalculates from current position": whatever is reversed,
\* the servo ends where the last command sent it.  It does not: a command that
\* reverses a movement is sent back behind a later one.
LastCommandWins == AtRest => ticks = Target(last)

\* "Smooth reversal, no jumps": a step of the servo goes toward the target of its
\* order and covers less than twice what full speed covers in a timer tick.
MotionIsSmooth ==
  [][task # "boot" /\ ticks' # ticks =>
       LET target == IF task = "moving" THEN Target(order) ELSE ticks'
       IN  /\ Between(ticks', ticks, target)
           /\ Distance(ticks, ticks') * FullRangeMs
                < 2 * TickIntervalMs * (MaxPulse - MinPulse) + FullRangeMs]_vars

\* While no command is let through, a movement does nothing in vain: each step takes
\* a command from the channel or, without one, brings the end a timer tick nearer,
\* or is the timer's coming due for that tick; the sequencer's steps leave all be.
MovementsAdvance ==
  [][task = "moving" /\ task' = "moving" /\ accepted' = accepted =>
       /\ UNCHANGED <<start, order>>
       /\ \/ UNCHANGED <<channel, ticks, step, due>>
          \/ Len(channel') < Len(channel) /\ UNCHANGED step
          \/ channel = <<>> /\ channel' = <<>> /\ due /\ step' = step + 1 /\ step' < Total
          \/ UNCHANGED <<channel, ticks, step>> /\ ~due /\ due']_vars

\* Every movement comes to an end once the commands do, which can renew its timer.
MovesEnd == (task = "moving") ~> (task = "waiting")
=============================================================================
