--------------------------- MODULE SequencerProofs ---------------------------
(***************************************************************************)
(* Theorems about Sequencer, for every channel capacity and every number   *)
(* of launches and of failing calls.                                       *)
(***************************************************************************)
EXTENDS Sequencer, TLAPS

(***************************************************************************)
(* Lemmas on the operators the actions are built from.                     *)
(***************************************************************************)

\* A refused or accepted message leaves SEQUENCER_CHANNEL a channel.
LEMMA OfferType ==
  ASSUME NEW q \in Seq(Messages), Len(q) <= ChannelCapacity, NEW m \in Messages
  PROVE  /\ Offer(q, m) \in Seq(Messages)
         /\ Len(Offer(q, m)) <= ChannelCapacity
BY SequencerAssumption DEF Offer

\* Receiving from a channel that holds a message leaves a channel.
LEMMA TailType ==
  ASSUME NEW q \in Seq(Messages), Len(q) <= ChannelCapacity, q # <<>>
  PROVE  /\ Tail(q) \in Seq(Messages)
         /\ Len(Tail(q)) <= ChannelCapacity
BY SequencerAssumption

\* Every light of the table is a set of lamps of the tower.
LEMMA LitWhenType ==
  ASSUME NEW s \in States
  PROVE  LitWhen(s) \in SUBSET Lamps
BY DEF States, LitWhen, Lamps

\* The failure budget is never overdrawn.
LEMMA FailType ==
  ASSUME failures \in 0..MaxFailures, NEW n \in Nat, Fail(n)
  PROVE  failures' \in 0..MaxFailures /\ failures' >= failures
BY SequencerAssumption DEF Fail

\* Entering a state keeps light and budget in type.
LEMMA EnterType ==
  ASSUME TypeOK, NEW s \in States, Enter(s)
  PROVE  /\ state' \in States
         /\ light' \in SUBSET Lamps
         /\ unlit' \in BOOLEAN
         /\ failures' \in 0..MaxFailures
<1>1. PICK lit \in BOOLEAN :
        /\ Fail(Failed(lit))
        /\ state' = s
        /\ light' = IF lit THEN LitWhen(s) ELSE light
        /\ unlit' = ~lit
  BY DEF Enter
<1>2. Failed(lit) \in Nat
  BY DEF Failed
<1>3. failures' \in 0..MaxFailures
  BY <1>1, <1>2, FailType DEF TypeOK
<1>4. light' \in SUBSET Lamps
  BY <1>1, LitWhenType DEF TypeOK
<1>5. unlit' \in BOOLEAN
  BY <1>1, Zenon
<1> QED
  BY <1>1, <1>3, <1>4, <1>5

\* Taking a message off the channel keeps what Receive changes in type.
LEMMA ReceiveType ==
  ASSUME TypeOK, NEW m \in Messages, Receive(m)
  PROVE  /\ channel' \in Seq(Messages)
         /\ Len(channel') <= ChannelCapacity
         /\ pin' \in BOOLEAN
         /\ edge' \in BOOLEAN
         /\ lastArmed' \in BOOLEAN
         /\ edgeMissed' \in BOOLEAN
         /\ cpu' \in Tasks \cup {"idle"}
         /\ stateTask' \in {"boot", "running", "stopped"}
         /\ firesSent' \in 0..MaxFires
<1>1. channel \in Seq(Messages) /\ Len(channel) <= ChannelCapacity
  BY DEF TypeOK
<1>2. channel' = Tail(channel) /\ channel # <<>>
  BY DEF Receive
<1>3. channel' \in Seq(Messages) /\ Len(channel') <= ChannelCapacity
  BY <1>1, <1>2, TailType
<1> QED
  BY <1>3 DEF Receive, TypeOK, Tasks

(***************************************************************************)
(* Type correctness.                                                       *)
(***************************************************************************)

LEMMA InitType == Init => TypeOK
<1> SUFFICES ASSUME Init PROVE TypeOK
  OBVIOUS
<1>1. light \in SUBSET Lamps
  BY LitWhenType DEF Init, Lamps
<1>2. channel \in Seq(Messages) /\ Len(channel) <= ChannelCapacity
  BY SequencerAssumption DEF Init
<1>3. /\ pin \in BOOLEAN
      /\ edge \in BOOLEAN
      /\ lastArmed \in BOOLEAN
      /\ edgeMissed \in BOOLEAN
      /\ fireActivate \in BOOLEAN
      /\ fireCancel \in BOOLEAN
      /\ timerExpired \in BOOLEAN
      /\ trigger \in BOOLEAN
      /\ ignited \in BOOLEAN
      /\ lateStart \in BOOLEAN
      /\ leftover \in BOOLEAN
      /\ unlit \in BOOLEAN
  BY Zenon DEF Init
<1>4. /\ shutterChannel \in 0..ShutterCapacity
      /\ failures \in 0..MaxFailures
      /\ firesSent \in 0..MaxFires
      /\ launches \in Nat
      /\ ignitions \in Nat
  BY SequencerAssumption DEF Init
<1>5. /\ state \in States
      /\ stateTask \in {"boot", "running", "stopped"}
      /\ fireTask \in {"boot", "waiting", "counting", "stopped"}
      /\ shutterTask \in {"waiting", "pressed", "released"}
      /\ cpu \in Tasks \cup {"idle"}
  BY DEF Init, States, Tasks
<1> QED
  BY <1>1, <1>2, <1>3, <1>4, <1>5, Zenon DEF TypeOK

LEMMA NextType == TypeOK /\ [Next]_vars => TypeOK'
<1> SUFFICES ASSUME TypeOK, [Next]_vars
             PROVE  TypeOK'
  OBVIOUS
<1> USE SequencerAssumption DEF lightVars
<1>1. CASE FlipSwitch
  BY <1>1 DEF FlipSwitch, Listening, TypeOK, fireVars, shutterVars
<1>2. ASSUME NEW cmd \in Commands, SendStateCommand(cmd)
      PROVE  TypeOK'
  BY <1>2, OfferType DEF SendStateCommand, TypeOK, Messages, armedVars, fireVars, shutterVars
<1>3. CASE TimerExpires
  BY <1>3 DEF TimerExpires, TypeOK, armedVars, shutterVars
<1>4. CASE StateBoot
  <2>1. failures' \in 0..MaxFailures
    BY <1>4, FailType DEF StateBoot, TypeOK, Failed
  <2>2. light' \in SUBSET Lamps /\ unlit' \in BOOLEAN
    <3>1. PICK lit \in BOOLEAN :
            \/ UNCHANGED lightVars
            \/ light' = (IF lit THEN LitWhen("ARMED") ELSE {}) /\ unlit' = ~lit
      BY <1>4 DEF StateBoot
    <3>2. unlit' \in BOOLEAN
      BY <3>1, Zenon DEF TypeOK
    <3> QED
      BY <3>1, <3>2 DEF TypeOK, LitWhen, Lamps
  <2> QED
    BY <1>4, <2>1, <2>2 DEF StateBoot, TypeOK, States, Tasks, armedVars, fireVars, shutterVars
<1>5. CASE Reject
  <2>1. /\ channel' \in Seq(Messages)
        /\ Len(channel') <= ChannelCapacity
        /\ pin' \in BOOLEAN
        /\ edge' \in BOOLEAN
        /\ lastArmed' \in BOOLEAN
        /\ edgeMissed' \in BOOLEAN
        /\ cpu' \in Tasks \cup {"idle"}
        /\ stateTask' \in {"boot", "running", "stopped"}
        /\ firesSent' \in 0..MaxFires
    BY <1>5, ReceiveType DEF Reject, Rejected, Messages, Commands
  <2> QED
    BY <1>5, <2>1 DEF Reject, TypeOK, fireVars, shutterVars
<1>6. CASE AcceptFire
  <2>1. /\ state' \in States
        /\ light' \in SUBSET Lamps
        /\ unlit' \in BOOLEAN
        /\ failures' \in 0..MaxFailures
    BY <1>6, EnterType DEF AcceptFire, States
  <2>2. /\ channel' \in Seq(Messages)
        /\ Len(channel') <= ChannelCapacity
        /\ pin' \in BOOLEAN
        /\ edge' \in BOOLEAN
        /\ lastArmed' \in BOOLEAN
        /\ edgeMissed' \in BOOLEAN
        /\ cpu' \in Tasks \cup {"idle"}
        /\ stateTask' \in {"boot", "running", "stopped"}
        /\ firesSent' \in 0..MaxFires
    BY <1>6, ReceiveType DEF AcceptFire, Messages, Commands
  <2>3. /\ shutterChannel' \in 0..ShutterCapacity
        /\ shutterTask' \in {"waiting", "pressed", "released"}
    BY <1>6 DEF AcceptFire, TriggerShutter, TypeOK
  <2>4. launches' \in Nat
    BY <1>6 DEF AcceptFire, TypeOK
  <2> QED
    BY <1>6, <2>1, <2>2, <2>3, <2>4, Zenon DEF AcceptFire, TypeOK
<1>7. CASE AcceptFireEnd
  <2>1. /\ state' \in States
        /\ light' \in SUBSET Lamps
        /\ unlit' \in BOOLEAN
        /\ failures' \in 0..MaxFailures
    BY <1>7, EnterType DEF AcceptFireEnd, States
  <2>2. /\ channel' \in Seq(Messages)
        /\ Len(channel') <= ChannelCapacity
        /\ pin' \in BOOLEAN
        /\ edge' \in BOOLEAN
        /\ lastArmed' \in BOOLEAN
        /\ edgeMissed' \in BOOLEAN
        /\ cpu' \in Tasks \cup {"idle"}
        /\ stateTask' \in {"boot", "running", "stopped"}
        /\ firesSent' \in 0..MaxFires
    BY <1>7, ReceiveType DEF AcceptFireEnd, Messages, Commands
  <2> QED
    BY <1>7, <2>1, <2>2 DEF AcceptFireEnd, TriggerShutter, SignalCancel, TypeOK
<1>8. CASE AcceptFireReset
  <2>1. /\ state' \in States
        /\ light' \in SUBSET Lamps
        /\ unlit' \in BOOLEAN
        /\ failures' \in 0..MaxFailures
    BY <1>8, EnterType DEF AcceptFireReset, States
  <2>2. /\ channel' \in Seq(Messages)
        /\ Len(channel') <= ChannelCapacity
        /\ pin' \in BOOLEAN
        /\ edge' \in BOOLEAN
        /\ lastArmed' \in BOOLEAN
        /\ edgeMissed' \in BOOLEAN
        /\ cpu' \in Tasks \cup {"idle"}
        /\ stateTask' \in {"boot", "running", "stopped"}
        /\ firesSent' \in 0..MaxFires
    BY <1>8, ReceiveType DEF AcceptFireReset, Messages, Commands
  <2> QED
    BY <1>8, <2>1, <2>2 DEF AcceptFireReset, TypeOK, fireVars, shutterVars
<1>9. CASE BuzzerComplete
  <2>1. light' \in SUBSET Lamps /\ unlit' \in BOOLEAN /\ failures' \in 0..MaxFailures
    <3>1. CASE MaySilence
      <4>1. PICK lit \in BOOLEAN :
              /\ Fail(Failed(lit))
              /\ light' = IF lit THEN {"red"} ELSE light
              /\ unlit' = (unlit /\ ~lit)
        BY <1>9, <3>1 DEF BuzzerComplete, SetLight
      <4>2. unlit' \in BOOLEAN
        BY <4>1, Zenon
      <4> QED
        BY <4>1, <4>2, FailType DEF Failed, TypeOK, Lamps
    <3>2. CASE ~MaySilence
      BY <1>9, <3>2 DEF BuzzerComplete, TypeOK
    <3> QED
      BY <3>1, <3>2
  <2>2. /\ channel' \in Seq(Messages)
        /\ Len(channel') <= ChannelCapacity
        /\ pin' \in BOOLEAN
        /\ edge' \in BOOLEAN
        /\ lastArmed' \in BOOLEAN
        /\ edgeMissed' \in BOOLEAN
        /\ cpu' \in Tasks \cup {"idle"}
        /\ stateTask' \in {"boot", "running", "stopped"}
        /\ firesSent' \in 0..MaxFires
    BY <1>9, ReceiveType DEF BuzzerComplete, Messages, Commands
  <2> QED
    BY <1>9, <2>1, <2>2 DEF BuzzerComplete, TypeOK, fireVars, shutterVars
<1>10. CASE PublishArmedChange
  <2>1. /\ UNCHANGED <<pin, channel, state, stateTask, lightVars, fireVars, shutterVars,
                       failures, firesSent, launches>>
        /\ edge' = FALSE /\ lastArmed' = pin /\ edgeMissed' = FALSE /\ cpu' = "state"
    BY <1>10 DEF PublishArmedChange, StoreLevel
  <2>2. /\ edge' \in BOOLEAN /\ lastArmed' \in BOOLEAN /\ edgeMissed' \in BOOLEAN
        /\ cpu' \in Tasks \cup {"idle"}
    BY <2>1 DEF TypeOK, Tasks
  <2>3. /\ pin' = pin /\ channel' = channel /\ state' = state /\ stateTask' = stateTask
        /\ light' = light /\ unlit' = unlit /\ failures' = failures
        /\ fireActivate' = fireActivate /\ fireCancel' = fireCancel /\ fireTask' = fireTask
        /\ timerExpired' = timerExpired /\ trigger' = trigger /\ ignitions' = ignitions
        /\ ignited' = ignited /\ lateStart' = lateStart /\ leftover' = leftover
        /\ shutterChannel' = shutterChannel /\ shutterTask' = shutterTask
        /\ firesSent' = firesSent /\ launches' = launches
    BY <2>1 DEF fireVars, shutterVars
  <2> QED
    BY <2>2, <2>3 DEF TypeOK
<1>11. CASE StateSuspend
  BY <1>11 DEF StateSuspend, TypeOK, armedVars, fireVars, shutterVars
<1>12. CASE FireBoot
  <2>1. failures' \in 0..MaxFailures
    BY <1>12, FailType DEF FireBoot, TypeOK
  <2>2. cpu' \in Tasks \cup {"idle"} /\ trigger' \in BOOLEAN
    BY <1>12, Zenon DEF FireBoot, ReleaseTrigger, Tasks, TypeOK
  <2>3. fireTask' \in {"boot", "waiting", "counting", "stopped"}
    BY <1>12, Zenon DEF FireBoot
  <2> QED
    BY <1>12, <2>1, <2>2, <2>3 DEF FireBoot, TypeOK, armedVars, shutterVars
<1>13. CASE StartCountdown
  <2>1. /\ fireTask' \in {"boot", "waiting", "counting", "stopped"}
        /\ cpu' \in Tasks \cup {"idle"}
    BY <1>13 DEF StartCountdown, Tasks
  <2>2. /\ fireActivate' \in BOOLEAN /\ fireCancel' \in BOOLEAN
        /\ timerExpired' \in BOOLEAN /\ lateStart' \in BOOLEAN
    BY <1>13, Zenon DEF StartCountdown, TakeActivate, ResetCancel
  <2>3. /\ pin' = pin /\ edge' = edge /\ lastArmed' = lastArmed /\ edgeMissed' = edgeMissed
        /\ channel' = channel /\ state' = state /\ stateTask' = stateTask
        /\ light' = light /\ unlit' = unlit /\ trigger' = trigger /\ ignitions' = ignitions
        /\ ignited' = ignited /\ leftover' = leftover /\ failures' = failures
        /\ shutterChannel' = shutterChannel /\ shutterTask' = shutterTask
        /\ firesSent' = firesSent /\ launches' = launches
    BY <1>13 DEF StartCountdown, armedVars, shutterVars
  <2> QED
    BY <2>1, <2>2, <2>3 DEF TypeOK
<1>14. CASE Ignite
  <2>1. failures' \in 0..MaxFailures /\ trigger' \in BOOLEAN
    BY <1>14, FailType DEF Ignite, DriveTrigger, Failed, TypeOK
  <2>2. channel' \in Seq(Messages) /\ Len(channel') <= ChannelCapacity
    BY <1>14, OfferType DEF Ignite, TypeOK, Messages
  <2>3. /\ UNCHANGED <<armedVars, state, stateTask, lightVars, fireActivate, fireCancel,
                       timerExpired, lateStart, leftover, shutterVars, firesSent,
                       launches>>
        /\ fireTask' = "waiting" /\ cpu' \in {"fire", "idle"}
        /\ ignitions' = ignitions + 1 /\ ignited' = (ignited \/ ~fireActivate)
    BY <1>14 DEF Ignite, EndCountdown
  <2>4. /\ fireTask' \in {"boot", "waiting", "counting", "stopped"}
        /\ cpu' \in Tasks \cup {"idle"} /\ ignitions' \in Nat
    BY <2>3 DEF Tasks, TypeOK
  <2>5. ignited' \in BOOLEAN
    BY <2>3, Zenon DEF TypeOK
  <2>6. /\ pin' = pin /\ edge' = edge /\ lastArmed' = lastArmed /\ edgeMissed' = edgeMissed
        /\ state' = state /\ stateTask' = stateTask /\ light' = light /\ unlit' = unlit
        /\ fireActivate' = fireActivate /\ fireCancel' = fireCancel
        /\ timerExpired' = timerExpired /\ lateStart' = lateStart /\ leftover' = leftover
        /\ shutterChannel' = shutterChannel /\ shutterTask' = shutterTask
        /\ firesSent' = firesSent /\ launches' = launches
    BY <2>3 DEF armedVars, shutterVars
  <2> QED
    BY <2>1, <2>2, <2>4, <2>5, <2>6 DEF TypeOK
<1>15. CASE Abort
  <2>1. failures' \in 0..MaxFailures /\ trigger' \in BOOLEAN
    BY <1>15, FailType DEF Abort, DriveTrigger, Failed, TypeOK
  <2>2. /\ UNCHANGED <<armedVars, channel, state, stateTask, lightVars, fireActivate,
                       timerExpired, ignitions, ignited, lateStart, leftover,
                       shutterVars, firesSent, launches>>
        /\ fireTask' = "waiting" /\ cpu' \in {"fire", "idle"} /\ fireCancel' = FALSE
    BY <1>15 DEF Abort, EndCountdown
  <2>3. /\ fireTask' \in {"boot", "waiting", "counting", "stopped"}
        /\ fireCancel' \in BOOLEAN /\ cpu' \in Tasks \cup {"idle"}
    BY <2>2 DEF Tasks
  <2>4. /\ pin' = pin /\ edge' = edge /\ lastArmed' = lastArmed /\ edgeMissed' = edgeMissed
        /\ channel' = channel /\ state' = state /\ stateTask' = stateTask
        /\ light' = light /\ unlit' = unlit /\ fireActivate' = fireActivate
        /\ timerExpired' = timerExpired /\ ignitions' = ignitions /\ ignited' = ignited
        /\ lateStart' = lateStart /\ leftover' = leftover
        /\ shutterChannel' = shutterChannel /\ shutterTask' = shutterTask
        /\ firesSent' = firesSent /\ launches' = launches
    BY <2>2 DEF armedVars, shutterVars
  <2> QED
    BY <2>1, <2>3, <2>4 DEF TypeOK
<1>16. CASE PressShutter
  BY <1>16 DEF PressShutter, TakeShutter, TypeOK, armedVars, fireVars
<1>17. CASE ShutterTimer
  BY <1>17 DEF ShutterTimer, TypeOK, armedVars, fireVars
<1>18. CASE UNCHANGED vars
  BY <1>18 DEF vars, TypeOK, armedVars, fireVars, shutterVars
<1> QED
  BY <1>1, <1>2, <1>3, <1>4, <1>5, <1>6, <1>7, <1>8, <1>9, <1>10, <1>11,
     <1>12, <1>13, <1>14, <1>15, <1>16, <1>17, <1>18
     DEF Next, Environment, StateTask, FireTask, ShutterTask

\* Every reachable state keeps every variable in its type and every channel
\* within its capacity.
THEOREM TypeCorrect == Spec => []TypeOK
BY InitType, NextType, PTL DEF Spec

(***************************************************************************)
(* The launch: requests, countdowns, cancels and ignitions.                *)
(***************************************************************************)
launchVars == <<state, stateTask, fireActivate, fireCancel, fireTask, trigger,
                launches, ignitions, ignited, lateStart, leftover>>

\* Only these actions touch what the launch invariant speaks of.
LEMMA LaunchFrame ==
  ASSUME [Next]_vars
  PROVE  \/ StateBoot
         \/ AcceptFire
         \/ AcceptFireEnd
         \/ AcceptFireReset
         \/ FireBoot
         \/ StartCountdown
         \/ Ignite
         \/ Abort
         \/ UNCHANGED launchVars
<1>1. CASE UNCHANGED vars
  BY <1>1 DEF vars, launchVars, fireVars
<1>2. CASE Environment
  BY <1>2 DEF Environment, FlipSwitch, SendStateCommand, TimerExpires,
              launchVars, fireVars
<1>3. CASE StateTask
  BY <1>3 DEF StateTask, Reject, Rejected, BuzzerComplete, PublishArmedChange, StateSuspend,
              Receive, launchVars, fireVars
<1>4. CASE ShutterTask
  BY <1>4 DEF ShutterTask, PressShutter, ShutterTimer, launchVars, fireVars
<1> QED
  BY <1>1, <1>2, <1>3, <1>4 DEF Next, FireTask

LEMMA LaunchInit == Init => LaunchInv
BY DEF Init, LaunchInv, OneIgnitionPerFire, FireNotLost, CancelIsAskedFor,
       CancelNotLost, TriggerNeedsLaunch, ArmedUntilRunning, One

\* Requests, countdowns and ignitions never outnumber the accepted launches.
LEMMA CreditStep ==
  ASSUME TypeOK, TypeOK', OneIgnitionPerFire, [Next]_vars
  PROVE  OneIgnitionPerFire'
<1> USE DEF OneIgnitionPerFire, One
<1>1. CASE AcceptFire
  BY <1>1 DEF AcceptFire, TypeOK
<1>2. CASE FireBoot
  BY <1>2 DEF FireBoot, TypeOK
<1>3. CASE StartCountdown
  BY <1>3 DEF StartCountdown, TakeActivate, TypeOK
<1>4. CASE Ignite
  BY <1>4 DEF Ignite, EndCountdown, TypeOK
<1>5. CASE Abort
  BY <1>5 DEF Abort, EndCountdown, TypeOK
<1>6. CASE StateBoot \/ AcceptFireEnd \/ AcceptFireReset
  BY <1>6 DEF StateBoot, AcceptFireEnd, AcceptFireReset, fireVars
<1>7. CASE UNCHANGED launchVars
  BY <1>7 DEF launchVars
<1> QED
  BY <1>1, <1>2, <1>3, <1>4, <1>5, <1>6, <1>7, LaunchFrame

\* What becomes of a launch and of a cancel.
LEMMA LaunchStep ==
  ASSUME TypeOK, TypeOK', LaunchInv, [Next]_vars
  PROVE  LaunchInv'
<1>1. OneIgnitionPerFire'
  BY CreditStep DEF LaunchInv
<1>2. /\ FireNotLost'
      /\ CancelIsAskedFor'
      /\ CancelNotLost'
      /\ ArmedUntilRunning'
  <2> USE DEF LaunchInv, FireNotLost, CancelIsAskedFor, CancelNotLost, ArmedUntilRunning
  <2>1. CASE StateBoot
    BY <2>1 DEF StateBoot, fireVars
  <2>2. CASE AcceptFire
    BY <2>2 DEF AcceptFire, Receive, Enter
  <2>3. CASE AcceptFireEnd
    BY <2>3 DEF AcceptFireEnd, Receive, Enter, SignalCancel
  <2>4. CASE AcceptFireReset
    BY <2>4 DEF AcceptFireReset, MayReset, Receive, Enter, fireVars
  <2>5. CASE FireBoot
    BY <2>5 DEF FireBoot
  <2>6. CASE StartCountdown
    BY <2>6 DEF StartCountdown, TakeActivate, ResetCancel
  <2>7. CASE Ignite
    BY <2>7 DEF Ignite, EndCountdown
  <2>8. CASE Abort
    BY <2>8 DEF Abort, EndCountdown
  <2>9. CASE UNCHANGED launchVars
    BY <2>9 DEF launchVars
  <2> QED
    BY <2>1, <2>2, <2>3, <2>4, <2>5, <2>6, <2>7, <2>8, <2>9, LaunchFrame
<1>3. TriggerNeedsLaunch'
  <2> USE DEF LaunchInv, TriggerNeedsLaunch
  <2>1. CASE StateBoot \/ AcceptFire \/ AcceptFireEnd \/ AcceptFireReset
    BY <2>1 DEF StateBoot, AcceptFire, AcceptFireEnd, AcceptFireReset, fireVars
  <2>2. CASE FireBoot
    BY <2>2 DEF FireBoot, ReleaseTrigger
  <2>3. CASE StartCountdown
    BY <2>3 DEF StartCountdown
  <2>4. CASE Ignite
    BY <2>4 DEF Ignite, TypeOK
  <2>5. CASE Abort
    BY <2>5 DEF Abort, DriveTrigger
  <2>6. CASE UNCHANGED launchVars
    BY <2>6 DEF launchVars
  <2> QED
    BY <2>1, <2>2, <2>3, <2>4, <2>5, <2>6, LaunchFrame
<1> QED
  BY <1>1, <1>2, <1>3 DEF LaunchInv

\* The launch invariant holds in every reachable state.
THEOREM LaunchCorrect == Spec => []LaunchInv
<1>1. TypeOK /\ TypeOK' /\ LaunchInv /\ [Next]_vars => LaunchInv'
  BY LaunchStep
<1> QED
  BY LaunchInit, <1>1, TypeCorrect, PTL DEF Spec

\* An accepted FIRE drives the trigger at most once.
THEOREM IgnitionsAreGranted == Spec => []OneIgnitionPerFire
<1>1. LaunchInv => OneIgnitionPerFire
  BY DEF LaunchInv
<1> QED
  BY LaunchCorrect, <1>1, PTL

\* In FIRE the launch is requested, counting or done.
THEOREM NoLaunchIsLost == Spec => []FireNotLost
<1>1. LaunchInv => FireNotLost
  BY DEF LaunchInv
<1> QED
  BY LaunchCorrect, <1>1, PTL

\* A FIRE_END handled during a countdown stays pending until the task takes it.
THEOREM NoCancelIsLost == Spec => []CancelNotLost
<1>1. LaunchInv => CancelNotLost
  BY DEF LaunchInv
<1> QED
  BY LaunchCorrect, <1>1, PTL

\* After a restart no trigger is driven but by a launch of this boot.
THEOREM NoTriggerFromBefore == Spec => []TriggerNeedsLaunch
<1>1. LaunchInv => TriggerNeedsLaunch
  BY DEF LaunchInv
<1> QED
  BY LaunchCorrect, <1>1, PTL

\* A countdown is given up only for a FIRE_END or a new launch.
THEOREM AbortsAreAskedFor == Spec => AbortIsAskedFor
<1>1. ASSUME TypeOK, LaunchInv, [Next]_vars,
             fireTask = "counting", fireTask' = "waiting", ignitions' = ignitions
      PROVE  state # "FIRE" \/ fireActivate
  <2>1. Abort
    <3>1. CASE Ignite
      BY <1>1, <3>1 DEF Ignite, TypeOK
    <3>2. CASE StateBoot \/ AcceptFire \/ AcceptFireEnd \/ AcceptFireReset
      BY <1>1, <3>2 DEF StateBoot, AcceptFire, AcceptFireEnd, AcceptFireReset, fireVars
    <3>3. CASE FireBoot \/ StartCountdown
      BY <1>1, <3>3 DEF FireBoot, StartCountdown
    <3>4. CASE UNCHANGED launchVars
      BY <1>1, <3>4 DEF launchVars
    <3> QED
      BY <1>1, <3>1, <3>2, <3>3, <3>4, LaunchFrame
  <2> QED
    BY <1>1, <2>1 DEF Abort, LaunchInv, CancelIsAskedFor
<1>2. TypeOK /\ LaunchInv /\ [Next]_vars =>
        [fireTask = "counting" /\ fireTask' = "waiting" /\ ignitions' = ignitions
           => state # "FIRE" \/ fireActivate]_vars
  BY <1>1
<1> QED
  BY <1>2, TypeCorrect, LaunchCorrect, PTL DEF Spec, AbortIsAskedFor

(***************************************************************************)
(* The light tower.                                                        *)
(***************************************************************************)
towerVars == <<state, stateTask, light, unlit>>

\* Entering a state lights its lamps, or is known not to.
LEMMA EnterLight ==
  ASSUME NEW s \in States, Enter(s)
  PROVE  /\ state' = s
         /\ light' = LitWhen(s) \/ unlit'
<1>1. PICK lit \in BOOLEAN :
        state' = s /\ light' = (IF lit THEN LitWhen(s) ELSE light) /\ unlit' = ~lit
  BY DEF Enter
<1> QED
  BY <1>1, Zenon

\* The tower changes in these actions only.
LEMMA TowerFrame ==
  ASSUME [Next]_vars
  PROVE  \/ StateBoot
         \/ AcceptFire
         \/ AcceptFireEnd
         \/ AcceptFireReset
         \/ BuzzerComplete
         \/ UNCHANGED towerVars
<1> USE DEF towerVars, lightVars
<1>1. CASE UNCHANGED vars
  BY <1>1 DEF vars
<1>2. CASE Environment
  BY <1>2 DEF Environment, FlipSwitch, SendStateCommand, TimerExpires
<1>3. CASE StateTask
  BY <1>3 DEF StateTask, Reject, Rejected, StateSuspend, PublishArmedChange, Receive
<1>4. CASE FireTask
  BY <1>4 DEF FireTask, FireBoot, StartCountdown, Ignite, Abort
<1>5. CASE ShutterTask
  BY <1>5 DEF ShutterTask, PressShutter, ShutterTimer
<1> QED
  BY <1>1, <1>2, <1>3, <1>4, <1>5 DEF Next

\* A light that is set while the state stays: either it is, or nothing changes.
LEMMA LightSet ==
  ASSUME TypeOK, NEW lamps, SetLight(lamps)
  PROVE  \/ light' = lamps /\ unlit' = FALSE
         \/ UNCHANGED lightVars
<1>1. PICK lit \in BOOLEAN :
        light' = (IF lit THEN lamps ELSE light) /\ unlit' = (unlit /\ ~lit)
  BY DEF SetLight
<1>2. unlit' = IF lit THEN FALSE ELSE unlit
  BY <1>1, Zenon DEF TypeOK
<1> QED
  BY <1>1, <1>2 DEF lightVars

LEMMA LightStep ==
  ASSUME TypeOK, LightMatchesState, [Next]_vars
  PROVE  LightMatchesState'
<1> SUFFICES ASSUME stateTask' = "running", ~unlit'
             PROVE  light' = LitWhen(state)' \/ (state' = "FIRE" /\ light' = {"red"})
  BY DEF LightMatchesState
<1>1. CASE StateBoot
  <2>1. PICK lit \in BOOLEAN :
          light' = (IF lit THEN LitWhen("ARMED") ELSE {}) /\ unlit' = ~lit /\ state' = "ARMED"
    BY <1>1 DEF StateBoot
  <2>2. light' = LitWhen("ARMED")
    BY <2>1, Zenon
  <2> QED
    BY <2>1, <2>2
<1>2. CASE AcceptFire
  BY <1>2, EnterLight DEF AcceptFire, States
<1>3. CASE AcceptFireEnd
  BY <1>3, EnterLight DEF AcceptFireEnd, States
<1>4. CASE AcceptFireReset
  BY <1>4, EnterLight DEF AcceptFireReset, States
<1>5. CASE BuzzerComplete
  <2>1. stateTask = "running" /\ state' = state
    BY <1>5 DEF BuzzerComplete, Receive
  <2>2. CASE state = "FIRE" /\ SetLight({"red"})
    BY <2>1, <2>2, LightSet DEF lightVars, LightMatchesState
  <2>3. CASE UNCHANGED lightVars
    BY <2>1, <2>3 DEF lightVars, LightMatchesState
  <2> QED
    BY <1>5, <2>2, <2>3 DEF BuzzerComplete, MaySilence, lightVars
<1>6. CASE UNCHANGED towerVars
  BY <1>6 DEF towerVars, LightMatchesState
<1> QED
  BY <1>1, <1>2, <1>3, <1>4, <1>5, <1>6, TowerFrame

\* The tower shows the state unless its lamps could not be lit, whatever arrives late.
THEOREM LightCorrect == Spec => []LightMatchesState
<1>1. Init => LightMatchesState
  BY DEF Init, LightMatchesState
<1>2. TypeOK /\ LightMatchesState /\ [Next]_vars => LightMatchesState'
  BY LightStep
<1> QED
  BY <1>1, <1>2, TypeCorrect, PTL DEF Spec

(***************************************************************************)
(* The buzzer and the countdown it belongs to.                             *)
(***************************************************************************)

\* Neither sending a command nor receiving adds a BUZZER_COMPLETE.
LEMMA CommandAnnouncesNothing ==
  ASSUME NEW q \in Seq(Messages), NEW m \in Messages, m # "BUZZER_COMPLETE",
         Announced(Offer(q, m))
  PROVE  Announced(q)
<1>1. PICK i \in 1..Len(Offer(q, m)) : Offer(q, m)[i] = "BUZZER_COMPLETE"
  BY DEF Announced
<1>2. i \in 1..Len(q) /\ q[i] = "BUZZER_COMPLETE"
  BY <1>1 DEF Offer
<1> QED
  BY <1>2 DEF Announced

LEMMA TailAnnouncesNothing ==
  ASSUME NEW q \in Seq(Messages), q # <<>>, Announced(Tail(q))
  PROVE  Announced(q)
<1>1. PICK i \in 1..Len(Tail(q)) : Tail(q)[i] = "BUZZER_COMPLETE"
  BY DEF Announced
<1>2. i + 1 \in 1..Len(q) /\ q[i + 1] = "BUZZER_COMPLETE"
  BY <1>1
<1> QED
  BY <1>2 DEF Announced

\* But for an ignition, no step adds one.
LEMMA OnlyIgnitionAnnounces ==
  ASSUME TypeOK, [Next]_vars, ~Ignite, Announced(channel')
  PROVE  Announced(channel)
<1> USE DEF TypeOK
<1>1. CASE \E cmd \in Commands : SendStateCommand(cmd)
  <2>1. PICK cmd \in Commands : channel' = Offer(channel, cmd)
    BY <1>1 DEF SendStateCommand
  <2> QED
    BY <2>1, CommandAnnouncesNothing DEF Commands, Messages
<1>2. CASE \E msg \in Messages : Receive(msg)
  BY <1>2, TailAnnouncesNothing DEF Receive
<1>3. CASE channel' = channel
  BY <1>3
<1>4. CASE Environment
  BY <1>1, <1>3, <1>4 DEF Environment, FlipSwitch, TimerExpires
<1>5. CASE StateTask
  BY <1>2, <1>3, <1>5 DEF StateTask, StateBoot, Reject, Rejected, AcceptFire, AcceptFireEnd,
     AcceptFireReset, BuzzerComplete, PublishArmedChange, StateSuspend, Commands, Messages
<1>6. CASE FireTask
  BY <1>3, <1>6 DEF FireTask, FireBoot, StartCountdown, Abort
<1>7. CASE ShutterTask
  BY <1>3, <1>7 DEF ShutterTask, PressShutter, ShutterTimer
<1>8. CASE UNCHANGED vars
  BY <1>3, <1>8 DEF vars
<1> QED
  BY <1>4, <1>5, <1>6, <1>7, <1>8 DEF Next

LEMMA AnnouncedStep ==
  ASSUME TypeOK, TypeOK', LaunchInv, AnnouncedInTime, [Next]_vars
  PROVE  AnnouncedInTime'
<1> SUFFICES ASSUME state' = "FIRE", leftover' = FALSE
             PROVE  /\ fireTask' = "counting" => ~fireActivate'
                    /\ Announced(channel') => ignited'
  BY DEF AnnouncedInTime, TypeOK
<1> USE DEF AnnouncedInTime
<1>1. CASE AcceptFire
  BY <1>1 DEF AcceptFire
<1>2. CASE StateBoot \/ AcceptFireEnd \/ AcceptFireReset
  BY <1>2, OnlyIgnitionAnnounces DEF StateBoot, AcceptFireEnd, AcceptFireReset, Enter, fireVars,
     Ignite, Receive
<1>3. CASE FireBoot
  BY <1>3, OnlyIgnitionAnnounces DEF FireBoot, Ignite
<1>4. CASE StartCountdown
  BY <1>4, OnlyIgnitionAnnounces DEF StartCountdown, TakeActivate, Ignite
<1>5. CASE Ignite
  <2>1. /\ fireTask = "counting" /\ fireTask' = "waiting" /\ ignited' = (ignited \/ ~fireActivate)
        /\ state' = state /\ leftover' = leftover
    BY <1>5 DEF Ignite, EndCountdown
  <2>2. ~fireActivate
    BY <2>1
  <2>3. ignited'
    BY <2>1, <2>2, Zenon
  <2> QED
    BY <2>1, <2>3
<1>6. CASE Abort
  BY <1>6 DEF Abort, EndCountdown
<1>7. CASE ~Ignite /\ UNCHANGED launchVars
  BY <1>7, OnlyIgnitionAnnounces DEF launchVars
<1> QED
  BY <1>1, <1>2, <1>3, <1>4, <1>5, <1>6, <1>7, LaunchFrame

\* In a launch that nothing was left over for, only its own countdown announces its
\* end: what the design says of the buzzer rests on this.
THEOREM BuzzerIsAnnouncedInTime == Spec => []AnnouncedInTime
<1>1. Init => AnnouncedInTime
  BY DEF Init, AnnouncedInTime
<1>2. TypeOK /\ TypeOK' /\ LaunchInv /\ AnnouncedInTime /\ [Next]_vars => AnnouncedInTime'
  BY AnnouncedStep
<1> QED
  BY <1>1, <1>2, TypeCorrect, LaunchCorrect, PTL DEF Spec

(***************************************************************************)
(* Refinement.                                                             *)
(***************************************************************************)

\* The lamps of a state that has just been entered.
LEMMA EnteredLight ==
  ASSUME NEW s \in States, state' = s, light' = LitWhen(s) \/ unlit'
  PROVE  PunctualLight' = LitWhen(s)
BY DEF PunctualLight

\* Every step of the tasks is a step of the design or leaves what the design shows
\* alone.
LEMMA DesignStep ==
  ASSUME TypeOK, TypeOK', LaunchInv, AnnouncedInTime, [Next]_vars
  PROVE  [Design!Next]_(Design!vars)
<1> USE DEF Design!Next, Design!vars
<1>1. CASE StateBoot
  <2>1. UNCHANGED <<launches, ignitions, ignited, leftover>>
    BY <1>1 DEF StateBoot, fireVars
  <2>2. CASE stateTask' = "stopped"
    BY <1>1, <2>1, <2>2 DEF StateBoot, lightVars, PunctualLight
  <2>3. CASE stateTask' = "running"
    <3>1. PICK lit \in BOOLEAN :
            light' = (IF lit THEN LitWhen("ARMED") ELSE {}) /\ unlit' = ~lit
      BY <1>1, <2>3 DEF StateBoot
    <3>2. light' = LitWhen("ARMED") \/ unlit'
      BY <3>1, Zenon
    <3>3. state = "ARMED" /\ state' = "ARMED"
      BY <1>1, <2>3 DEF StateBoot, LaunchInv, ArmedUntilRunning
    <3>4. PunctualLight' = {"green"}
      BY <3>2, <3>3, EnteredLight DEF LitWhen, States
    <3> QED
      BY <2>1, <3>3, <3>4 DEF Design!ShowArmed
  <2> QED
    BY <1>1, <2>2, <2>3 DEF StateBoot
<1>2. CASE AcceptFire
  <2>1. state' = "FIRE" /\ PunctualLight' = {"red", "buzzer"}
    BY <1>2, EnterLight, EnteredLight DEF AcceptFire, States, LitWhen
  <2> QED
    BY <1>2, <2>1 DEF AcceptFire, Design!Fire
<1>3. CASE AcceptFireEnd
  <2>1. state' = "POSTFIRE" /\ PunctualLight' = {"green", "red"}
    BY <1>3, EnterLight, EnteredLight DEF AcceptFireEnd, States, LitWhen
  <2> QED
    BY <1>3, <2>1 DEF AcceptFireEnd, Design!FireEnd
<1>4. CASE AcceptFireReset
  <2>1. state' = "ARMED" /\ PunctualLight' = {"green"}
    BY <1>4, EnterLight, EnteredLight DEF AcceptFireReset, States, LitWhen
  <2> QED
    BY <1>4, <2>1 DEF AcceptFireReset, MayReset, fireVars, Design!FireReset
<1>5. CASE BuzzerComplete
  <2>1. UNCHANGED <<state, launches, ignitions, ignited, leftover>>
    BY <1>5 DEF BuzzerComplete, fireVars
  <2>2. CASE state = "FIRE" /\ ~leftover
    <3>1. Announced(channel)
      BY <1>5 DEF BuzzerComplete, Receive, Announced, TypeOK
    <3>2. ignited
      BY <2>2, <3>1 DEF AnnouncedInTime
    <3>3. (light' = {"red"} /\ unlit' = FALSE) \/ UNCHANGED lightVars
      BY <1>5, <2>2, LightSet DEF BuzzerComplete, MaySilence
    <3>4. PunctualLight' = {"red"} \/ PunctualLight' = PunctualLight
      BY <2>1, <2>2, <3>3 DEF PunctualLight, lightVars
    <3> QED
      BY <2>1, <2>2, <3>2, <3>4 DEF Design!SilenceBuzzer
  <2>3. CASE state = "FIRE" /\ leftover
    BY <2>1, <2>3 DEF PunctualLight
  <2>4. CASE state # "FIRE"
    BY <1>5, <2>1, <2>4 DEF BuzzerComplete, MaySilence, PunctualLight, lightVars
  <2> QED
    BY <2>2, <2>3, <2>4
<1>6. CASE Ignite
  <2>1. ignitions < launches
    BY <1>6 DEF Ignite, LaunchInv, OneIgnitionPerFire, One, TypeOK
  <2>2. ignited' = TRUE \/ ignited' = ignited
    <3>1. ignited' = (ignited \/ ~fireActivate)
      BY <1>6 DEF Ignite
    <3> QED
      BY <3>1, Zenon DEF TypeOK
  <2>3. PunctualLight' = PunctualLight
    BY <1>6 DEF Ignite, PunctualLight, lightVars
  <2> QED
    BY <1>6, <2>1, <2>2, <2>3 DEF Ignite, Design!Ignite
<1>7. CASE FireBoot \/ StartCountdown \/ Abort
  <2>1. UNCHANGED <<state, light, unlit, leftover, launches, ignitions, ignited>>
    BY <1>7 DEF FireBoot, StartCountdown, Abort, lightVars
  <2> QED
    BY <2>1 DEF PunctualLight
<1>8. CASE UNCHANGED launchVars /\ UNCHANGED towerVars
  BY <1>8 DEF launchVars, towerVars, PunctualLight
<1>9. \/ StateBoot \/ AcceptFire \/ AcceptFireEnd \/ AcceptFireReset
      \/ BuzzerComplete \/ Ignite \/ FireBoot \/ StartCountdown \/ Abort
      \/ (UNCHANGED launchVars /\ UNCHANGED towerVars)
  BY LaunchFrame, TowerFrame
<1> QED
  BY <1>1, <1>2, <1>3, <1>4, <1>5, <1>6, <1>7, <1>8, <1>9

\* Whatever transfers fail, the sequencer implements the design.
THEOREM SequencerImplementsDesign == Spec => ImplementsDesign
<1>1. Init => Design!Init
  BY LitWhenType DEF Init, Design!Init, Lamps, PunctualLight
<1>2. TypeOK /\ TypeOK' /\ LaunchInv /\ AnnouncedInTime /\ [Next]_vars
        => [Design!Next]_(Design!vars)
  BY DesignStep
<1> QED
  BY <1>1, <1>2, TypeCorrect, LaunchCorrect, BuzzerIsAnnouncedInTime, PTL
     DEF Spec, ImplementsDesign, Design!Spec

(***************************************************************************)
(* The safety switch.                                                      *)
(***************************************************************************)

\* Every step either keeps the switch, its edge and its stored value together or
\* records that they may differ.
LEMMA ArmedStep ==
  ASSUME TypeOK, ArmedValueFresh, [Next]_vars
  PROVE  ArmedValueFresh'
<1> USE DEF ArmedValueFresh
<1>1. CASE FlipSwitch
  BY <1>1, Zenon DEF FlipSwitch
<1>2. CASE \E msg \in Messages : Receive(msg)
  BY <1>2, Zenon DEF Receive
<1>3. CASE PublishArmedChange
  BY <1>3, Zenon DEF PublishArmedChange, StoreLevel
<1>4. CASE UNCHANGED armedVars
  BY <1>4, Zenon DEF armedVars
<1>5. FlipSwitch \/ PublishArmedChange \/ UNCHANGED armedVars
      \/ \E msg \in Messages : Receive(msg)
  <2>1. CASE UNCHANGED vars
    BY <2>1 DEF vars
  <2>2. CASE Environment
    BY <2>2 DEF Environment, SendStateCommand, TimerExpires
  <2>3. CASE StateTask
    BY <2>3 DEF StateTask, StateBoot, Reject, Rejected, AcceptFire, AcceptFireEnd,
                AcceptFireReset, BuzzerComplete, StateSuspend, Messages, Commands
  <2>4. CASE FireTask
    BY <2>4 DEF FireTask, FireBoot, StartCountdown, Ignite, Abort
  <2>5. CASE ShutterTask
    BY <2>5 DEF ShutterTask, PressShutter, ShutterTimer
  <2> QED
    BY <2>1, <2>2, <2>3, <2>4, <2>5 DEF Next
<1> QED
  BY <1>1, <1>2, <1>3, <1>4, <1>5

\* LAST_ARMED_VALUE is the level of the switch unless an edge waits or was missed.
THEOREM ArmedValueCorrect == Spec => []ArmedValueFresh
<1>1. Init => ArmedValueFresh
  BY Zenon DEF Init, ArmedValueFresh
<1>2. TypeOK /\ ArmedValueFresh /\ [Next]_vars => ArmedValueFresh'
  BY ArmedStep
<1> QED
  BY <1>1, <1>2, TypeCorrect, PTL DEF Spec

(***************************************************************************)
(* What ServoController assumes of the sequencer.                          *)
(***************************************************************************)

\* The steps CURRENT_STATE may take.
StateCycle ==
  \/ state = "ARMED" /\ state' = "FIRE"
  \/ state = "FIRE" /\ state' = "POSTFIRE"
  \/ state = "POSTFIRE" /\ state' = "ARMED"

\* CURRENT_STATE goes round ARMED, FIRE and POSTFIRE and takes no other way, for
\* transition_state (sequencer.rs:97) is called in these three places only, and
\* failing calls change nothing about it: the servo's EnterFire and LeaveFire are
\* all the sequencer can do to it.
THEOREM StatesCycle == Spec => [][StateCycle]_state
<1>1. ASSUME TypeOK, LaunchInv, [Next]_vars, state' # state PROVE StateCycle
  <2>1. CASE StateBoot
    BY <1>1, <2>1 DEF StateBoot, LaunchInv, ArmedUntilRunning
  <2>2. CASE AcceptFire
    BY <2>2 DEF AcceptFire, Enter, StateCycle
  <2>3. CASE AcceptFireEnd
    BY <2>3 DEF AcceptFireEnd, Enter, StateCycle
  <2>4. CASE AcceptFireReset
    BY <2>4 DEF AcceptFireReset, MayReset, Enter, StateCycle
  <2>5. CASE UNCHANGED launchVars
    BY <1>1, <2>5 DEF launchVars
  <2>6. CASE FireBoot \/ StartCountdown \/ Ignite \/ Abort
    BY <1>1, <2>6 DEF FireBoot, StartCountdown, Ignite, Abort
  <2> QED
    BY <1>1, <2>1, <2>2, <2>3, <2>4, <2>5, <2>6, LaunchFrame
<1>2. TypeOK /\ LaunchInv /\ [Next]_vars => [StateCycle]_state
  BY <1>1
<1> QED
  BY <1>2, TypeCorrect, LaunchCorrect, PTL DEF Spec
=============================================================================
