--------------------------- MODULE RailClockProofs ---------------------------
(***************************************************************************)
(* The rail clock loses at most one pulse after each start, drives its     *)
(* movement only with the converter on, and leaves no alarm unserved that  *)
(* it could hear, whatever the SRAM held and for every number of pushes,   *)
(* failing transfers and restarts.                                         *)
(***************************************************************************)
EXTENDS RailClock, TLAPS

-----------------------------------------------------------------------------
(* The outputs. *)

LEMMA FlipType == \A p \in Phases : Flip(p) \in Phases
  BY DEF Phases, Flip

LEMMA FlipReverses == Flip(1) = 2 /\ Flip(2) = 1
  BY DEF Flip

LEMMA OutputsDrive == \A p \in {1, 2} : p % 4 = p /\ Polarised(p)
  BY DEF Polarised

LEMMA NormaliseType == \A p \in Phases : Normalise(p) \in Phases
  BY DEF Phases, Normalise

LEMMA NormalisePolarises == \A p \in 0..3 : Normalise(p) \in {1, 2}
  BY DEF Normalise

LEMMA StoredIsPhase == StoredPhases \subseteq Phases
  BY RailClockAssumption

LEMMA BoundsAreNat == StoredLags \subseteq Nat /\ MaxFailures \in Nat
  BY RailClockAssumption

-----------------------------------------------------------------------------
(* Type correctness. *)

LEMMA InitType == Init => TypeOK
<1> SUFFICES ASSUME Init
             PROVE  TypeOK
  OBVIOUS
<1>1. {flag, expander, boost, edge, rtcInt, masked} \subseteq BOOLEAN
  BY Zenon DEF Init
<1>2. sram \in StoredPhases /\ hand \in {1, 2} /\ pin \in Phases
  BY DEF Init, Phases
<1>3. failures \in 0..MaxFailures
  BY BoundsAreNat DEF Init
<1> QED
  BY <1>1, <1>2, <1>3 DEF Init, TypeOK

LEMMA TransferType ==
  ASSUME TypeOK, NEW ok \in BOOLEAN, Transfer(ok)
  PROVE  failures' \in 0..MaxFailures
  BY BoundsAreNat DEF TypeOK, Transfer

LEMMA NextType == TypeOK /\ [Next]_vars => TypeOK'
<1> SUFFICES ASSUME TypeOK, [Next]_vars
             PROVE  TypeOK'
  OBVIOUS
<1> USE DEF TypeOK, rtcVars, lineVars, pulseVars, clockVars
<1>1. CASE Restart
  <2>1. {flag, expander, boost, edge, rtcInt, masked}' \subseteq BOOLEAN
    BY <1>1, Zenon DEF Restart
  <2>2. (pin \in Phases)'
    BY <1>1 DEF Restart, Phases
  <2> QED
    BY <1>1, <2>1, <2>2 DEF Restart
<1>2. CASE AlarmMatches \/ ExpanderPulls \/ PowerReads
  BY <1>2 DEF AlarmMatches, ExpanderPulls, PowerReads, Pull, LineLow
<1>3. CASE IntTask
  BY <1>3 DEF IntTask, IntStarts, IntFires, Checked, IntSignals, SignalRtc
<1>4. CASE TickTask
  <2>1. CASE SetAlarm
    BY <1>4, <2>1, TransferType DEF SetAlarm, TickFrame
  <2>2. CASE EnableAlarm
    BY <1>4, <2>2, TransferType DEF EnableAlarm, TickFrame
  <2>3. CASE TickWakes
    BY <1>4, <2>3 DEF TickWakes
  <2>4. CASE HasAlarmMatched
    BY <1>4, <2>4, TransferType DEF HasAlarmMatched, TickFrame
  <2>5. CASE ClearAlarm
    BY <1>4, <2>5, TransferType DEF ClearAlarm, TickFrame, Push
  <2> QED
    BY <1>4, <2>1, <2>2, <2>3, <2>4, <2>5 DEF TickTask
<1>5. CASE Press
  BY <1>5 DEF Press, Push
<1>6. CASE ClockTask
  <2> USE DEF ClockFrame
  <2>1. CASE ReadState
    <3>1. pin' \in Phases
      BY <2>1, NormaliseType, StoredIsPhase DEF ReadState, Phases
    <3> QED
      BY <2>1, <3>1, TransferType DEF ReadState
  <2>2. CASE Acquire \/ CatchUp
    <3>1. CASE Acquire
      BY <3>1 DEF Acquire, TakeAll
    <3>2. CASE CatchUp
      <4>1. permits' \in Nat /\ pushes' \in Nat
        BY <3>2, BoundsAreNat DEF CatchUp, Push
      <4> QED
        BY <3>2, <4>1, TransferType DEF CatchUp
    <3> QED
      BY <2>2, <3>1, <3>2
  <2>3. CASE BoostOn \/ BoostOff
    BY <2>3 DEF BoostOn, BoostOff, SetBoost
  <2>4. CASE Pulse
    <3>1. pin' \in Phases
      BY <2>4, FlipType DEF Pulse
    <3>2. hand' \in {1, 2}
      BY <2>4 DEF Pulse, Polarised
    <3>3. stuck' \in Nat
      BY <2>4 DEF Pulse
    <3> QED
      BY <2>4, <3>1, <3>2, <3>3 DEF Pulse
  <2>5. CASE ReadTime
    BY <2>5, TransferType DEF ReadTime
  <2>6. CASE WriteState
    BY <2>6, TransferType DEF WriteState
  <2> QED
    BY <1>6, <2>1, <2>2, <2>3, <2>4, <2>5, <2>6 DEF ClockTask
<1>7. CASE Shutdown \/ StopBoost \/ Sleep
  BY <1>7 DEF Shutdown, StopBoost, Sleep, SetBoost
<1>8. CASE UNCHANGED vars
  BY <1>8 DEF vars
<1> QED
  BY <1>1, <1>2, <1>3, <1>4, <1>5, <1>6, <1>7, <1>8 DEF Next

\* Every variable keeps to its type, for every bound and whatever the SRAM held.
THEOREM TypeCorrect == Spec => []TypeOK
  BY InitType, NextType, PTL DEF Spec

-----------------------------------------------------------------------------
(* The pulses. *)

LEMMA InitPulses == Init => PulseInv
  BY DEF Init, PulseInv

LEMMA NextPulses == TypeOK /\ PulseInv /\ [Next]_vars => PulseInv'
<1> SUFFICES ASSUME TypeOK, PulseInv, [Next]_vars
             PROVE  PulseInv'
  OBVIOUS
<1> USE DEF PulseInv, rtcVars, lineVars, pulseVars, clockVars
<1>1. CASE Restart
  BY <1>1 DEF Restart
<1>2. CASE AlarmMatches \/ ExpanderPulls \/ PowerReads
  BY <1>2 DEF AlarmMatches, ExpanderPulls, PowerReads
<1>3. CASE IntTask
  BY <1>3 DEF IntTask, IntStarts, IntFires, Checked, IntSignals
<1>4. CASE TickTask
  BY <1>4 DEF TickTask, SetAlarm, EnableAlarm, TickWakes, HasAlarmMatched, ClearAlarm,
              TickFrame, Up
<1>5. CASE Press
  BY <1>5 DEF Press
<1>6. CASE ClockTask
  <2> USE DEF ClockFrame
  <2>1. CASE ReadState
    <3>1. sram <= 3 => pin' \in {1, 2}
      BY <2>1, NormalisePolarises, StoredIsPhase DEF ReadState, Phases, TypeOK
    <3> QED
      BY <2>1, <3>1 DEF ReadState
  <2>2. CASE CatchUp \/ Acquire \/ ReadTime \/ WriteState
    BY <2>2 DEF CatchUp, Acquire, ReadTime, WriteState
  <2>3. CASE BoostOn \/ BoostOff
    BY <2>3 DEF BoostOn, BoostOff, SetBoost
  <2>4. CASE Pulse
    <3>1. pulses' > 0
      BY <2>4 DEF Pulse, TypeOK
    <3>2. ASSUME main = "running", sram <= 3
          PROVE  pin' \in {1, 2} /\ pin' = hand' /\ stuck' <= 1
      <4>1. boost /\ pin \in {1, 2} /\ pin' = Flip(pin)
        BY <2>4, <3>2 DEF Pulse
      <4>2. pin' \in {1, 2} /\ pin' # pin
        BY <4>1, FlipReverses
      <4>3. pin' % 4 = pin' /\ Polarised(pin')
        BY <4>2, OutputsDrive
      <4>4. CASE hand = pin
        <5>1. pin' % 4 # hand
          BY <4>2, <4>3, <4>4
        <5> QED
          BY <2>4, <3>2, <4>1, <4>2, <4>3, <5>1 DEF Pulse
      <4>5. CASE hand # pin
        <5>1. pulses = 0 /\ stuck = 0
          BY <2>4, <3>2, <4>5 DEF Pulse, TypeOK
        <5>2. hand = pin'
          BY <4>1, <4>2, <4>5 DEF TypeOK
        <5> QED
          BY <2>4, <4>1, <4>2, <4>3, <5>1, <5>2 DEF Pulse
      <4> QED
        BY <4>4, <4>5
    <3> QED
      BY <2>4, <3>1, <3>2 DEF Pulse
  <2> QED
    BY <1>6, <2>1, <2>2, <2>3, <2>4 DEF ClockTask
<1>7. CASE Shutdown \/ StopBoost \/ Sleep
  BY <1>7 DEF Shutdown, StopBoost, Sleep
<1>8. CASE UNCHANGED vars
  BY <1>8 DEF vars
<1> QED
  BY <1>1, <1>2, <1>3, <1>4, <1>5, <1>6, <1>7, <1>8 DEF Next

LEMMA PulsesCorrect == Spec => []PulseInv
  BY InitType, NextType, InitPulses, NextPulses, PTL DEF Spec

\* Until it is shut down, the clock loses at most one minute for each start.
THEOREM OnePulseCorrect == Spec => []OnePulseIsLost
<1>1. PulseInv => OnePulseIsLost
  BY DEF PulseInv, OnePulseIsLost
<1> QED
  BY <1>1, PulsesCorrect, PTL

LEMMA NextPowered ==
  TypeOK /\ PulseInv /\ [Next]_vars => [pulses' > pulses => boost \/ main # "running"]_vars
<1> SUFFICES ASSUME TypeOK, PulseInv, Next, pulses' > pulses
             PROVE  boost \/ main # "running"
  OBVIOUS
<1>0. pulses' # pulses /\ pulses \in Nat
  BY DEF TypeOK
<1> USE <1>0 DEF rtcVars, lineVars, pulseVars, clockVars
<1>1. CASE Pulse
  BY <1>1 DEF Pulse, PulseInv
<1>2. CASE Restart
  BY <1>2 DEF Restart
<1>3. CASE TickTask
  BY <1>3 DEF TickTask, SetAlarm, EnableAlarm, TickWakes, HasAlarmMatched, ClearAlarm,
              TickFrame
<1>4. CASE ReadState \/ CatchUp \/ Acquire \/ BoostOn \/ BoostOff \/ ReadTime \/ WriteState
  BY <1>4 DEF ReadState, CatchUp, Acquire, BoostOn, BoostOff, ReadTime, WriteState, ClockFrame
<1>5. CASE IntTask \/ Press
  BY <1>5 DEF IntTask, IntStarts, IntFires, Checked, IntSignals, Press
<1>6. CASE AlarmMatches \/ ExpanderPulls \/ PowerReads \/ Shutdown \/ StopBoost \/ Sleep
  BY <1>6 DEF AlarmMatches, ExpanderPulls, PowerReads, Shutdown, StopBoost, Sleep
<1> QED
  BY <1>1, <1>2, <1>3, <1>4, <1>5, <1>6 DEF Next, ClockTask

\* The movement gets its pulses with the converter on until main turns it off.
THEOREM PulsesHavePower == Spec => PulsesArePowered
  BY TypeCorrect, PulsesCorrect, NextPowered, PTL DEF Spec, PulsesArePowered

-----------------------------------------------------------------------------
(* The alarms. *)

LEMMA InitAlarm == Init => AlarmInv
  BY DEF Init, AlarmInv

LEMMA NextAlarm == TypeOK /\ AlarmInv /\ [Next]_vars => AlarmInv'
<1> SUFFICES ASSUME TypeOK, AlarmInv, [Next]_vars
             PROVE  AlarmInv'
  OBVIOUS
<1> USE DEF AlarmInv, TypeOK, rtcVars, lineVars, pulseVars, clockVars
<1>1. CASE Restart
  BY <1>1 DEF Restart
<1>2. CASE AlarmMatches
  BY <1>2, Zenon DEF AlarmMatches, Pull, LineLow
<1>3. CASE ExpanderPulls \/ PowerReads
  BY <1>3 DEF ExpanderPulls, PowerReads, Pull, LineLow
<1>4. CASE IntTask
  <2>1. flag' = flag
    BY <1>4 DEF IntTask, IntStarts, IntFires, Checked, IntSignals
  <2>2. CASE IntStarts
    <3>1. masked' = flag
      BY <2>2 DEF IntStarts
    <3>2. flag' => masked'
      BY <2>1, <3>1, Zenon
    <3> QED
      BY <3>2
  <2>3. CASE IntFires \/ Checked
    <3>1. interrupt' # "listening"
      BY <2>3 DEF IntFires, Checked
    <3> QED
      BY <3>1
  <2>4. CASE IntSignals
    <3>1. rtcInt'
      BY <2>4, Zenon DEF IntSignals, SignalRtc
    <3> QED
      BY <3>1
  <2> QED
    BY <1>4, <2>2, <2>3, <2>4 DEF IntTask
<1>5. CASE TickTask
  <2>1. ASSUME NEW ok \in BOOLEAN, Transfer(ok), failures' = 0
        PROVE  ok /\ failures = 0
    BY <2>1 DEF Transfer
  <2>2. CASE SetAlarm
    BY <2>1, <2>2 DEF SetAlarm, TickFrame
  <2>3. CASE EnableAlarm
    BY <2>1, <2>3 DEF EnableAlarm, TickFrame
  <2>4. CASE TickWakes
    BY <2>4 DEF TickWakes
  <2>5. CASE HasAlarmMatched
    BY <2>1, <2>5 DEF HasAlarmMatched, TickFrame
  <2>6. CASE ClearAlarm
    BY <2>1, <2>6 DEF ClearAlarm, TickFrame
  <2> QED
    BY <1>5, <2>2, <2>3, <2>4, <2>5, <2>6 DEF TickTask
<1>6. CASE Press
  BY <1>6 DEF Press
<1>7. CASE ClockTask
  <2>1. failures' = 0 => failures = 0
    <3>1. ASSUME NEW ok \in BOOLEAN, Transfer(ok), failures' = 0
          PROVE  failures = 0
      BY <3>1 DEF Transfer
    <3> QED
      BY <1>7, <3>1 DEF ClockTask, ReadState, CatchUp, Acquire, BoostOn, Pulse, BoostOff,
                        ReadTime, WriteState
  <2>2. UNCHANGED <<flag, masked, interrupt, edge, rtcInt, tick>>
    BY <1>7 DEF ClockTask, ReadState, CatchUp, Acquire, BoostOn, Pulse, BoostOff, ReadTime,
                WriteState, ClockFrame
  <2> QED
    BY <2>1, <2>2
<1>8. CASE Shutdown \/ StopBoost \/ Sleep
  BY <1>8 DEF Shutdown, StopBoost, Sleep
<1>9. CASE UNCHANGED vars
  BY <1>9 DEF vars
<1> QED
  BY <1>1, <1>2, <1>3, <1>4, <1>5, <1>6, <1>7, <1>8, <1>9 DEF Next

LEMMA AlarmsCorrect == Spec => []AlarmInv
  BY InitType, NextType, InitAlarm, NextAlarm, PTL DEF Spec

\* No alarm that could be heard is left unserved when everybody waits for the next.
THEOREM AlarmsGetServed == Spec => []AlarmsAreServed
<1>1. AlarmInv => AlarmsAreServed
  BY DEF AlarmInv, AlarmsAreServed, Quiet
<1> QED
  BY <1>1, AlarmsCorrect, PTL

-----------------------------------------------------------------------------
(* The pushes. *)

LEMMA InitPushes == Init => PushesAreAccounted
  BY DEF Init, PushesAreAccounted

LEMMA NextPushes == TypeOK /\ PushesAreAccounted /\ [Next]_vars => PushesAreAccounted'
<1> SUFFICES ASSUME TypeOK, PushesAreAccounted, [Next]_vars
             PROVE  PushesAreAccounted'
  OBVIOUS
<1> USE DEF PushesAreAccounted, pulseVars, clockVars
<1>0. {permits, left, pushes, pulses} \subseteq Nat
  BY DEF TypeOK
<1>1. CASE Restart
  BY <1>1 DEF Restart
<1>2. CASE AlarmMatches \/ ExpanderPulls \/ PowerReads \/ IntTask
  BY <1>2 DEF AlarmMatches, ExpanderPulls, PowerReads, IntTask, IntStarts, IntFires, Checked,
              IntSignals
<1>3. CASE SetAlarm \/ EnableAlarm \/ TickWakes \/ HasAlarmMatched
  BY <1>3 DEF SetAlarm, EnableAlarm, TickWakes, HasAlarmMatched, TickFrame
<1>4. CASE ClearAlarm \/ Press
  BY <1>0, <1>4 DEF ClearAlarm, Press, Push, TickFrame
<1>5. CASE ReadState \/ BoostOn \/ BoostOff \/ ReadTime \/ WriteState
  BY <1>5 DEF ReadState, BoostOn, BoostOff, ReadTime, WriteState, ClockFrame
<1>6. CASE CatchUp
  <2>1. PICK n \in StoredLags : Push(n)
    BY <1>6 DEF CatchUp
  <2>2. n \in Nat
    BY BoundsAreNat
  <2> QED
    BY <1>0, <1>6, <2>1, <2>2 DEF CatchUp, Push
<1>7. CASE Acquire
  BY <1>0, <1>7 DEF Acquire, TakeAll
<1>8. CASE Pulse
  BY <1>0, <1>8 DEF Pulse, ClockFrame
<1>9. CASE Shutdown \/ StopBoost \/ Sleep
  BY <1>9 DEF Shutdown, StopBoost, Sleep
<1>10. CASE UNCHANGED vars
  BY <1>10 DEF vars
<1> QED
  BY <1>1, <1>2, <1>3, <1>4, <1>5, <1>6, <1>7, <1>8, <1>9, <1>10
     DEF Next, TickTask, ClockTask

LEMMA PushesCorrect == Spec => []PushesAreAccounted
  BY InitType, NextType, InitPushes, NextPushes, PTL DEF Spec

\* A push is never lost: while there is one that no pulse was made for, clock_task
\* holds it or finds a permit, so that it never waits in vain.  That the pulse then
\* comes is a matter of fairness.
THEOREM PushesAreKept == Spec => []NoPushIsForgotten
<1>1. TypeOK /\ PushesAreAccounted => NoPushIsForgotten
  BY DEF TypeOK, PushesAreAccounted, NoPushIsForgotten
<1> QED
  BY <1>1, TypeCorrect, PushesCorrect, PTL
=============================================================================
