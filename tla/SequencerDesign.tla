--------------------------- MODULE SequencerDesign ---------------------------
(***************************************************************************)
(* What the sequencer promises to whoever watches the light tower, the     *)
(* state topic and the trigger: the three-state machine of ARMED, FIRE and *)
(* POSTFIRE, the lamps that go with it, the buzzer that sounds until the   *)
(* countdown of its launch is over, and no ignition without a launch that  *)
(* asked for it.  Tasks, channels, signals and timers are absent.          *)
(***************************************************************************)
EXTENDS Naturals

VARIABLES
  state,      \* ARMED, FIRE or POSTFIRE
  light,      \* the lamps lit on the tower
  launches,   \* launches granted
  ignitions,  \* times the trigger was driven
  over        \* the countdown of the last launch granted has run out

vars == <<state, light, launches, ignitions, over>>

\* After a restart the tower may still show anything.
Init ==
  /\ state = "ARMED"
  /\ light \in SUBSET {"green", "red", "buzzer"}
  /\ launches = 0
  /\ ignitions = 0
  /\ over = FALSE

\* The tower is set up; the sequencer has not left ARMED yet.
ShowArmed ==
  /\ state = "ARMED"
  /\ light' = {"green"}
  /\ UNCHANGED <<state, launches, ignitions, over>>

Fire ==
  /\ state = "ARMED"
  /\ state' = "FIRE"
  /\ light' = {"red", "buzzer"}
  /\ launches' = launches + 1
  /\ over' = FALSE
  /\ UNCHANGED ignitions

\* "buzzer + red (3s), then red only": the buzzer falls silent while the state is
\* FIRE, once the countdown of this launch is over.
SilenceBuzzer ==
  /\ state = "FIRE"
  /\ over
  /\ light' = {"red"}
  /\ UNCHANGED <<state, launches, ignitions, over>>

FireEnd ==
  /\ state = "FIRE"
  /\ state' = "POSTFIRE"
  /\ light' = {"green", "red"}
  /\ UNCHANGED <<launches, ignitions, over>>

FireReset ==
  /\ state = "POSTFIRE"
  /\ state' = "ARMED"
  /\ light' = {"green"}
  /\ UNCHANGED <<launches, ignitions, over>>

\* Every ignition uses up a launch, the last one granted or one before it.
Ignite ==
  /\ ignitions < launches
  /\ ignitions' = ignitions + 1
  /\ over' = TRUE \/ UNCHANGED over
  /\ UNCHANGED <<state, light, launches>>

Next ==
  \/ ShowArmed
  \/ Fire
  \/ SilenceBuzzer
  \/ FireEnd
  \/ FireReset
  \/ Ignite

Spec == Init /\ [][Next]_vars
=============================================================================
