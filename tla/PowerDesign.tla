----------------------------- MODULE PowerDesign -----------------------------
(***************************************************************************)
(* What the power controller promises to the supply, the battery and the   *)
(* load, whoever asks it and whatever transfer fails: the charger takes up *)
(* a mode only when the VBUS switch is set for it, the board sources VBUS  *)
(* only after it saw nobody else do so, and the battery is given up only   *)
(* in charging mode and as the last thing.  Requests, tasks, INT, timers   *)
(* and failures are absent.                                                *)
(***************************************************************************)

VARIABLES
  supply,    \* somebody supplies VBUS
  noticed,   \* the supply as it was last looked at
  switch,    \* the mode the VBUS switch is set for
  charger,   \* the mode the charger is in
  mode,      \* the mode that is remembered
  battery,   \* the battery is connected
  boost,     \* the boost converter is on
  up         \* the controller has been set up

vars == <<supply, noticed, switch, charger, mode, battery, boost, up>>

Modes == {"Passive", "Charging", "Otg"}

\* A restart finds switch and charger as they were left.
Init ==
  /\ supply \in BOOLEAN
  /\ noticed = FALSE
  /\ switch \in Modes
  /\ charger \in Modes
  /\ mode = "Passive"
  /\ battery = TRUE
  /\ boost = FALSE
  /\ up = FALSE

Plug ==
  /\ supply' = ~supply
  /\ UNCHANGED <<noticed, switch, charger, mode, battery, boost, up>>

\* Setting up sets the switch for the passive mode before anything else, and may fail
\* at any point.
SetUp ==
  /\ ~up
  /\ switch' \in {switch, "Passive"}
  /\ up' \in BOOLEAN
  /\ up' => switch' = "Passive"
  /\ boost' = FALSE
  /\ UNCHANGED <<supply, noticed, charger, mode, battery>>

Look ==
  /\ up
  /\ noticed' = supply
  /\ UNCHANGED <<supply, switch, charger, mode, battery, boost, up>>

\* The first half of a change of mode, which may be all of it.
Isolate ==
  /\ up
  /\ battery
  /\ switch' \in Modes
  /\ switch' = "Otg" => ~noticed
  /\ UNCHANGED <<supply, noticed, charger, mode, battery, boost, up>>

\* The second half: charger and memory follow the switch, and nothing but the switch.
Follow ==
  /\ up
  /\ battery
  /\ charger' = switch
  /\ mode' = switch
  /\ UNCHANGED <<supply, noticed, switch, battery, boost, up>>

SwitchBoost ==
  /\ up
  /\ battery
  /\ boost' \in BOOLEAN
  /\ UNCHANGED <<supply, noticed, switch, charger, mode, battery, up>>

\* Nothing is enabled after this but to look.
Disconnect ==
  /\ up
  /\ {switch, charger, mode} = {"Charging"}
  /\ battery' = FALSE
  /\ UNCHANGED <<supply, noticed, switch, charger, mode, boost, up>>

Next ==
  \/ Plug
  \/ SetUp
  \/ Look
  \/ Isolate
  \/ Follow
  \/ SwitchBoost
  \/ Disconnect

Spec == Init /\ [][Next]_vars
=============================================================================
