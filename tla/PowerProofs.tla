----------------------------- MODULE PowerProofs -----------------------------
(***************************************************************************)
(* switch_mode keeps the expander, the charger and the remembered mode in  *)
(* step, and never lets the charger source VBUS through a closed switch,   *)
(* for every number of callers' requests, failures and channel capacity.   *)
(***************************************************************************)
EXTENDS PowerController, TLAPS

-----------------------------------------------------------------------------
(* What the steps of the callers leave alone. *)

switchVars == <<task, initialised, mode, reading, target, published, commanded, torn,
                boostBy, pins, charger, batfet, boost, serving, failures>>

LEMMA ClientSteps ==
  ASSUME FlipVbus \/ OtherInterrupt \/ MainTask \/ Shutdown \/ IntTask
         \/ AppTask \/ AppCalls \/ Asleep
  PROVE  UNCHANGED switchVars
<1> USE DEF switchVars, chipVars, taskVars, callVars, ClientFrame
<1>1. ASSUME NEW c \in PowerClients, TransactStep(c)
      PROVE  UNCHANGED switchVars
  BY <1>1 DEF TransactStep, LockAndSend, WaitForMutex, Calls!Lock, Calls!SendRequest
<1>2. CASE FlipVbus \/ OtherInterrupt \/ Asleep
  BY <1>2 DEF FlipVbus, OtherInterrupt, Asleep, vars
<1>3. CASE MainTask \/ Shutdown
  BY <1>1, <1>3 DEF MainTask, Shutdown, MainBoots, MainRuns, BoostIsOff, ShipBoard,
                    Sleep, MainCalls, MainReturns, Calls!Call, Calls!RecvResponse,
                    PowerClients
<1>4. CASE IntTask
  BY <1>1, <1>4 DEF IntTask, IntStarts, IntCalls, IntListens, Calls!Call,
                    Calls!RecvResponse, PowerClients
<1>5. CASE AppTask \/ AppCalls
  BY <1>1, <1>5 DEF AppTask, AppCalls, AppReturns, Calls!Call, Calls!RecvResponse,
                    PowerClients
<1> QED
  BY <1>2, <1>3, <1>4, <1>5

-----------------------------------------------------------------------------
(* The invariant. *)

LEMMA InitSwitch == Init => SwitchInv
  BY DEF Init, SwitchInv, Calls!CallInit

LEMMA NextSwitch == SwitchInv /\ [Next]_vars => SwitchInv'
<1> SUFFICES ASSUME SwitchInv, [Next]_vars
             PROVE  SwitchInv'
  OBVIOUS
<1> USE DEF SwitchInv
<1>1. ASSUME UNCHANGED switchVars
      PROVE  SwitchInv'
  BY <1>1 DEF switchVars
<1>2. CASE Boot
  BY <1>2 DEF Boot, callVars
<1>3. CASE ReadStats
  BY <1>3 DEF ReadStats, callVars, chipVars
<1>4. CASE ReadStatsFails
  BY <1>4 DEF ReadStatsFails, callVars, chipVars
<1>5. CASE PowerTimer
  BY <1>5 DEF PowerTimer, callVars, chipVars
<1>6. CASE Receive
  BY <1>6 DEF Receive, Calls!RecvRequest, chipVars
<1>7. ASSUME NEW level \in BOOLEAN, SetBoost(level)
      PROVE  SwitchInv'
  BY <1>7 DEF SetBoost, Handle, callVars
<1>8. CASE CheckInterrupt
  BY <1>8 DEF CheckInterrupt, Handle, callVars
<1>9. ASSUME NEW req, NEW next, EnterMode(req, next)
      PROVE  SwitchInv'
  BY <1>9 DEF EnterMode, Handle, callVars
<1>10. CASE HandleFails
  BY <1>10 DEF HandleFails, Handle, callVars
<1>11. CASE SwitchPins
  BY <1>11 DEF SwitchPins, Set, ModeAfter, InitialisedAfter, AfterFailedSwitch, callVars
<1>12. CASE SwitchRegs
  BY <1>12 DEF SwitchRegs, ModeAfter, InitialisedAfter, AfterSwitch, AfterFailedSwitch, callVars
<1>13. CASE Ship
  BY <1>13 DEF Ship, callVars
<1>14. CASE Respond
  BY <1>14 DEF Respond, AfterResponse, Calls!SendResponse, chipVars
<1>15. CASE UNCHANGED vars
  BY <1>1, <1>15 DEF vars, switchVars, taskVars, chipVars, callVars
<1> QED
  BY <1>1, <1>2, <1>3, <1>4, <1>5, <1>6, <1>7, <1>8, <1>9, <1>10, <1>11, <1>12,
     <1>13, <1>14, <1>15, ClientSteps DEF Next, PowerTask

THEOREM SwitchCorrect == Spec => []SwitchInv
  BY InitSwitch, NextSwitch, PTL DEF Spec

-----------------------------------------------------------------------------
(* What follows from it. *)

\* While the task waits for requests, expander, charger and mode agree unless the
\* last switch_mode was torn by a failing transfer (controller.rs).
THEOREM HardwareCorrect == Spec => []HardwareFollowsMode
<1>1. SwitchInv => HardwareFollowsMode
  BY DEF SwitchInv, HardwareFollowsMode
<1> QED
  BY <1>1, SwitchCorrect, PTL

\* POWER_STATE tells the truth about the boost converter while the task waits.
THEOREM StatsCorrect == Spec => []StatsAreFresh
<1>1. SwitchInv => StatsAreFresh
  BY DEF SwitchInv, StatsAreFresh
<1> QED
  BY <1>1, SwitchCorrect, PTL

\* The charger begins to source VBUS only behind an open switch (switch_mode).
THEOREM OtgIsIsolated == Spec => OtgNeedsIsolation
<1>1. ASSUME SwitchInv, [Next]_vars, charger # "Otg", charger' = "Otg"
      PROVE  pins = "Otg"
  <2>1. charger' # charger
    BY <1>1
  <2>2. Boot \/ SwitchRegs \/ PowerTask
    BY <1>1, <2>1, ClientSteps DEF Next, vars, switchVars, chipVars
  <2>3. SwitchRegs
    BY <2>1, <2>2 DEF PowerTask, Boot, ReadStats, ReadStatsFails, PowerTimer, Receive,
         SetBoost, CheckInterrupt, EnterMode, HandleFails, SwitchPins, Ship, Respond,
         Handle, chipVars
  <2> QED
    BY <1>1, <2>3 DEF SwitchRegs, SwitchInv
<1> QED
  BY <1>1, SwitchCorrect, PTL DEF Spec, OtgNeedsIsolation

-----------------------------------------------------------------------------
(* The callers and the task use POWER_CONTROL as RequestResponse says, so what is *)
(* proved of the channel holds of the board.                                      *)

CallProofs == INSTANCE RequestResponseProofs WITH
                Clients <- PowerClients, Requests <- PowerRequests,
                Capacity <- ChannelCapacity

LEMMA StepIsCall == [Next]_vars => [CallProofs!Next]_(CallProofs!callVars)
<1> SUFFICES ASSUME [Next]_vars
             PROVE  [CallProofs!Next]_(CallProofs!callVars)
  OBVIOUS
<1> DEFINE Step == [CallProofs!Next]_(CallProofs!callVars)
<1>1. ASSUME UNCHANGED callVars
      PROVE  Step
  BY <1>1 DEF callVars, CallProofs!callVars, CallProofs!clientVars
<1>2. ASSUME NEW c \in PowerClients, TransactStep(c)
      PROVE  Step
  BY <1>1, <1>2 DEF TransactStep, LockAndSend, WaitForMutex, CallProofs!Next,
       CallProofs!Lock, CallProofs!SendRequest, CallProofs!MutexFree,
       CallProofs!KeepLocked, Calls!Lock, Calls!SendRequest, Calls!MutexFree,
       Calls!KeepLocked
<1>3. ASSUME NEW c \in PowerClients, NEW r \in PowerRequests, Calls!Call(c, r)
      PROVE  Step
  BY <1>3 DEF Calls!Call, CallProofs!Call, CallProofs!Next
<1>4. ASSUME NEW c \in PowerClients, Calls!RecvResponse(c)
      PROVE  Step
  BY <1>4 DEF Calls!RecvResponse, CallProofs!RecvResponse, CallProofs!Next
<1>5. ASSUME Receive \/ Respond
      PROVE  Step
  BY <1>5 DEF Receive, Respond, Calls!RecvRequest, Calls!SendResponse, Calls!TakeRequest,
       Calls!clientVars, CallProofs!RecvRequest, CallProofs!SendResponse,
       CallProofs!TakeRequest, CallProofs!clientVars, CallProofs!Server, CallProofs!Next
<1>6. CASE FlipVbus \/ OtherInterrupt \/ Asleep \/ UNCHANGED vars
  BY <1>1, <1>6 DEF FlipVbus, OtherInterrupt, Asleep, vars
<1>7. CASE PowerTask
  BY <1>1, <1>5, <1>7 DEF PowerTask, Boot, ReadStats, ReadStatsFails, PowerTimer,
       SetBoost, CheckInterrupt, EnterMode, HandleFails, SwitchPins, SwitchRegs, Ship,
       Handle
<1>8. CASE MainTask \/ Shutdown
  <2>1. "main" \in PowerClients /\ {"boost_on", "boost_off", "shipping"} \subseteq PowerRequests
    BY DEF PowerClients, PowerRequests
  <2> QED
    BY <1>2, <1>3, <1>4, <1>8, <2>1 DEF MainTask, MainBoots, MainRuns, Shutdown,
         BoostIsOff, ShipBoard, Sleep, MainCalls, MainReturns
<1>9. CASE IntTask
  <2>1. "int" \in PowerClients /\ "check" \in PowerRequests
    BY DEF PowerClients, PowerRequests
  <2> QED
    BY <1>1, <1>2, <1>3, <1>4, <1>9, <2>1 DEF IntTask, IntStarts, IntCalls, IntListens
<1>10. CASE AppTask \/ AppCalls
  <2>1. "app" \in PowerClients /\ AppRequests \subseteq PowerRequests
    BY PowerAssumption DEF PowerClients, PowerAssumption
  <2> QED
    BY <1>2, <1>3, <1>4, <1>10, <2>1 DEF AppTask, AppCalls, AppReturns
<1> QED
  BY <1>6, <1>7, <1>8, <1>9, <1>10 DEF Next

LEMMA InitIsCall == Init => CallProofs!CallInit
  BY DEF Init, Calls!CallInit, CallProofs!CallInit

LEMMA CallsHold == Spec => CallProofs!Spec
  BY InitIsCall, StepIsCall, PTL DEF Spec, CallProofs!Spec

\* Whoever calls the power task gets the answer to its own request, in any order of
\* shutdown, interrupts and application calls (PowerHandle::transact).
THEOREM PowerAnswersAreOwn == Spec => []Calls!OwnAnswer
<1>1. CallProofs!RequestResponseAssumption
  BY PowerAssumption DEF PowerAssumption, CallProofs!RequestResponseAssumption
<1>2. CallProofs!Spec => []CallProofs!OwnAnswer
  BY <1>1, CallProofs!AnswersAreOwn
<1>3. CallProofs!OwnAnswer => Calls!OwnAnswer
  BY DEF CallProofs!OwnAnswer, Calls!OwnAnswer
<1> QED
  BY <1>2, <1>3, CallsHold, PTL

-----------------------------------------------------------------------------
(* Types. *)

\* What TypeOK says beyond the channel's types: the lines, the task and its chips,
\* and the callers.
LinesTyped == vbus \in BOOLEAN /\ held \in BOOLEAN /\ seen \in BOOLEAN
              /\ edge \in BOOLEAN /\ edgeMissed \in BOOLEAN

TaskTyped ==
  /\ batfet \in BOOLEAN /\ boost \in BOOLEAN /\ initialised \in BOOLEAN
  /\ reading \in BOOLEAN /\ commanded \in BOOLEAN /\ torn \in BOOLEAN
  /\ pins \in Modes /\ charger \in Modes /\ mode \in Modes /\ target \in Modes
  /\ task \in {"boot", "top", "select", "retry", "handle", "pins", "regs",
               "ship", "respond", "stopped"}
  /\ published \in SUBSET BOOLEAN
  /\ boostBy \in SUBSET PowerClients
  /\ failures \in 0..MaxFailures

CallersTyped ==
  /\ main \in {"start", "boost_on", "running", "boost_off", "ship", "shipping", "asleep"}
  /\ interrupt \in {"off", "starting", "up"}
  /\ cpu \in Tasks \cup {"idle"}
  /\ appCalls \in 0..MaxAppCalls

LEMMA Fails == ASSUME TaskTyped, Fail PROVE failures' \in 0..MaxFailures /\ failures' # 0
  BY PowerAssumption DEF TaskTyped, Fail, PowerAssumption

LEMMA InitTyped == Init => LinesTyped /\ TaskTyped /\ CallersTyped
<1>1. MaxFailures \in Nat /\ MaxAppCalls \in Nat
  BY PowerAssumption DEF PowerAssumption
<1>2. 0 \in 0..MaxFailures /\ 0 \in 0..MaxAppCalls
  BY <1>1
<1> QED
  BY <1>2 DEF Init, LinesTyped, TaskTyped, CallersTyped, Modes, Tasks

LEMMA FallTyped ==
  ASSUME LinesTyped, NEW falls \in BOOLEAN, Fall(falls)
  PROVE  edge' \in BOOLEAN /\ edgeMissed' \in BOOLEAN
  BY DEF LinesTyped, Fall, Listening

LEMMA NextLines == LinesTyped /\ TaskTyped /\ [Next]_vars => LinesTyped'
<1> SUFFICES ASSUME LinesTyped, TaskTyped, [Next]_vars
             PROVE  LinesTyped'
  OBVIOUS
<1>1. CASE UNCHANGED lineVars
  BY <1>1 DEF lineVars, LinesTyped
<1>2. ASSUME Get
      PROVE  LinesTyped'
  BY <1>2, FallTyped DEF Get, LinesTyped
<1>3. ASSUME NEW next, Set(next)
      PROVE  LinesTyped'
  BY <1>3, FallTyped DEF Set, LinesTyped, TaskTyped, Level
<1>4. CASE FlipVbus \/ OtherInterrupt
  BY <1>4, FallTyped DEF FlipVbus, OtherInterrupt, LinesTyped, IntLow, Level
<1>5. CASE Boot
  BY <1>1, <1>5 DEF Boot, LinesTyped, Level
<1>6. CASE ReadStatsFails \/ HandleFails
  BY <1>1, <1>6, FallTyped DEF ReadStatsFails, HandleFails, LinesTyped, Level
<1>7. CASE CheckInterrupt
  BY <1>7 DEF CheckInterrupt, LinesTyped, Listening
<1>8. CASE ReadStats \/ EnterMode("shipping", ShippingMode) \/ EnterMode("passive", "Passive")
  BY <1>2, <1>8 DEF ReadStats, EnterMode
<1>9. CASE SwitchPins
  BY <1>1, <1>3, <1>9 DEF SwitchPins, lineVars
<1>10. CASE PowerTimer \/ Receive \/ SwitchRegs \/ Ship \/ Respond
  BY <1>1, <1>10 DEF PowerTimer, Receive, SwitchRegs, Ship, Respond
<1>11. ASSUME NEW level \in BOOLEAN, SetBoost(level)
       PROVE  LinesTyped'
  BY <1>1, <1>11 DEF SetBoost
<1>12. CASE MainTask \/ Shutdown
  BY <1>1, <1>12 DEF MainTask, Shutdown, MainBoots, MainRuns, BoostIsOff, ShipBoard, Sleep,
     MainCalls, MainReturns, TransactStep, LockAndSend, WaitForMutex
<1>13. CASE IntTask
  BY <1>1, <1>13 DEF IntTask, IntStarts, IntCalls, IntListens, TransactStep, LockAndSend,
     WaitForMutex, LinesTyped
<1>14. CASE AppTask \/ AppCalls
  BY <1>1, <1>14 DEF AppTask, AppCalls, AppReturns, TransactStep, LockAndSend, WaitForMutex
<1>15. CASE Asleep \/ UNCHANGED vars
  BY <1>1, <1>15 DEF Asleep, vars
<1> QED
  BY <1>4, <1>5, <1>6, <1>7, <1>8, <1>9, <1>10, <1>11, <1>12, <1>13, <1>14, <1>15
     DEF Next, PowerTask

LEMMA HeadType ==
  ASSUME NEW S, NEW q \in Seq(S), q # <<>>
  PROVE  Head(q) \in S /\ Tail(q) \in Seq(S) /\ Len(Tail(q)) = Len(q) - 1
  OBVIOUS

\* The request that is being served came from one of the callers.
LEMMA ServedClient ==
  ASSUME Calls!TypeOK, SwitchInv, task = "handle"
  PROVE  serving # <<>> /\ Head(serving).from \in PowerClients
<1>1. serving # <<>> /\ serving \in Seq([from: PowerClients, body: PowerRequests])
  BY DEF SwitchInv, Calls!TypeOK, Calls!Messages
<1>2. Head(serving) \in [from: PowerClients, body: PowerRequests]
  BY <1>1, HeadType
<1> QED
  BY <1>1, <1>2

LEMMA NextTask ==
  LinesTyped /\ TaskTyped /\ Calls!TypeOK /\ SwitchInv /\ [Next]_vars => TaskTyped'
<1> SUFFICES ASSUME LinesTyped, TaskTyped, Calls!TypeOK, SwitchInv, [Next]_vars
             PROVE  TaskTyped'
  OBVIOUS
<1>1. CASE UNCHANGED switchVars
  BY <1>1 DEF switchVars, TaskTyped
<1>2. CASE Boot
  <2>1. failures' \in 0..MaxFailures
    BY <1>2, Fails DEF Boot, TaskTyped
  <2>2. /\ pins' \in {pins, "Passive"} /\ batfet' \in {batfet, TRUE} /\ boost' = FALSE
        /\ task' \in {"top", "stopped"}
    BY <1>2 DEF Boot
  <2>3. UNCHANGED <<charger, initialised, mode, reading, target, published, commanded, torn,
                    boostBy>>
    BY <1>2 DEF Boot
  <2>4. /\ pins' \in Modes /\ charger' \in Modes /\ mode' \in Modes /\ target' \in Modes
    BY <2>2, <2>3 DEF TaskTyped, Modes
  <2>5. batfet' \in BOOLEAN /\ boost' \in BOOLEAN
    BY <2>2, Zenon DEF TaskTyped
  <2> QED
    BY <2>1, <2>2, <2>3, <2>4, <2>5, Zenon DEF TaskTyped
<1>3. CASE ReadStats
  <2>1. reading' \in BOOLEAN /\ published' \in SUBSET BOOLEAN
    BY <1>3 DEF ReadStats, Get, TaskTyped, LinesTyped
  <2>2. target' \in Modes /\ task' \in {"select", "pins"}
    BY <1>3 DEF ReadStats, InitialMode, TaskTyped, Modes
  <2>3. UNCHANGED <<chipVars, initialised, mode, commanded, torn, boostBy, failures>>
    BY <1>3 DEF ReadStats
  <2> QED
    BY <2>1, <2>2, <2>3 DEF chipVars, TaskTyped
<1>4. CASE ReadStatsFails \/ PowerTimer \/ Receive
  BY <1>4, Fails DEF ReadStatsFails, PowerTimer, Receive, chipVars, TaskTyped
<1>5. ASSUME NEW req, Handle(req)
      PROVE  boostBy' \in SUBSET PowerClients
  BY <1>5, ServedClient DEF Handle, TaskTyped
<1>6. ASSUME NEW level \in BOOLEAN, SetBoost(level)
      PROVE  TaskTyped'
  BY <1>5, <1>6 DEF SetBoost, Handle, TaskTyped
<1>7. CASE CheckInterrupt
  BY <1>5, <1>7 DEF CheckInterrupt, Handle, CalledFor, TaskTyped, LinesTyped, Modes
<1>8. CASE EnterMode("shipping", ShippingMode) \/ EnterMode("passive", "Passive")
  BY <1>5, <1>8 DEF EnterMode, Handle, Get, ShippingMode, TaskTyped, LinesTyped, Modes
<1>9. CASE HandleFails
  BY <1>5, <1>9, Fails DEF HandleFails, Handle, TaskTyped
<1>10. CASE SwitchPins
  BY <1>10, Fails DEF SwitchPins, Set, ModeAfter, InitialisedAfter, AfterFailedSwitch, TaskTyped
<1>11. CASE SwitchRegs
  BY <1>11, Fails DEF SwitchRegs, ModeAfter, InitialisedAfter, AfterSwitch,
                      AfterFailedSwitch, TaskTyped
<1>12. CASE Ship
  BY <1>12, Fails DEF Ship, TaskTyped
<1>13. CASE Respond
  BY <1>13 DEF Respond, AfterResponse, chipVars, TaskTyped
<1>14. CASE UNCHANGED vars
  BY <1>1, <1>14 DEF vars, switchVars, chipVars, taskVars, callVars
<1> QED
  BY <1>1, <1>2, <1>3, <1>4, <1>6, <1>7, <1>8, <1>9, <1>10, <1>11, <1>12, <1>13, <1>14,
     ClientSteps DEF Next, PowerTask

LEMMA NextCallers == CallersTyped /\ [Next]_vars => CallersTyped'
<1> SUFFICES ASSUME CallersTyped, [Next]_vars
             PROVE  CallersTyped'
  OBVIOUS
<1> DEFINE Cpu == cpu' \in Tasks \cup {"idle"}
<1>1. ASSUME UNCHANGED otherVars, Cpu
      PROVE  CallersTyped'
  BY <1>1 DEF otherVars, CallersTyped
<1>2. CASE PowerTask
  <2>1. UNCHANGED otherVars
    BY <1>2 DEF PowerTask, Boot, ReadStats, ReadStatsFails, PowerTimer, Receive, SetBoost,
       CheckInterrupt, EnterMode, HandleFails, SwitchPins, SwitchRegs, Ship, Respond, Handle
  <2>2. Cpu
    BY <1>2 DEF PowerTask, Boot, ReadStats, ReadStatsFails, PowerTimer, Receive, SetBoost,
       CheckInterrupt, EnterMode, HandleFails, SwitchPins, SwitchRegs, Ship, Respond, Handle,
       AtSelect, CallersTyped, Tasks
  <2> QED
    BY <1>1, <2>1, <2>2
<1>3. ASSUME NEW c \in Tasks, TransactStep(c)
      PROVE  CallersTyped'
  BY <1>1, <1>3 DEF TransactStep, LockAndSend, WaitForMutex
<1>4. CASE MainBoots \/ MainRuns \/ BoostIsOff \/ ShipBoard \/ Sleep \/ Shutdown
  BY <1>4 DEF MainBoots, MainRuns, BoostIsOff, ShipBoard, Sleep, Shutdown, MainCalls,
              MainReturns, CallersTyped, Tasks
<1>5. CASE IntStarts \/ IntCalls \/ IntListens
  BY <1>5 DEF IntStarts, IntCalls, IntListens, otherVars, CallersTyped, Tasks
<1>6. CASE AppReturns
  BY <1>1, <1>6 DEF AppReturns, Tasks
<1>7. CASE AppCalls
  BY <1>7, PowerAssumption DEF AppCalls, PowerAssumption, CallersTyped, Tasks
<1>8. CASE FlipVbus \/ OtherInterrupt \/ Asleep \/ UNCHANGED vars
  BY <1>1, <1>8 DEF FlipVbus, OtherInterrupt, Asleep, vars, CallersTyped
<1>9. {"main", "int", "app"} \subseteq Tasks
  BY DEF Tasks
<1> QED
  BY <1>2, <1>3, <1>4, <1>5, <1>6, <1>7, <1>8, <1>9 DEF Next, MainTask, IntTask, AppTask

\* What is proved of the channel, of the board's channel.
LEMMA ChannelHolds == Spec => [](Calls!TypeOK /\ Calls!CallInv)
<1>1. CallProofs!RequestResponseAssumption
  BY PowerAssumption DEF PowerAssumption, CallProofs!RequestResponseAssumption
<1>2. CallProofs!Spec => []CallProofs!TypeOK
  BY <1>1, CallProofs!TypeCorrect
<1>3. CallProofs!Spec => []CallProofs!CallInv
  BY <1>1, CallProofs!CallsCorrect
<1>4. CallProofs!TypeOK => Calls!TypeOK
  BY DEF CallProofs!TypeOK, Calls!TypeOK, CallProofs!Messages, Calls!Messages,
         CallProofs!Phases, Calls!Phases
<1>5. CallProofs!CallInv => Calls!CallInv
  BY DEF CallProofs!CallInv, Calls!CallInv, CallProofs!InFlight, Calls!InFlight,
         CallProofs!Belongs, Calls!Belongs, CallProofs!OwnAnswer, Calls!OwnAnswer
<1> QED
  BY <1>2, <1>3, <1>4, <1>5, CallsHold, PTL

LEMMA TypedHolds == Spec => [](LinesTyped /\ TaskTyped)
<1>1. Init => LinesTyped /\ TaskTyped
  BY InitTyped
<1>2. LinesTyped /\ TaskTyped /\ Calls!TypeOK /\ SwitchInv /\ [Next]_vars
      => (LinesTyped /\ TaskTyped)'
  BY NextLines, NextTask
<1> QED
  BY <1>1, <1>2, ChannelHolds, SwitchCorrect, PTL DEF Spec

\* Every variable of the board keeps to its type (tasks/power.rs).
THEOREM PowerTypeCorrect == Spec => []TypeOK
<1>1. Spec => []CallersTyped
  BY InitTyped, NextCallers, PTL DEF Spec
<1>2. Calls!TypeOK /\ LinesTyped /\ TaskTyped /\ CallersTyped => TypeOK
  BY DEF LinesTyped, TaskTyped, CallersTyped, TypeOK
<1> QED
  BY <1>1, <1>2, ChannelHolds, TypedHolds, PTL

-----------------------------------------------------------------------------
(* The shutdown. *)

\* The task takes no step in deep sleep, and none that the callers see in their
\* calls or in main.
LEMMA PowerSteps ==
  ASSUME PowerTask
  PROVE  /\ UNCHANGED <<main, phase, asked>>
         /\ MayRun("power") \/ cpu = "power"
<1>1. ASSUME NEW level, SetBoost(level)
      PROVE  UNCHANGED <<main, phase, asked>> /\ cpu = "power"
  BY <1>1 DEF SetBoost, Handle, callVars, otherVars
<1>2. ASSUME NEW req, NEW next, EnterMode(req, next)
      PROVE  UNCHANGED <<main, phase, asked>> /\ cpu = "power"
  BY <1>2 DEF EnterMode, Handle, callVars, otherVars
<1>3. CASE CheckInterrupt \/ HandleFails
  BY <1>3 DEF CheckInterrupt, HandleFails, Handle, callVars, otherVars
<1>4. CASE Boot \/ ReadStats \/ ReadStatsFails \/ PowerTimer
  BY <1>4 DEF Boot, ReadStats, ReadStatsFails, PowerTimer, callVars, otherVars
<1>5. CASE SwitchPins \/ SwitchRegs \/ Ship
  BY <1>5 DEF SwitchPins, SwitchRegs, Ship, callVars, otherVars
<1>6. CASE Receive \/ Respond
  BY <1>6 DEF Receive, Respond, Calls!RecvRequest, Calls!SendResponse, Calls!clientVars,
              otherVars
<1> QED
  BY <1>1, <1>2, <1>3, <1>4, <1>5, <1>6 DEF PowerTask

LEMMA InitMain == Init => MainInv
  BY DEF Init, MainInv, Calls!CallInit, PowerClients

LEMMA NextMain == Calls!TypeOK /\ MainInv /\ [Next]_vars => MainInv'
<1> SUFFICES ASSUME Calls!TypeOK, MainInv, [Next]_vars
             PROVE  MainInv'
  OBVIOUS
<1>0. /\ DOMAIN phase = PowerClients /\ DOMAIN asked = PowerClients
      /\ "main" \in PowerClients /\ "int" \in PowerClients /\ "app" \in PowerClients
  BY DEF Calls!TypeOK, PowerClients
<1>1. CASE PowerTask
  BY <1>1, PowerSteps DEF MainInv, MayRun
<1>2. ASSUME NEW c \in PowerClients, TransactStep(c)
      PROVE  MainInv'
  <2>1. /\ main # "asleep" \/ cpu # "idle"
        /\ UNCHANGED <<main, asked>>
        /\ phase' = phase \/ (phase[c] # "idle" /\ phase' = [phase EXCEPT ![c] = phase'[c]])
    BY <1>0, <1>2 DEF TransactStep, LockAndSend, WaitForMutex, MayRun, Calls!Lock,
       Calls!SendRequest, otherVars, callVars, PowerClients
  <2>2. phase["main"] = "idle" => phase'["main"] = "idle"
    BY <1>0, <2>1
  <2> QED
    BY <2>1, <2>2 DEF MainInv
<1>3. CASE MainBoots \/ ShipBoard \/ Shutdown
  BY <1>0, <1>3 DEF MainBoots, ShipBoard, Shutdown, MainCalls, Calls!Call, MayRun, MainInv
<1>4. CASE MainRuns \/ BoostIsOff \/ Sleep
  BY <1>0, <1>4 DEF MainRuns, BoostIsOff, Sleep, MainReturns, Calls!RecvResponse, MayRun,
                    MainInv
<1>5. CASE IntCalls \/ IntListens
  BY <1>0, <1>5 DEF IntCalls, IntListens, Calls!Call, Calls!RecvResponse, MayRun, otherVars,
                    MainInv
<1>6. CASE AppCalls \/ AppReturns
  BY <1>0, <1>6 DEF AppCalls, AppReturns, Calls!Call, Calls!RecvResponse, MayRun, otherVars,
                    MainInv
<1>7. CASE IntStarts \/ FlipVbus \/ OtherInterrupt \/ Asleep \/ UNCHANGED vars
  BY <1>7 DEF IntStarts, FlipVbus, OtherInterrupt, Asleep, vars, otherVars, callVars, MayRun,
              MainInv
<1> QED
  BY <1>0, <1>1, <1>2, <1>3, <1>4, <1>5, <1>6, <1>7 DEF Next, MainTask, IntTask, AppTask

LEMMA InitSleep == Init => SleepInv
  BY DEF Init, Calls!CallInit, SleepInv, BoostInv, ShipInv, Carries

LEMMA OneOfThree ==
  ASSUME NEW a \in Nat, NEW b \in Nat, NEW c \in Nat, a + b + c <= 1
  PROVE  /\ a # 0 => b = 0 /\ c = 0
         /\ b # 0 => a = 0 /\ c = 0
         /\ c # 0 => a = 0 /\ b = 0 /\ c = 1
  OBVIOUS

LEMMA EmptyType ==
  ASSUME NEW S, NEW q \in Seq(S), Len(q) = 0
  PROVE  q = <<>>
  OBVIOUS

LEMMA LastOne ==
  ASSUME NEW S, NEW q \in Seq(S), Len(q) = 1
  PROVE  Tail(q) = <<>>
<1>1. q # <<>>
  OBVIOUS
<1>2. Tail(q) \in Seq(S) /\ Len(Tail(q)) = 0
  BY <1>1, HeadType
<1> QED
  BY <1>2, EmptyType

\* Only one message is on its way.
LEMMA OneMessage ==
  ASSUME Calls!TypeOK, Calls!CallInv
  PROVE  /\ requests # <<>> => serving = <<>> /\ responses = <<>>
         /\ serving # <<>> => requests = <<>> /\ responses = <<>>
         /\ responses # <<>> => requests = <<>> /\ serving = <<>> /\ Tail(responses) = <<>>
<1> DEFINE Msg == [from: PowerClients, body: PowerRequests]
<1>1. requests \in Seq(Msg) /\ serving \in Seq(Msg) /\ responses \in Seq(Msg)
  BY DEF Calls!TypeOK, Calls!Messages
<1> HIDE DEF Msg
<1>2. /\ Len(requests) \in Nat /\ (requests = <<>> <=> Len(requests) = 0)
      /\ Len(serving) \in Nat /\ (serving = <<>> <=> Len(serving) = 0)
      /\ Len(responses) \in Nat /\ (responses = <<>> <=> Len(responses) = 0)
  BY <1>1
<1>3. Len(requests) + Len(serving) + Len(responses) <= 1
  BY DEF Calls!CallInv, Calls!InFlight
<1>4. Len(responses) = 1 => Tail(responses) = <<>>
  BY <1>1, LastOne
<1> QED
  BY <1>2, <1>3, <1>4, OneOfThree

\* The message on its way is its caller's, who awaits the answer.
LEMMA CallerOf ==
  ASSUME Calls!TypeOK, Calls!CallInv, NEW q \in {serving, responses}, q # <<>>
  PROVE  /\ Head(q).from \in PowerClients
         /\ phase[Head(q).from] = "awaiting"
         /\ asked[Head(q).from] = {Head(q).body}
<1>1. q \in Seq([from: PowerClients, body: PowerRequests])
  BY DEF Calls!TypeOK, Calls!Messages
<1>2. Head(q) \in [from: PowerClients, body: PowerRequests]
  BY <1>1, HeadType
<1> QED
  BY <1>2 DEF Calls!CallInv, Calls!Belongs

LEMMA MainsAnswer ==
  ASSUME Calls!TypeOK, Calls!CallInv, MainInv, Calls!RecvResponse("main"),
         main \in {"boost_off", "shipping"}
  PROVE  Carries(responses, main)
<1>1. responses # <<>> /\ phase["main"] = "awaiting" /\ "main" \in PowerClients
  BY DEF Calls!RecvResponse, PowerClients
<1>2. mutex = {"main"} /\ mutex = {Head(responses).from}
  BY <1>1, CallerOf DEF Calls!CallInv
<1> QED
  BY <1>1, <1>2, CallerOf DEF MainInv, Carries

LEMMA ClientsKeepSleep ==
  ASSUME Calls!TypeOK, Calls!CallInv, MainInv, SleepInv,
         FlipVbus \/ OtherInterrupt \/ MainTask \/ Shutdown \/ IntTask
         \/ AppTask \/ AppCalls \/ Asleep \/ UNCHANGED vars
  PROVE  SleepInv'
<1>1. UNCHANGED switchVars
  BY ClientSteps DEF vars, switchVars, chipVars, taskVars, callVars
<1>2. /\ Carries(serving, "shipping")' = Carries(serving, "shipping")
      /\ Carries(serving, "boost_off")' = Carries(serving, "boost_off")
      /\ (AppBoost' <=> AppBoost) /\ (InCharging' <=> InCharging)
      /\ UNCHANGED <<task, target, batfet, serving, initialised, failures>>
  BY <1>1 DEF Carries, AppBoost, InCharging, switchVars
<1>3. CASE UNCHANGED <<main, responses>> \/ (responses' = responses /\ main = "ship"
               /\ main' = "shipping")
  <2>1. Carries(responses, "shipping")' = Carries(responses, "shipping")
        /\ Carries(responses, "boost_off")' = Carries(responses, "boost_off")
    BY <1>3 DEF Carries
  <2> QED
    BY <1>2, <1>3, <2>1 DEF SleepInv, BoostInv, ShipInv
<1>4. CASE responses' = responses /\ main' \in {"boost_on", "boost_off"}
  <2>1. Carries(responses, "shipping")' = Carries(responses, "shipping")
        /\ Carries(responses, "boost_off")' = Carries(responses, "boost_off")
    BY <1>4 DEF Carries
  <2> QED
    BY <1>2, <1>4, <2>1 DEF SleepInv, BoostInv, ShipInv
<1>5. CASE responses' = <<>> /\ (main' = main \/ main' = "running")
  BY <1>2, <1>5 DEF SleepInv, BoostInv, ShipInv, Carries
<1>6. CASE responses' = <<>> /\ main' = "ship" /\ Carries(responses, "boost_off")
  BY <1>2, <1>6 DEF SleepInv, BoostInv, ShipInv, Carries
<1>7. CASE responses' = <<>> /\ main' = "asleep" /\ main = "shipping"
           /\ Carries(responses, "shipping")
  BY <1>2, <1>7 DEF SleepInv, BoostInv, ShipInv, Carries
<1>8. ASSUME NEW c \in PowerClients, Calls!RecvResponse(c)
      PROVE  responses' = <<>>
  BY <1>8, OneMessage DEF Calls!RecvResponse
<1>9. ASSUME NEW c \in PowerClients, TransactStep(c)
      PROVE  UNCHANGED <<main, responses>>
  BY <1>9 DEF TransactStep, LockAndSend, WaitForMutex, Calls!Lock, Calls!SendRequest,
     otherVars, callVars
<1>10. "main" \in PowerClients /\ "int" \in PowerClients /\ "app" \in PowerClients
  BY DEF PowerClients
<1>11. CASE FlipVbus \/ OtherInterrupt \/ Asleep \/ UNCHANGED vars
  BY <1>3, <1>11 DEF FlipVbus, OtherInterrupt, Asleep, vars, otherVars, callVars
<1>12. CASE MainBoots \/ Shutdown \/ ShipBoard
  BY <1>3, <1>4, <1>12 DEF MainBoots, Shutdown, ShipBoard, MainCalls, Calls!Call
<1>13. CASE MainRuns
  BY <1>5, <1>8, <1>10, <1>13 DEF MainRuns, MainReturns
<1>14. CASE BoostIsOff
  BY <1>6, <1>8, <1>10, <1>14, MainsAnswer DEF BoostIsOff, MainReturns
<1>15. CASE Sleep
  BY <1>7, <1>8, <1>10, <1>15, MainsAnswer DEF Sleep, MainReturns
<1>16. CASE IntTask
  BY <1>3, <1>5, <1>8, <1>9, <1>10, <1>16 DEF IntTask, IntStarts, IntCalls, IntListens,
     otherVars, callVars, Calls!Call
<1>17. CASE AppTask \/ AppCalls
  BY <1>3, <1>5, <1>8, <1>9, <1>10, <1>17 DEF AppTask, AppReturns, AppCalls, otherVars,
     Calls!Call
<1> QED
  BY <1>3, <1>9, <1>10, <1>11, <1>12, <1>13, <1>14, <1>15, <1>16, <1>17 DEF MainTask

\* Whoever asked for what is being served, if it is for the boost converter after
\* main's boost_off, is the application.
LEMMA BoostAskedByApp ==
  ASSUME Calls!TypeOK, Calls!CallInv, MainInv, serving # <<>>,
         Head(serving).body \in {"boost_on", "boost_off"},
         main \in {"ship", "shipping"}
  PROVE  Head(serving).from = "app"
<1>1. /\ Head(serving).from \in {"main", "int", "app"}
      /\ phase[Head(serving).from] = "awaiting"
      /\ asked[Head(serving).from] = {Head(serving).body}
  BY CallerOf DEF PowerClients
<1> QED
  BY <1>1 DEF MainInv

LEMMA PowerKeepsSleep ==
  ASSUME TaskTyped, SwitchInv, Calls!TypeOK, Calls!CallInv, MainInv, SleepInv, PowerTask
  PROVE  SleepInv'
<1>1. main' = main /\ main # "asleep"
  BY PowerSteps DEF MainInv, MayRun
<1>2. /\ failures \in Nat
      /\ Fail => failures' # 0
  BY Fails, PowerAssumption DEF TaskTyped, PowerAssumption
<1> DEFINE Waiting == {"boot", "top", "select", "retry", "stopped"}
\* Steps between requests.
<1>3. ASSUME UNCHANGED <<serving, responses>>,
             \/ task \in Waiting
             \/ task \in {"pins", "regs"} /\ serving = <<>>,
             UNCHANGED <<mode, pins, charger, batfet>> \/ responses = <<>>,
             AppBoost => AppBoost',
             responses # <<>> => initialised' /\ task' \in {"top", "select", "retry"},
             task' \notin {"ship", "respond"},
             failures' # failures => failures' # 0
      PROVE  SleepInv'
  <2>1. serving = <<>> /\ serving' = <<>>
    BY <1>3 DEF SleepInv
  <2>2. ~Carries(serving, "shipping")' /\ ~Carries(serving, "boost_off")'
    BY <2>1 DEF Carries
  <2>3. /\ Carries(responses, "shipping")' = Carries(responses, "shipping")
        /\ Carries(responses, "boost_off")' = Carries(responses, "boost_off")
        /\ responses = <<>> => ~Carries(responses, "shipping")
    BY <1>3 DEF Carries
  <2>4. BoostInv'
    BY <1>1, <1>3, <2>2, <2>3 DEF SleepInv, BoostInv
  <2>5. failures' = 0 => ShipInv'
    BY <1>1, <1>3, <2>2, <2>3 DEF SleepInv, ShipInv, InCharging
  <2> QED
    BY <1>3, <2>1, <2>4, <2>5 DEF SleepInv
<1>4. CASE Boot
  <2>1. responses = <<>>
    BY <1>4 DEF Boot, SleepInv
  <2>2. boost' = FALSE /\ (failures' # failures => failures' # 0)
    BY <1>2, <1>4 DEF Boot
  <2>3. AppBoost'
    BY <2>2 DEF AppBoost
  <2> QED
    BY <1>3, <1>4, <2>1, <2>2, <2>3 DEF Boot, callVars
<1>5. CASE ReadStats
  BY <1>3, <1>5 DEF ReadStats, SleepInv, AppBoost, chipVars, callVars
<1>6. CASE ReadStatsFails
  BY <1>2, <1>3, <1>6 DEF ReadStatsFails, SleepInv, AppBoost, chipVars, callVars
<1>7. CASE PowerTimer
  BY <1>3, <1>7 DEF PowerTimer, SleepInv, AppBoost, chipVars, callVars
<1>8. CASE Receive
  <2>1. /\ requests # <<>> /\ responses' = responses /\ task' = "handle"
        /\ serving' = <<Head(requests)>>
        /\ UNCHANGED <<boost, boostBy>>
    BY <1>8 DEF Receive, Calls!RecvRequest, chipVars
  <2>2. responses' = <<>>
    BY <2>1, OneMessage
  <2> QED
    BY <1>1, <2>1, <2>2 DEF SleepInv, BoostInv, ShipInv, Carries, AppBoost
\* Steps of a request: nothing is on its way but what is being served.
<1>9. ASSUME serving # <<>>
      PROVE  responses = <<>>
  BY <1>9, OneMessage
<1>10. ASSUME serving # <<>>, UNCHANGED <<serving, responses, boost, boostBy>>,
              task' \in {"pins", "regs", "ship", "respond"}, ~Carries(serving, "boost_off"),
              failures' = 0 => ShipInv'
       PROVE  SleepInv'
  <2>1. ~Carries(responses, "boost_off")' /\ responses' = <<>>
    BY <1>9, <1>10 DEF Carries
  <2>2. (AppBoost' <=> AppBoost) /\ Carries(serving, "boost_off")' = Carries(serving, "boost_off")
    BY <1>10 DEF AppBoost, Carries
  <2> QED
    BY <1>1, <1>10, <2>1, <2>2 DEF SleepInv, BoostInv
<1>11. ASSUME NEW level \in BOOLEAN, SetBoost(level)
       PROVE  SleepInv'
  <2>1. /\ serving # <<>> /\ Head(serving).body = IF level THEN "boost_on" ELSE "boost_off"
        /\ UNCHANGED <<serving, responses>>
        /\ boost' = level
        /\ boostBy' = {Head(serving).from}
        /\ task' = "respond"
    BY <1>11 DEF SetBoost, Handle, SwitchInv, callVars
  <2>2. responses' = <<>>
    BY <1>9, <2>1
  <2>3. main \in {"ship", "shipping"} => AppBoost'
    BY <2>1, BoostAskedByApp DEF AppBoost
  <2>4. Carries(serving, "boost_off")' => AppBoost'
    BY <2>1 DEF Carries, AppBoost
  <2> QED
    BY <1>1, <2>1, <2>2, <2>3, <2>4 DEF SleepInv, BoostInv, ShipInv, Carries
<1>12. ASSUME NEW req \in {"check", "shipping", "passive"}, Handle(req), boost' = boost
       PROVE  /\ serving # <<>> /\ Head(serving).body = req
              /\ UNCHANGED <<serving, responses, boost, boostBy>>
              /\ ~Carries(serving, "boost_off")
              /\ ~Carries(responses, "shipping")'
              /\ Carries(serving, "shipping")' <=> req = "shipping"
  <2>1. serving # <<>> /\ Head(serving).body = req
        /\ UNCHANGED <<serving, responses, boost, boostBy>>
    BY <1>12 DEF Handle, SwitchInv, callVars
  <2> QED
    BY <1>9, <2>1 DEF Carries
<1>13. CASE CheckInterrupt
  <2>1. Handle("check") /\ boost' = boost /\ task' \in {"pins", "respond"}
    BY <1>13 DEF CheckInterrupt
  <2>2. ShipInv'
    BY <1>1, <1>12, <2>1 DEF ShipInv
  <2> QED
    BY <1>10, <1>12, <2>1, <2>2
<1>14. ASSUME NEW req \in {"shipping", "passive"}, NEW next,
              req = "shipping" => next = "Charging", EnterMode(req, next)
       PROVE  SleepInv'
  <2>1. Handle(req) /\ boost' = boost /\ task' = "pins" /\ target' = next
    BY <1>14 DEF EnterMode
  <2>2. ShipInv'
    BY <1>1, <1>12, <1>14, <2>1 DEF ShipInv
  <2> QED
    BY <1>10, <1>12, <2>1, <2>2
<1>15. CASE HandleFails
  <2>1. PICK req \in {"check", "shipping", "passive"} : Handle(req)
    BY <1>15 DEF HandleFails
  <2>2. boost' = boost /\ task' = "respond" /\ failures' # 0
    BY <1>2, <1>15 DEF HandleFails
  <2> QED
    BY <1>10, <1>12, <2>1, <2>2
<1>16. CASE SwitchPins
  <2>1. /\ UNCHANGED <<serving, responses, boost, boostBy, initialised, mode, target>>
        /\ task = "pins" /\ task' \in {"regs", AfterFailedSwitch}
        /\ failures' # 0 \/ (task' = "regs" /\ failures' = failures)
    BY <1>2, <1>16 DEF SwitchPins, ModeAfter, InitialisedAfter, callVars
  <2>2. CASE serving = <<>>
    <3>1. responses = <<>>
      BY <2>1 DEF SleepInv
    <3>2. (AppBoost => AppBoost') /\ (failures' # failures => failures' # 0)
      BY <2>1 DEF AppBoost
    <3>3. task' \notin {"ship", "respond"}
      BY <2>1, <2>2 DEF AfterSwitch, AfterFailedSwitch
    <3> QED
      BY <1>3, <2>1, <2>2, <3>1, <3>2, <3>3
  <2>3. CASE serving # <<>>
    <3>1. task' \in {"regs", "respond"} /\ ~Carries(serving, "boost_off")
      BY <2>1, <2>3 DEF AfterFailedSwitch, SleepInv, BoostInv
    <3>2. failures' = 0 => ShipInv'
      <4>1. Carries(serving, "shipping")' = Carries(serving, "shipping")
            /\ ~Carries(responses, "shipping")'
        BY <1>9, <2>1, <2>3 DEF Carries
      <4> QED
        BY <1>1, <2>1, <4>1 DEF SleepInv, ShipInv
    <3> QED
      BY <1>10, <2>1, <2>3, <3>1, <3>2
  <2> QED
    BY <2>2, <2>3
<1>17. CASE SwitchRegs
  <2>1. /\ UNCHANGED <<serving, responses, boost, boostBy, target, pins>>
        /\ task = "regs" /\ pins = target
        /\ \/ failures' = failures /\ charger' = target /\ mode' = target /\ task' = AfterSwitch
           \/ failures' # 0 /\ task' = AfterFailedSwitch
    BY <1>2, <1>17 DEF SwitchRegs, ModeAfter, SwitchInv, callVars
  <2>2. CASE serving = <<>>
    <3>1. responses = <<>>
      BY <2>1 DEF SleepInv
    <3>2. (AppBoost => AppBoost') /\ (failures' # failures => failures' # 0)
      BY <2>1 DEF AppBoost
    <3>3. task' \notin {"ship", "respond"}
      BY <2>1, <2>2 DEF AfterSwitch, AfterFailedSwitch
    <3> QED
      BY <1>3, <2>1, <2>2, <3>1, <3>2, <3>3
  <2>3. CASE serving # <<>>
    <3>1. task' \in {"ship", "respond"} /\ ~Carries(serving, "boost_off")
      BY <2>1, <2>3 DEF AfterFailedSwitch, AfterSwitch, SleepInv, BoostInv
    <3>2. failures' = 0 => ShipInv'
      <4> SUFFICES ASSUME failures' = 0
                   PROVE  ShipInv'
        OBVIOUS
      <4>1. Carries(serving, "shipping")' = Carries(serving, "shipping")
            /\ ~Carries(responses, "shipping")'
        BY <1>9, <2>1, <2>3 DEF Carries
      <4>2. Carries(serving, "shipping") => task' = "ship" /\ target = "Charging"
        BY <2>1, <2>3 DEF AfterSwitch, SleepInv, ShipInv, Carries
      <4>3. Carries(serving, "shipping") => InCharging'
        BY <2>1, <4>2 DEF InCharging
      <4> QED
        BY <1>1, <3>1, <4>1, <4>2, <4>3 DEF ShipInv
    <3> QED
      BY <1>10, <2>1, <2>3, <3>1, <3>2
  <2> QED
    BY <2>2, <2>3
<1>18. CASE Ship
  <2>1. /\ UNCHANGED <<serving, responses, boost, boostBy, mode, pins, charger>>
        /\ task = "ship" /\ task' = "respond"
        /\ failures' # 0 \/ (failures' = failures /\ batfet' = FALSE)
    BY <1>2, <1>18 DEF Ship, callVars
  <2>2. serving # <<>> /\ ~Carries(serving, "boost_off")
    BY <2>1 DEF SleepInv, SwitchInv, BoostInv
  <2>3. failures' = 0 => ShipInv'
    <3>1. Carries(serving, "shipping")' = Carries(serving, "shipping")
          /\ ~Carries(responses, "shipping")'
      BY <1>9, <2>1, <2>2 DEF Carries
    <3>2. InCharging' <=> InCharging
      BY <2>1 DEF InCharging
    <3> QED
      BY <1>1, <2>1, <3>1, <3>2 DEF SleepInv, ShipInv
  <2> QED
    BY <1>10, <2>1, <2>2, <2>3
<1>19. CASE Respond
  <2>1. /\ serving # <<>> /\ serving' = <<>>
        /\ responses' = Append(responses, Head(serving))
        /\ task = "respond" /\ task' = "top"
        /\ UNCHANGED <<boost, boostBy, mode, pins, charger, batfet, initialised, failures>>
    BY <1>19 DEF Respond, AfterResponse, Calls!SendResponse, chipVars
  <2>2. responses' = <<Head(serving)>> /\ initialised
    BY <1>9, <2>1 DEF SwitchInv
  <2>3. /\ Carries(responses, "boost_off")' = Carries(serving, "boost_off")
        /\ Carries(responses, "shipping")' = Carries(serving, "shipping")
        /\ ~Carries(serving, "boost_off")' /\ ~Carries(serving, "shipping")'
    BY <2>1, <2>2 DEF Carries
  <2>4. (AppBoost' <=> AppBoost) /\ (InCharging' <=> InCharging)
    BY <2>1 DEF AppBoost, InCharging
  <2>5. BoostInv'
    BY <1>1, <2>1, <2>3, <2>4 DEF SleepInv, BoostInv
  <2>6. failures' = 0 => ShipInv'
    BY <1>1, <2>1, <2>3, <2>4 DEF SleepInv, ShipInv
  <2> QED
    BY <2>1, <2>2, <2>5, <2>6 DEF SleepInv
<1> QED
  BY <1>4, <1>5, <1>6, <1>7, <1>8, <1>11, <1>13, <1>14, <1>15, <1>16, <1>17, <1>18, <1>19
     DEF PowerTask, ShippingMode

LEMMA NextSleep ==
  /\ TaskTyped /\ SwitchInv /\ Calls!TypeOK /\ Calls!CallInv /\ MainInv /\ SleepInv
  /\ [Next]_vars
  => SleepInv'
  BY PowerKeepsSleep, ClientsKeepSleep DEF Next

\* The board falls asleep charging, with the battery disconnected and with the boost
\* converter off unless the application's request set it last, for every number of
\* application calls and every capacity (main's shutdown, enter_shipping_mode).
THEOREM SleepIsSafe == Spec => []AsleepSafely
<1>1. Spec => []MainInv
  BY InitMain, NextMain, ChannelHolds, PTL DEF Spec
<1>2. Spec => []SleepInv
  BY <1>1, InitSleep, NextSleep, ChannelHolds, TypedHolds, SwitchCorrect, PTL DEF Spec
<1>3. SleepInv => AsleepSafely
  BY DEF SleepInv, BoostInv, ShipInv, InCharging, AppBoost, AsleepSafely
<1> QED
  BY <1>2, <1>3, PTL

-----------------------------------------------------------------------------
(* The mode and VBUS. *)

LEMMA InitVbus == Init => VbusInv
  BY DEF Init, VbusInv, Switching

\* While the task switches, an edge of INT is missed: either the interrupt task has
\* not been started, or it awaits the answer to its own request.
LEMMA NobodyListens ==
  ASSUME Calls!TypeOK, Calls!CallInv, VbusInv, Switching, ~commanded
  PROVE  ~Listening
<1>1. CASE serving = <<>>
  BY <1>1 DEF VbusInv, Listening
<1>2. CASE serving # <<>>
  BY <1>2, CallerOf DEF VbusInv, Listening
<1> QED
  BY <1>1, <1>2

LEMMA FlipKeepsVbus ==
  ASSUME LinesTyped, TaskTyped, Calls!TypeOK, Calls!CallInv, VbusInv, FlipVbus
  PROVE  VbusInv'
<1> DEFINE falls == ~IntLow /\ (vbus' \/ held) # seen
<1>1. /\ vbus' = ~vbus
      /\ edge' = (edge \/ (falls /\ Listening))
      /\ edgeMissed' = (edgeMissed \/ (falls /\ ~Listening))
      /\ UNCHANGED <<held, seen, reading, target, mode, task, initialised, interrupt,
                     serving, responses, phase, commanded, failures>>
  BY DEF FlipVbus, Fall, callVars, chipVars, taskVars, otherVars
<1>2. {vbus, held, seen, reading, edge, edgeMissed} \subseteq BOOLEAN
  BY DEF LinesTyped, TaskTyped
<1>3. /\ ~initialised' => interrupt' = "off"
      /\ Switching' /\ serving' = <<>> => ~initialised'
      /\ Switching' /\ ~commanded' /\ serving' # <<>> => Head(serving').from = "int"
  BY <1>1 DEF VbusInv, Switching
<1>4. ASSUME Faithful', initialised', Settled', ~Switching'
      PROVE  InStep'
  <2>1. Faithful /\ Settled /\ ~falls
    BY <1>1, <1>2, <1>4 DEF Faithful, Settled, Checked
  <2>2. InStep
    BY <1>1, <1>4, <2>1 DEF VbusInv, Switching
  <2> QED
    BY <1>1, <1>2, <2>1, <2>2 DEF InStep, IntLow, Level
<1>5. ASSUME Faithful', Switching'
      PROVE  /\ task' = "pins" => OnItsWay' /\ ~held' /\ vbus' = reading'
             /\ task' = "regs" => OnItsWay' /\ held' = reading' /\ (vbus' => reading')
  <2>1. Faithful /\ Switching
    BY <1>1, <1>2, <1>5 DEF Faithful, Switching
  <2>2. ~falls
    BY <1>1, <1>2, <1>5, <2>1, NobodyListens DEF Faithful
  <2>3. /\ task = "pins" => OnItsWay /\ ~held /\ vbus = reading
        /\ task = "regs" => OnItsWay /\ held = reading /\ (vbus => reading)
    BY <2>1 DEF VbusInv
  <2>4. CASE task = "pins"
    BY <1>1, <1>2, <2>2, <2>3, <2>4 DEF OnItsWay, IntLow, Level
  <2>5. CASE task = "regs"
    BY <1>1, <1>2, <2>2, <2>3, <2>5 DEF OnItsWay, IntLow, Level
  <2> QED
    BY <2>1, <2>4, <2>5 DEF Switching
<1> QED
  BY <1>3, <1>4, <1>5 DEF VbusInv, Switching

\* The steps of the callers neither move the lines nor settle anything.
LEMMA CallersKeepVbus ==
  ASSUME VbusInv, UNCHANGED switchVars, UNCHANGED <<vbus, held, seen, edgeMissed>>,
         Settled' => Settled, ~initialised => interrupt' = "off"
  PROVE  VbusInv'
  BY DEF VbusInv, switchVars, Faithful, Switching, InStep, OnItsWay, Level

LEMMA SameInt ==
  ASSUME edge' = edge, UNCHANGED <<task, serving>>,
         responses' = <<>> \/ responses' = responses,
         phase'["int"] = "idle" => phase["int"] = "idle"
  PROVE  Settled' => Settled
  BY DEF Settled, Checked

LEMMA ClientsKeepVbus ==
  ASSUME LinesTyped, TaskTyped, Calls!TypeOK, Calls!CallInv, SleepInv, VbusInv,
         FlipVbus \/ OtherInterrupt \/ MainTask \/ Shutdown \/ IntTask
         \/ AppTask \/ AppCalls \/ Asleep \/ UNCHANGED vars
  PROVE  VbusInv'
<1>1. UNCHANGED switchVars
  BY ClientSteps DEF vars, switchVars, chipVars, taskVars, callVars
<1>2. UNCHANGED <<task, serving, initialised>>
  BY <1>1 DEF switchVars
<1>3. /\ DOMAIN phase = PowerClients
      /\ "main" \in PowerClients /\ "int" \in PowerClients /\ "app" \in PowerClients
  BY DEF Calls!TypeOK, PowerClients
<1>4. ~initialised => interrupt = "off" /\ responses = <<>>
  BY DEF VbusInv, SleepInv
<1>5. ASSUME NEW c \in PowerClients, Calls!RecvResponse(c)
      PROVE  /\ initialised /\ responses' = <<>>
             /\ c # "int" => phase'["int"] = phase["int"]
             /\ c = "int" => Checked
  <2>1. responses # <<>> /\ responses' = <<>> /\ phase[c] = "awaiting"
        /\ phase' = [phase EXCEPT ![c] = "idle"]
    BY <1>5, OneMessage DEF Calls!RecvResponse
  <2>2. mutex = {c} /\ mutex = {Head(responses).from}
    BY <2>1, CallerOf DEF Calls!CallInv
  <2> QED
    BY <1>3, <1>4, <2>1, <2>2 DEF Checked
<1>6. CASE FlipVbus
  BY <1>6, FlipKeepsVbus
<1>7. CASE Asleep \/ UNCHANGED vars
  BY <1>1, <1>2, <1>4, <1>7, SameInt, CallersKeepVbus
     DEF Asleep, vars, lineVars, callVars, otherVars
<1>8. CASE OtherInterrupt
  BY <1>1, <1>4, <1>8, CallersKeepVbus DEF OtherInterrupt, otherVars, Settled
<1>9. ASSUME NEW c \in PowerClients, TransactStep(c)
      PROVE  VbusInv'
  <2>1. /\ UNCHANGED <<lineVars, interrupt, responses>>
        /\ phase' = phase \/ (phase[c] # "idle" /\ phase' = [phase EXCEPT ![c] = phase'[c]])
    BY <1>3, <1>9 DEF TransactStep, LockAndSend, WaitForMutex, Calls!Lock,
       Calls!SendRequest, otherVars, callVars
  <2>2. phase'["int"] = "idle" => phase["int"] = "idle"
    BY <1>3, <1>9, <2>1 DEF TransactStep, LockAndSend, WaitForMutex, Calls!Lock,
       Calls!SendRequest, callVars
  <2> QED
    BY <1>1, <1>2, <1>4, <2>1, <2>2, SameInt, CallersKeepVbus DEF lineVars
<1>10. CASE MainBoots \/ Shutdown \/ ShipBoard \/ AppCalls
  <2>1. UNCHANGED <<lineVars, interrupt, responses>> /\ phase'["int"] = phase["int"]
    BY <1>3, <1>10 DEF MainBoots, Shutdown, ShipBoard, AppCalls, MainCalls, Calls!Call
  <2> QED
    BY <1>1, <1>2, <1>4, <2>1, SameInt, CallersKeepVbus DEF lineVars
<1>11. CASE MainRuns \/ BoostIsOff \/ Sleep \/ AppReturns
  <2>1. /\ Calls!RecvResponse("main") \/ Calls!RecvResponse("app")
        /\ UNCHANGED lineVars
    BY <1>11 DEF MainRuns, BoostIsOff, Sleep, AppReturns, MainReturns
  <2> QED
    BY <1>1, <1>2, <1>3, <1>5, <2>1, SameInt, CallersKeepVbus DEF lineVars
<1>12. CASE IntStarts
  BY <1>1, <1>2, <1>4, <1>12, SameInt, CallersKeepVbus DEF IntStarts, lineVars, callVars
<1>13. CASE IntCalls
  <2>1. /\ phase["int"] = "idle" /\ phase'["int"] = "locking"
        /\ UNCHANGED <<vbus, held, seen, edgeMissed, interrupt, responses>>
    BY <1>3, <1>13 DEF IntCalls, Calls!Call, otherVars
  <2>2. ~Checked
    BY <2>1, CallerOf DEF Checked
  <2>3. ~Settled'
    BY <1>2, <2>1, <2>2 DEF Settled, Checked
  <2> QED
    BY <1>1, <1>4, <2>1, <2>3, CallersKeepVbus
<1>14. CASE IntListens
  <2>1. Calls!RecvResponse("int") /\ UNCHANGED <<lineVars, interrupt>>
    BY <1>14 DEF IntListens, otherVars
  <2>2. Settled' => Settled
    BY <1>3, <1>5, <2>1 DEF Settled, lineVars
  <2> QED
    BY <1>1, <1>3, <1>4, <1>5, <2>1, <2>2, CallersKeepVbus DEF lineVars
<1> QED
  BY <1>3, <1>6, <1>7, <1>8, <1>9, <1>10, <1>11, <1>12, <1>13, <1>14
     DEF MainTask, IntTask, AppTask

\* Only the interrupt task asks for a check.
LEMMA CheckedByInt ==
  ASSUME Calls!TypeOK, Calls!CallInv, CallersTyped, MainInv, serving # <<>>
  PROVE  Head(serving).body = "check" <=> Head(serving).from = "int"
<1>1. /\ Head(serving).from \in {"main", "int", "app"}
      /\ phase[Head(serving).from] = "awaiting"
      /\ asked[Head(serving).from] = {Head(serving).body}
  BY CallerOf DEF PowerClients
<1>2. "check" \notin AppRequests
  BY PowerAssumption DEF PowerAssumption
<1>3. Head(serving).from = "main" => Head(serving).body # "check"
  BY <1>1 DEF MainInv, CallersTyped
<1> QED
  BY <1>1, <1>2, <1>3 DEF MainInv

\* A step that is not a switch, after which the invariant asks little or nothing new.
LEMMA RestKeepsVbus ==
  ASSUME VbusInv, UNCHANGED <<interrupt, initialised>>, ~Switching',
         Faithful' /\ initialised' /\ Settled' => InStep'
  PROVE  VbusInv'
  BY DEF VbusInv, Switching

LEMMA PowerKeepsVbus ==
  ASSUME LinesTyped, TaskTyped, SwitchInv, Calls!TypeOK, Calls!CallInv, CallersTyped,
         MainInv, SleepInv, VbusInv, PowerTask
  PROVE  VbusInv'
<1>1. /\ failures \in Nat
      /\ Fail => failures' # 0
  BY Fails, PowerAssumption DEF TaskTyped, PowerAssumption
<1>2. {vbus, held, seen, reading, edge, edgeMissed, initialised} \subseteq BOOLEAN
      /\ mode \in {"Passive", "Charging", "Otg"}
  BY DEF LinesTyped, TaskTyped, Modes
<1>3. VbusInv /\ Faithful /\ initialised /\ Settled /\ ~Switching => InStep
  BY DEF VbusInv
<1>4. Listening => phase["int"] = "idle"
  BY DEF Listening
<1>5. ASSUME Get, ~(edgeMissed' \/ edge')
      PROVE  /\ ~edgeMissed /\ ~edge
             /\ ~held' /\ vbus' = vbus /\ seen' = vbus /\ reading' = vbus
             /\ vbus = Level
  BY <1>2, <1>5 DEF Get, Fall, Level
<1>6. CASE Boot
  BY <1>6, RestKeepsVbus DEF Boot, SwitchInv, Switching, otherVars
<1>7. CASE ReadStats /\ initialised
  <2>1. /\ UNCHANGED <<interrupt, initialised, mode, commanded, failures, callVars>>
        /\ Get /\ task = "top" /\ task' = "select"
    BY <1>7 DEF ReadStats, otherVars
  <2>2. ASSUME Faithful', Settled'
        PROVE  InStep'
    <3>1. Faithful /\ Settled
      BY <1>2, <1>5, <2>1, <2>2 DEF Faithful, Settled, Checked, callVars
    <3> QED
      BY <1>2, <1>3, <1>5, <1>7, <2>1, <2>2, <3>1
         DEF InStep, Level, Switching, Faithful, Settled
  <2> QED
    BY <2>1, <2>2, RestKeepsVbus DEF Switching
<1>8. CASE ReadStats /\ ~initialised
  <2>1. /\ UNCHANGED <<interrupt, initialised, serving, phase>>
        /\ Get /\ task = "top" /\ task' = "pins"
        /\ target' = InitialMode(vbus)
    BY <1>8 DEF ReadStats, otherVars, callVars
  <2>2. ~Listening /\ serving = <<>>
    BY <1>8, <2>1 DEF VbusInv, Listening, SleepInv
  <2>3. ASSUME Faithful'
        PROVE  OnItsWay' /\ ~held' /\ vbus' = reading'
    BY <1>2, <2>1, <2>2, <2>3 DEF Get, Fall, OnItsWay, Faithful, InitialMode
  <2> QED
    BY <1>8, <2>1, <2>2, <2>3 DEF VbusInv, Switching
<1>9. CASE ReadStatsFails
  BY <1>1, <1>9, RestKeepsVbus DEF ReadStatsFails, Switching, Faithful, otherVars
<1>10. CASE PowerTimer
  BY <1>3, <1>10, RestKeepsVbus
     DEF PowerTimer, Switching, Faithful, Settled, Checked, InStep, Level, otherVars,
         callVars, lineVars
<1>11. CASE Receive
  BY <1>3, <1>11, RestKeepsVbus
     DEF Receive, Switching, Faithful, Settled, Checked, InStep, Level, otherVars,
         lineVars, Calls!RecvRequest, Calls!clientVars
<1>12. ASSUME NEW level \in BOOLEAN, SetBoost(level)
      PROVE  VbusInv'
  <2>1. /\ UNCHANGED <<interrupt, initialised, mode, lineVars, commanded, failures,
                       serving, responses, phase>>
        /\ task = "handle" /\ task' = "respond"
        /\ Head(serving).body \in {"boost_on", "boost_off"}
    BY <1>12 DEF SetBoost, Handle, otherVars, callVars
  <2>2. serving # <<>> /\ Head(serving).from # "int"
    BY <2>1, CheckedByInt DEF SwitchInv
  <2> QED
    BY <1>3, <2>1, <2>2, RestKeepsVbus
       DEF Switching, Faithful, Settled, Checked, InStep, Level, lineVars
<1>13. CASE CheckInterrupt
  <2>1. /\ UNCHANGED <<interrupt, initialised, mode, commanded, failures, serving,
                       responses, phase, vbus>>
        /\ edge' = (edge \/ (held /\ ~vbus /\ Listening))
        /\ ~edgeMissed' /\ ~held' /\ seen' = vbus /\ reading' = vbus
        /\ Head(serving).body = "check" /\ task = "handle"
        /\ IF CalledFor(vbus) = {}
             THEN task' = "respond" ELSE task' = "pins" /\ target' \in CalledFor(vbus)
    BY <1>13 DEF CheckInterrupt, Handle, otherVars, callVars
  <2>2. serving # <<>> /\ Head(serving).from = "int" /\ initialised
    BY <2>1, CheckedByInt DEF SwitchInv
  <2>3. CASE CalledFor(vbus) = {}
    <3>1. mode = "Otg" <=> ~vbus
      BY <2>3 DEF CalledFor
    <3> QED
      BY <1>2, <2>1, <2>3, <3>1, RestKeepsVbus DEF Switching, InStep, Level
  <2>4. CASE CalledFor(vbus) # {}
    <3>1. target' = "Otg" <=> ~vbus
      BY <2>1, <2>4 DEF CalledFor
    <3>2. task' = "pins" /\ OnItsWay' /\ vbus' = reading'
      BY <2>1, <2>4, <3>1 DEF OnItsWay
    <3> QED
      BY <2>1, <2>2, <3>2 DEF VbusInv, Switching
  <2> QED
    BY <2>3, <2>4
<1>14. ASSUME NEW req, NEW next, EnterMode(req, next)
      PROVE  VbusInv'
  <2>1. /\ UNCHANGED <<interrupt, initialised, serving>>
        /\ commanded' = TRUE /\ task' = "pins" /\ task = "handle"
    BY <1>14 DEF EnterMode, Handle, otherVars, callVars
  <2> QED
    BY <2>1 DEF VbusInv, Switching, Faithful, SwitchInv
<1>15. CASE HandleFails
  BY <1>1, <1>15, RestKeepsVbus DEF HandleFails, Handle, Switching, Faithful, otherVars
<1>16. CASE SwitchPins
  <2>1. CASE Fail
    BY <1>1, <1>2, <1>16, <2>1
       DEF SwitchPins, VbusInv, InitialisedAfter, Faithful, Switching, AfterFailedSwitch,
           otherVars, callVars
  <2>2. CASE Set(target) /\ task' = "regs" /\ UNCHANGED failures
    <3>1. /\ UNCHANGED <<interrupt, initialised, serving, commanded, reading, target, vbus>>
          /\ task = "pins" /\ seen' = Level /\ held' = reading
          /\ edgeMissed' = (edgeMissed \/ (Level # (vbus \/ reading) /\ ~Listening))
      BY <1>16, <2>2 DEF SwitchPins, Set, Fall, InitialisedAfter, otherVars, callVars
    <3>2. ASSUME Faithful'
          PROVE  OnItsWay' /\ held' = reading' /\ (vbus' => reading')
      <4>1. Faithful
        BY <1>2, <2>2, <3>1, <3>2 DEF Faithful
      <4>2. OnItsWay /\ ~held /\ vbus = reading
        BY <3>1, <4>1 DEF VbusInv
      <4> QED
        BY <1>2, <3>1, <4>2 DEF OnItsWay, Level
    <3> QED
      BY <2>2, <3>1, <3>2 DEF VbusInv, Switching
  <2> QED
    BY <1>16, <2>1, <2>2 DEF SwitchPins
<1>17. CASE SwitchRegs
  <2>1. CASE /\ Fail /\ task' = AfterFailedSwitch
             /\ initialised' = InitialisedAfter(FALSE)
    BY <1>1, <1>2, <1>17, <2>1
       DEF SwitchRegs, VbusInv, InitialisedAfter, Faithful, Switching, AfterFailedSwitch,
           otherVars, callVars
  <2>2. CASE mode' = target /\ initialised' /\ task' = AfterSwitch /\ UNCHANGED failures
    <3>1. UNCHANGED <<interrupt, commanded, edgeMissed, vbus, held, seen>> /\ task = "regs"
      BY <1>17 DEF SwitchRegs, otherVars, lineVars
    <3>2. task' \in {"select", "ship", "respond"}
      BY <2>2 DEF AfterSwitch
    <3>3. ASSUME Faithful'
          PROVE  InStep'
      <4>1. OnItsWay /\ held = reading /\ (vbus => reading)
        BY <2>2, <3>1, <3>3 DEF VbusInv, Faithful
      <4> QED
        BY <1>2, <2>2, <3>1, <4>1 DEF OnItsWay, InStep, Level
    <3> QED
      BY <2>2, <3>1, <3>2, <3>3 DEF VbusInv, Switching
  <2> QED
    BY <1>17, <2>1, <2>2 DEF SwitchRegs, ModeAfter, InitialisedAfter
<1>18. CASE Ship
  BY <1>1, <1>3, <1>18, RestKeepsVbus
     DEF Ship, Switching, Faithful, Settled, Checked, InStep, Level, otherVars, callVars,
         lineVars
<1>19. CASE Respond
  <2>1. /\ UNCHANGED <<interrupt, initialised, mode, lineVars, commanded, failures, phase>>
        /\ task = "respond" /\ task' = "top" /\ serving # <<>> /\ serving' = <<>>
        /\ responses' = Append(responses, Head(serving))
    BY <1>19 DEF Respond, AfterResponse, otherVars, Calls!SendResponse, Calls!clientVars
  <2>2. responses = <<>>
    BY <2>1, OneMessage
  <2>3. Head(responses') = Head(serving)
    BY <2>1, <2>2
  <2>4. Settled' => Settled
    BY <2>1, <2>3 DEF Settled, Checked, lineVars
  <2> QED
    BY <1>3, <2>1, <2>4, RestKeepsVbus
       DEF Switching, Faithful, InStep, Level, lineVars
<1> QED
  BY <1>2, <1>6, <1>7, <1>8, <1>9, <1>10, <1>11, <1>12, <1>13, <1>14, <1>15, <1>16, <1>17,
     <1>18, <1>19 DEF PowerTask

\* With every task waiting, the board sources VBUS exactly when nobody supplies it,
\* whatever the callers asked before: but for a missed edge, a P6 the expander holds,
\* a failing transfer or a commanded mode (handle_power_controller_interrupt).
THEOREM ModeIsVbus == Spec => []ModeFollowsVbus
<1>1. Spec => [](CallersTyped /\ MainInv)
  BY InitTyped, NextCallers, InitMain, NextMain, ChannelHolds, PTL DEF Spec
<1>2. Spec => []SleepInv
  BY <1>1, InitSleep, NextSleep, ChannelHolds, TypedHolds, SwitchCorrect, PTL DEF Spec
<1>3. /\ LinesTyped /\ TaskTyped /\ SwitchInv /\ Calls!TypeOK /\ Calls!CallInv
      /\ CallersTyped /\ MainInv /\ SleepInv /\ VbusInv /\ [Next]_vars
      => VbusInv'
  BY PowerKeepsVbus, ClientsKeepVbus DEF Next
<1>4. Spec => []VbusInv
  BY <1>1, <1>2, <1>3, InitVbus, ChannelHolds, TypedHolds, SwitchCorrect, PTL DEF Spec
<1>5. LinesTyped /\ SwitchInv /\ VbusInv => ModeFollowsVbus
  BY DEF LinesTyped, SwitchInv, VbusInv, ModeFollowsVbus, Quiet, Faithful, Settled,
         Switching, InStep, Level
<1> QED
  BY <1>4, <1>5, TypedHolds, SwitchCorrect, PTL

-----------------------------------------------------------------------------
(* The design. *)

\* A message that carries the shipping request is main's, who waits for the answer.
LEMMA ShippingIsMains ==
  ASSUME Calls!TypeOK, Calls!CallInv, MainInv, CallersTyped,
         NEW q \in {serving, responses}, Carries(q, "shipping")
  PROVE  Head(q).from = "main" /\ main = "shipping" /\ mutex = {"main"}
<1>1. /\ q # <<>> /\ Head(q).from \in {"main", "int", "app"}
      /\ phase[Head(q).from] = "awaiting"
      /\ asked[Head(q).from] = {"shipping"}
  BY CallerOf DEF Carries, PowerClients
<1>2. "shipping" \notin AppRequests
  BY PowerAssumption DEF PowerAssumption
<1>3. Head(q).from = "main"
  BY <1>1, <1>2 DEF MainInv
<1>4. main = "shipping"
  BY <1>1, <1>3 DEF MainInv, CallersTyped
<1>5. mutex = {"main"}
  BY <1>1, <1>3 DEF Calls!CallInv, PowerClients
<1> QED
  BY <1>3, <1>4, <1>5

LEMMA InitDesign == Init => DesignInv /\ Design!Init
  BY DEF Init, Calls!CallInit, DesignInv, Switching, Modes, Design!Init, Design!Modes

\* Whoever takes the answer to the shipping request is main, which then sleeps.
LEMMA AnswerTaken ==
  ASSUME Calls!TypeOK, Calls!CallInv, CallersTyped, MainInv, Carries(responses, "shipping"),
         NEW c \in PowerClients, Calls!RecvResponse(c)
  PROVE  c = "main" /\ main = "shipping"
<1>1. phase[c] = "awaiting" /\ mutex = {"main"} /\ main = "shipping"
  BY ShippingIsMains DEF Calls!RecvResponse
<1> QED
  BY <1>1 DEF Calls!CallInv

LEMMA ClientsKeepDesign ==
  ASSUME Calls!TypeOK, Calls!CallInv, CallersTyped, MainInv, DesignInv,
         FlipVbus \/ OtherInterrupt \/ MainTask \/ Shutdown \/ IntTask
         \/ AppTask \/ AppCalls \/ Asleep \/ UNCHANGED vars
  PROVE  DesignInv'
<1>1. UNCHANGED switchVars
  BY ClientSteps DEF vars, switchVars, chipVars, taskVars, callVars
<1>2. /\ Carries(serving, "shipping")' = Carries(serving, "shipping")
      /\ (InCharging' <=> InCharging) /\ (Switching' <=> Switching)
      /\ UNCHANGED <<task, target, reading, batfet>>
  BY <1>1 DEF Carries, InCharging, Switching, switchVars
<1>3. ASSUME OnlyMainIsLeft => OnlyMainIsLeft'
      PROVE  DesignInv'
  BY <1>2, <1>3 DEF DesignInv
<1>4. ASSUME responses' = responses, main = "asleep" => main' = "asleep"
      PROVE  DesignInv'
  <2>1. Carries(responses, "shipping")' = Carries(responses, "shipping")
    BY <1>4 DEF Carries
  <2> QED
    BY <1>2, <1>3, <1>4, <2>1 DEF OnlyMainIsLeft
<1>5. ASSUME Carries(responses, "shipping") => main' = "asleep",
             main = "asleep" => main' = "asleep"
      PROVE  DesignInv'
  BY <1>2, <1>3, <1>5 DEF OnlyMainIsLeft
<1>6. ASSUME NEW c \in PowerClients, TransactStep(c)
      PROVE  UNCHANGED <<main, responses>>
  BY <1>6 DEF TransactStep, LockAndSend, WaitForMutex, Calls!Lock, Calls!SendRequest,
     otherVars, callVars
<1>7. "main" \in PowerClients /\ "int" \in PowerClients /\ "app" \in PowerClients
  BY DEF PowerClients
<1>8. CASE FlipVbus \/ OtherInterrupt \/ Asleep \/ UNCHANGED vars
  BY <1>4, <1>8 DEF FlipVbus, OtherInterrupt, Asleep, vars, otherVars, callVars
<1>9. CASE MainBoots \/ Shutdown \/ ShipBoard
  BY <1>4, <1>9 DEF MainBoots, Shutdown, ShipBoard, MainCalls, Calls!Call
<1>10. CASE MainRuns \/ BoostIsOff
  BY <1>5, <1>7, <1>10, AnswerTaken DEF MainRuns, BoostIsOff, MainReturns
<1>11. CASE Sleep
  BY <1>5, <1>11 DEF Sleep, MainReturns
<1>12. CASE IntListens \/ AppReturns
  BY <1>5, <1>7, <1>12, AnswerTaken DEF IntListens, AppReturns, otherVars
<1>13. CASE IntStarts \/ IntCalls \/ AppCalls
  BY <1>4, <1>13 DEF IntStarts, IntCalls, AppCalls, Calls!Call, otherVars, callVars
<1> QED
  BY <1>4, <1>6, <1>7, <1>8, <1>9, <1>10, <1>11, <1>12, <1>13
     DEF MainTask, IntTask, AppTask

\* While a request is handled or the mode is switched, the battery is connected.
LEMMA BatteryInUse ==
  ASSUME TaskTyped, DesignInv, task \in {"boot", "handle", "pins", "regs", "ship", "stopped"}
  PROVE  batfet = TRUE
  BY DEF TaskTyped, DesignInv, OnlyMainIsLeft

LEMMA PowerKeepsDesign ==
  ASSUME LinesTyped, TaskTyped, SwitchInv, Calls!TypeOK, Calls!CallInv, CallersTyped,
         MainInv, SleepInv, DesignInv, PowerTask
  PROVE  DesignInv'
<1>1. main' = main
  BY PowerSteps
<1>2. batfet \in BOOLEAN
  BY DEF TaskTyped
\* Steps of the loop.
<1>3. ASSUME UNCHANGED <<responses, serving, batfet, pins, charger, mode>>,
             task \in {"top", "retry", "select"}, task' \in {"top", "retry", "select"}
      PROVE  DesignInv'
  <2>1. /\ Carries(responses, "shipping")' = Carries(responses, "shipping")
        /\ InCharging' <=> InCharging
    BY <1>3 DEF Carries, InCharging
  <2> QED
    BY <1>1, <1>3, <2>1 DEF DesignInv, OnlyMainIsLeft, Switching
\* Steps after which the battery is connected.
<1>4. ASSUME batfet' = TRUE, task' # "ship",
             Switching' => /\ target' = "Otg" => ~reading'
                           /\ Carries(serving, "shipping")' => target' = "Charging"
      PROVE  DesignInv'
  BY <1>4 DEF DesignInv
<1>5. CASE Boot
  <2>1. batfet = TRUE
    BY <1>5, BatteryInUse DEF Boot
  <2>2. task' \in {"top", "stopped"}
    BY <1>5 DEF Boot
  <2>3. batfet' = batfet \/ batfet' = TRUE
    BY <1>5, Zenon DEF Boot
  <2>4. batfet' = TRUE
    BY <2>1, <2>3, Zenon
  <2> QED
    BY <1>4, <2>2, <2>4 DEF Switching
<1>6. CASE ReadStats
  <2>1. CASE initialised
    BY <1>3, <1>6, <2>1 DEF ReadStats, callVars, chipVars
  <2>2. CASE ~initialised
    <3>1. /\ serving = <<>> /\ serving' = <<>> /\ responses = <<>>
          /\ task = "top" /\ task' = "pins" /\ batfet' = batfet
          /\ target' = InitialMode(vbus) /\ reading' = vbus
      BY <1>6, <2>2 DEF ReadStats, SleepInv, Get, callVars, chipVars
    <3>2. main # "asleep" /\ batfet = TRUE
      BY <1>2, <3>1, PowerSteps DEF MainInv, MayRun, DesignInv, OnlyMainIsLeft, Carries
    <3>3. target' = "Otg" => ~reading'
      BY <3>1 DEF InitialMode
    <3> QED
      BY <1>4, <3>1, <3>2, <3>3 DEF Carries
  <2> QED
    BY <2>1, <2>2
<1>7. CASE ReadStatsFails
  BY <1>3, <1>7 DEF ReadStatsFails, callVars, chipVars
<1>8. CASE PowerTimer
  BY <1>3, <1>8 DEF PowerTimer, callVars, chipVars
<1>9. CASE Receive
  <2>1. requests # <<>> /\ task = "select" /\ task' = "handle" /\ batfet' = batfet
    BY <1>9 DEF Receive, Calls!RecvRequest, chipVars
  <2>2. main # "asleep" /\ ~Carries(responses, "shipping")
    BY <2>1, OneMessage, PowerSteps DEF MainInv, MayRun, Carries
  <2>3. batfet = TRUE
    BY <1>2, <2>1, <2>2 DEF DesignInv, OnlyMainIsLeft
  <2> QED
    BY <1>4, <2>1, <2>3 DEF Switching
<1>10. ASSUME NEW req, Handle(req)
       PROVE  /\ serving' = serving /\ Head(serving).body = req
              /\ batfet' = TRUE
  BY <1>10, BatteryInUse DEF Handle, callVars
<1>11. ASSUME NEW level \in BOOLEAN, SetBoost(level)
       PROVE  DesignInv'
  BY <1>4, <1>10, <1>11 DEF SetBoost, Switching
<1>12. CASE CheckInterrupt
  <2>1. /\ Handle("check") /\ reading' = vbus /\ task' \in {"pins", "respond"}
        /\ task' = "pins" => target' \in CalledFor(vbus)
    BY <1>12 DEF CheckInterrupt
  <2>2. task' = "pins" /\ target' = "Otg" => ~reading'
    BY <2>1 DEF CalledFor
  <2>3. serving' = serving /\ Head(serving).body = "check"
    BY <1>10, <2>1
  <2>4. ~Carries(serving, "shipping")'
    BY <2>3 DEF Carries
  <2> QED
    BY <1>4, <1>10, <2>1, <2>2, <2>4 DEF Switching
<1>13. CASE EnterMode("shipping", "Charging")
  <2>1. Handle("shipping") /\ task' = "pins" /\ target' = "Charging"
    BY <1>13 DEF EnterMode
  <2> QED
    BY <1>4, <1>10, <2>1
<1>14. CASE EnterMode("passive", "Passive")
  <2>1. Handle("passive") /\ task' = "pins" /\ target' = "Passive"
    BY <1>14 DEF EnterMode
  <2>2. serving' = serving /\ Head(serving).body = "passive"
    BY <1>10, <2>1
  <2>3. ~Carries(serving, "shipping")'
    BY <2>2 DEF Carries
  <2> QED
    BY <1>4, <1>10, <2>1, <2>3
<1>15. CASE HandleFails
  BY <1>4, <1>10, <1>15 DEF HandleFails, Switching
<1>16. CASE SwitchPins
  <2>1. /\ task = "pins" /\ UNCHANGED <<serving, batfet, target, reading>>
        /\ task' \in {"regs", AfterFailedSwitch}
    BY <1>16 DEF SwitchPins, callVars
  <2>2. task' # "ship" /\ batfet' = TRUE
    BY <2>1, BatteryInUse DEF AfterFailedSwitch
  <2>3. Carries(serving, "shipping")' = Carries(serving, "shipping")
    BY <2>1 DEF Carries
  <2> QED
    BY <1>4, <2>1, <2>2, <2>3 DEF DesignInv, Switching
<1>17. CASE SwitchRegs
  <2>1. /\ task = "regs" /\ UNCHANGED <<serving, batfet, target, pins>> /\ batfet' = TRUE
        /\ \/ charger' = target /\ mode' = target /\ task' = AfterSwitch
           \/ task' = AfterFailedSwitch
    BY <1>17, BatteryInUse DEF SwitchRegs, ModeAfter, callVars
  <2>2. CASE task' # "ship"
    <3>1. ~Switching'
      BY <2>1 DEF AfterSwitch, AfterFailedSwitch, Switching
    <3> QED
      BY <1>4, <2>1, <2>2, <3>1
  <2>3. CASE task' = "ship"
    <3>1. /\ Carries(serving, "shipping") /\ Carries(serving, "shipping")'
          /\ charger' = target /\ mode' = target
      BY <2>1, <2>3 DEF AfterSwitch, AfterFailedSwitch, Carries
    <3>2. InCharging'
      BY <2>1, <3>1 DEF SwitchInv, DesignInv, Switching, InCharging
    <3> QED
      BY <2>1, <2>3, <3>1, <3>2 DEF DesignInv, Switching
  <2> QED
    BY <2>2, <2>3
<1>18. CASE Ship
  <2>1. /\ task = "ship" /\ task' = "respond"
        /\ UNCHANGED <<serving, pins, charger, mode>>
    BY <1>18 DEF Ship, callVars
  <2>2. Carries(serving, "shipping")' /\ InCharging'
    BY <2>1 DEF DesignInv, Carries, InCharging
  <2> QED
    BY <2>1, <2>2 DEF DesignInv, OnlyMainIsLeft, Switching
<1>19. CASE Respond
  <2>1. /\ serving # <<>> /\ responses' = Append(responses, Head(serving))
        /\ task = "respond" /\ task' = "top"
        /\ UNCHANGED <<mode, pins, charger, batfet>>
    BY <1>19 DEF Respond, AfterResponse, Calls!SendResponse, chipVars
  <2>2. responses' = <<Head(serving)>>
    BY <2>1, OneMessage
  <2>3. /\ Carries(serving, "shipping") => Carries(responses, "shipping")'
        /\ InCharging' <=> InCharging
    BY <2>1, <2>2 DEF Carries, InCharging
  <2> QED
    BY <2>1, <2>3 DEF DesignInv, OnlyMainIsLeft, Switching
<1> QED
  BY <1>5, <1>6, <1>7, <1>8, <1>9, <1>11, <1>12, <1>13, <1>14, <1>15, <1>16, <1>17, <1>18,
     <1>19 DEF PowerTask, ShippingMode

LEMMA DesignHolds == Spec => []DesignInv
<1>1. Spec => [](CallersTyped /\ MainInv)
  BY InitTyped, NextCallers, InitMain, NextMain, ChannelHolds, PTL DEF Spec
<1>2. Spec => []SleepInv
  BY <1>1, InitSleep, NextSleep, ChannelHolds, TypedHolds, SwitchCorrect, PTL DEF Spec
<1>3. /\ LinesTyped /\ TaskTyped /\ SwitchInv /\ Calls!TypeOK /\ Calls!CallInv
      /\ CallersTyped /\ MainInv /\ SleepInv /\ DesignInv /\ [Next]_vars
      => DesignInv'
  BY PowerKeepsDesign, ClientsKeepDesign DEF Next
<1> QED
  BY <1>1, <1>2, <1>3, InitDesign, ChannelHolds, TypedHolds, SwitchCorrect, PTL DEF Spec

\* The battery is disconnected in charging mode only, whatever transfer failed before
\* and whatever was asked since: the bus is not driven by a board about to lose its
\* own supply (enter_shipping_mode).
THEOREM BatteryGoesLast == Spec => [](~batfet => InCharging /\ OnlyMainIsLeft)
<1>1. DesignInv => (~batfet => InCharging /\ OnlyMainIsLeft)
  BY DEF DesignInv
<1> QED
  BY <1>1, DesignHolds, PTL

LEMMA DesignStep ==
  ASSUME LinesTyped, TaskTyped, TaskTyped', SwitchInv, DesignInv, [Next]_vars
  PROVE  [Design!Next]_(Design!vars)
<1> DEFINE up == task \notin {"boot", "stopped"}
           chips == <<pins, charger, mode, batfet, boost>>
<1> USE DEF Design!vars
<1>1. ASSUME UNCHANGED <<vbus, reading, chips, task>>
      PROVE  UNCHANGED Design!vars
  BY <1>1
<1>2. ASSUME UNCHANGED <<vbus, reading, chips>>, up, up'
      PROVE  UNCHANGED Design!vars
  BY <1>2
<1>3. ASSUME UNCHANGED <<vbus, chips>>, up, up', reading' = vbus
      PROVE  Design!Look
  BY <1>3 DEF Design!Look
<1>4. CASE FlipVbus
  BY <1>4 DEF FlipVbus, chipVars, taskVars, Design!Next, Design!Plug
<1>5. CASE OtherInterrupt \/ MainTask \/ Shutdown \/ IntTask \/ AppTask \/ AppCalls
           \/ Asleep \/ UNCHANGED vars
  <2>1. UNCHANGED switchVars
    BY <1>5, ClientSteps DEF vars, switchVars, chipVars, taskVars, callVars
  <2>2. vbus' = vbus
    BY <1>5 DEF OtherInterrupt, MainTask, MainBoots, MainRuns, BoostIsOff, ShipBoard, Sleep,
       Shutdown, MainCalls, MainReturns, IntTask, IntStarts, IntCalls, IntListens, AppTask,
       AppReturns, AppCalls, TransactStep, LockAndSend, WaitForMutex, Asleep, vars, lineVars
  <2> QED
    BY <1>1, <2>1, <2>2 DEF switchVars
<1>6. CASE Boot
  <2>1. /\ task = "boot" /\ boost' = FALSE
        /\ UNCHANGED <<charger, mode, reading>>
    BY <1>6 DEF Boot
  <2>2. /\ task' \in {"stopped", "top"} /\ pins' \in {pins, "Passive"}
        /\ task' = "top" => pins' = "Passive"
    BY <1>6 DEF Boot
  <2>3. vbus' = vbus
    BY <1>6 DEF Boot, lineVars
  <2>4. batfet = TRUE
    BY <2>1, BatteryInUse
  <2>5. batfet' = batfet \/ batfet' = TRUE
    BY <1>6, Zenon DEF Boot
  <2>6. batfet' = batfet
    BY <2>4, <2>5, Zenon
  <2>7. ~up /\ (up' => pins' = "Passive") /\ up' \in BOOLEAN
    BY <2>1, <2>2
  <2>8. Design!SetUp
    BY <2>1, <2>2, <2>3, <2>6, <2>7 DEF Design!SetUp
  <2> QED
    BY <2>8 DEF Design!Next
<1>7. CASE ReadStats
  <2>1. UNCHANGED <<vbus, chips>> /\ up /\ up' /\ reading' = vbus
    BY <1>7 DEF ReadStats, Get, chipVars
  <2> QED
    BY <1>3, <2>1 DEF Design!Next
<1>8. CASE ReadStatsFails \/ PowerTimer \/ Receive \/ Respond
  <2>1. UNCHANGED <<vbus, reading, chips>> /\ up /\ up'
    BY <1>8 DEF ReadStatsFails, PowerTimer, Receive, Respond, AfterResponse, chipVars, lineVars
  <2> QED
    BY <1>2, <2>1
<1>9. ASSUME NEW level \in BOOLEAN, SetBoost(level)
      PROVE  Design!SwitchBoost
  <2>1. /\ UNCHANGED <<vbus, reading, pins, charger, mode, batfet>> /\ boost' = level
        /\ task = "handle" /\ task' = "respond"
    BY <1>9 DEF SetBoost, Handle, lineVars
  <2> QED
    BY <2>1, BatteryInUse DEF Design!SwitchBoost
<1>10. CASE CheckInterrupt \/ EnterMode("shipping", "Charging") \/ EnterMode("passive", "Passive")
  <2>1. UNCHANGED <<vbus, chips>> /\ up /\ up' /\ reading' = vbus
    BY <1>10 DEF CheckInterrupt, EnterMode, Handle, Get
  <2> QED
    BY <1>3, <2>1 DEF Design!Next
<1>11. CASE HandleFails
  <2>1. UNCHANGED <<vbus, reading, chips>> /\ up /\ up'
    BY <1>11 DEF HandleFails, Handle, lineVars
  <2> QED
    BY <1>2, <2>1
<1>12. CASE SwitchPins
  <2>1. /\ UNCHANGED <<vbus, reading, charger, mode, batfet, boost>>
        /\ task = "pins" /\ task' \in {"regs", AfterFailedSwitch}
        /\ pins' = pins \/ pins' = target
    BY <1>12 DEF SwitchPins, Set, ModeAfter, lineVars
  <2>2. up /\ up' /\ batfet
    BY <2>1, BatteryInUse DEF AfterFailedSwitch
  <2>3. CASE pins' = pins
    BY <1>2, <2>1, <2>2, <2>3
  <2>4. CASE pins' = target
    <3>1. pins' = "Otg" => ~reading
      BY <2>1, <2>4 DEF DesignInv, Switching
    <3>2. pins' \in Design!Modes
      BY DEF TaskTyped, Modes, Design!Modes
    <3>3. Design!Isolate
      BY <2>1, <2>2, <3>1, <3>2 DEF Design!Isolate
    <3> QED
      BY <3>3 DEF Design!Next
  <2> QED
    BY <2>1, <2>3, <2>4
<1>13. CASE SwitchRegs
  <2>1. /\ UNCHANGED <<vbus, reading, pins, batfet, boost>> /\ task = "regs" /\ pins = target
        /\ task' \in {AfterSwitch, AfterFailedSwitch}
        /\ \/ charger' = target /\ mode' = target
           \/ charger' = charger /\ mode' = mode
    BY <1>13 DEF SwitchRegs, ModeAfter, SwitchInv, lineVars
  <2>2. up /\ up' /\ batfet
    BY <2>1, BatteryInUse DEF AfterSwitch, AfterFailedSwitch
  <2>3. CASE charger' = charger /\ mode' = mode
    BY <1>2, <2>1, <2>2, <2>3
  <2>4. CASE charger' = target /\ mode' = target
    BY <2>1, <2>2, <2>4 DEF Design!Next, Design!Follow
  <2> QED
    BY <2>1, <2>3, <2>4
<1>14. CASE Ship
  <2>1. /\ UNCHANGED <<vbus, reading, pins, charger, mode, boost>>
        /\ task = "ship" /\ task' = "respond"
        /\ batfet' = batfet \/ batfet' = FALSE
    BY <1>14 DEF Ship, lineVars
  <2>2. up /\ up' /\ InCharging
    BY <2>1 DEF DesignInv
  <2>3. CASE batfet' = batfet
    BY <1>2, <2>1, <2>2, <2>3
  <2>4. CASE batfet' = FALSE
    BY <2>1, <2>2, <2>4 DEF InCharging, Design!Next, Design!Disconnect
  <2> QED
    BY <2>1, <2>3, <2>4, Zenon
<1> QED
  BY <1>4, <1>5, <1>6, <1>7, <1>8, <1>9, <1>10, <1>11, <1>12, <1>13, <1>14
     DEF Next, PowerTask, ShippingMode, Design!Next

\* Task, callers, channel and failing transfers together implement the design, for
\* every capacity and any number of calls and failures (switch_mode,
\* enter_shipping_mode, handle_power_controller_command).
THEOREM PowerImplementsDesign == Spec => ImplementsPowerDesign
<1>1. LinesTyped /\ TaskTyped /\ TaskTyped' /\ SwitchInv /\ DesignInv /\ [Next]_vars
      => [Design!Next]_(Design!vars)
  BY DesignStep
<1> QED
  BY <1>1, InitDesign, DesignHolds, TypedHolds, SwitchCorrect, PTL
     DEF Spec, ImplementsPowerDesign, Design!Spec
=============================================================================
