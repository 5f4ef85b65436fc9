----------------------------- MODULE ServoProofs -----------------------------
(***************************************************************************)
(* Theorems about ServoController, for every channel capacity, every pair  *)
(* of positions, every speed and every timer tick.                         *)
(***************************************************************************)
EXTENDS ServoController, TLAPS

(***************************************************************************)
(* Lemmas on the arithmetic.                                               *)
(***************************************************************************)

LEMMA ProductType ==
  ASSUME NEW a \in Nat, NEW b \in Nat
  PROVE  a * b \in Nat
BY SMT

LEMMA QuotientType ==
  ASSUME NEW a \in Nat, NEW t \in Nat, t # 0
  PROVE  a \div t \in Nat
BY SMT

LEMMA ProductMonotone ==
  ASSUME NEW a \in Nat, NEW b \in Nat, NEW c \in Nat, b <= c
  PROVE  a * b <= a * c
BY SMT

\* A share n of total of a distance is never more than the distance.
LEMMA ShareBounded ==
  ASSUME NEW d \in Nat, NEW n \in Nat, NEW t \in Nat, t # 0, n <= t
  PROVE  (d * n) \div t \in Nat /\ (d * n) \div t <= d
BY SMT

LEMMA DistanceType ==
  ASSUME NEW a \in Nat, NEW b \in Nat
  PROVE  Distance(a, b) \in Nat
BY DEF Distance

LEMMA DegreesType ==
  ASSUME NEW degrees \in 0..HalfTurn
  PROVE  DegreesToTicks(degrees) \in MinPulse..MaxPulse
<1> DEFINE range == MaxPulse - MinPulse
<1>1. range \in Nat /\ MinPulse \in Nat /\ MaxPulse = MinPulse + range
  BY ServoAssumption
<1>2. HalfTurn \in Nat /\ HalfTurn # 0
  BY DEF HalfTurn
<1> HIDE DEF range
<1>3. degrees * range = range * degrees /\ degrees \in Nat /\ degrees <= HalfTurn
  BY <1>1, <1>2
<1>4. (range * degrees) \div HalfTurn \in Nat /\ (range * degrees) \div HalfTurn <= range
  BY <1>1, <1>2, <1>3, ShareBounded
<1>5. DegreesToTicks(degrees) = MinPulse + (degrees * range) \div HalfTurn
  BY DEF DegreesToTicks, range
<1> QED
  BY <1>1, <1>3, <1>4, <1>5

\* Both positions are within the limits of the pulse.
LEMMA TargetType ==
  ASSUME NEW cmd \in Commands
  PROVE  Target(cmd) \in MinPulse..MaxPulse
<1>1. OpenTicks \in MinPulse..MaxPulse
  BY DegreesType, ServoAssumption DEF OpenTicks
<1>2. ClosedTicks \in MinPulse..MaxPulse
  BY DegreesType, ServoAssumption DEF ClosedTicks
<1> QED
  BY <1>1, <1>2 DEF Target

LEMMA StepsType ==
  ASSUME NEW from \in Nat, NEW to \in Nat
  PROVE  Steps(from, to) \in Nat
<1> DEFINE range == MaxPulse - MinPulse
<1>1. range \in Nat /\ range # 0 /\ TickIntervalMs \in Nat /\ TickIntervalMs # 0
      /\ FullRangeMs \in Nat
  BY ServoAssumption
<1> HIDE DEF range
<1>2. FullRangeMs * Distance(from, to) \in Nat
  BY <1>1, DistanceType, ProductType
<1>3. (FullRangeMs * Distance(from, to)) \div range \in Nat
  BY <1>1, <1>2, QuotientType
<1>4. ((FullRangeMs * Distance(from, to)) \div range) \div TickIntervalMs \in Nat
  BY <1>1, <1>3, QuotientType
<1> QED
  BY <1>4 DEF Steps, range

\* An interpolated position lies between the ends of the movement, where the
\* clamp to the limits of the pulse changes nothing.
LEMMA PositionExact ==
  ASSUME NEW from \in MinPulse..MaxPulse, NEW to \in MinPulse..MaxPulse,
         NEW total \in Nat, total # 0, NEW n \in 0..total
  PROVE  LET moved == (Distance(from, to) * n) \div total
         IN  /\ moved \in Nat
             /\ moved <= Distance(from, to)
             /\ Position(from, to, n, total) =
                  IF from <= to THEN from + moved ELSE from - moved
<1> DEFINE moved == (Distance(from, to) * n) \div total
<1>1. MinPulse \in Nat /\ MaxPulse \in Nat /\ from \in Nat /\ to \in Nat
  BY ServoAssumption
<1>2. Distance(from, to) \in Nat /\ n \in Nat /\ n <= total
  BY <1>1, DistanceType
<1>3. moved \in Nat /\ moved <= Distance(from, to)
  BY <1>2, ShareBounded
<1>4. Position(from, to, n, total) =
        Clamp(IF from <= to THEN from + moved ELSE from - moved)
  BY DEF Position
<1> HIDE DEF moved
<1>5. (IF from <= to THEN from + moved ELSE from - moved) \in MinPulse..MaxPulse
  BY <1>1, <1>3 DEF Distance
<1>6. \A x \in MinPulse..MaxPulse : Clamp(x) = x
  BY <1>1 DEF Clamp
<1> QED
  BY <1>3, <1>4, <1>5, <1>6 DEF moved

LEMMA PositionType ==
  ASSUME NEW from \in Nat, NEW to \in Nat, NEW n \in Nat, NEW total \in Nat, total # 0
  PROVE  Position(from, to, n, total) \in MinPulse..MaxPulse
<1> DEFINE moved == (Distance(from, to) * n) \div total
<1>1. moved \in Nat
  BY DistanceType, ProductType, QuotientType
<1> HIDE DEF moved
<1>2. \A x \in Int : Clamp(x) \in MinPulse..MaxPulse
  BY ServoAssumption DEF Clamp
<1>3. Position(from, to, n, total) =
        Clamp(IF from <= to THEN from + moved ELSE from - moved)
  BY DEF Position, moved
<1> QED
  BY <1>1, <1>2, <1>3

LEMMA PositionBetween ==
  ASSUME NEW from \in MinPulse..MaxPulse, NEW to \in MinPulse..MaxPulse,
         NEW total \in Nat, total # 0, NEW n \in 0..total
  PROVE  /\ Position(from, to, n, total) \in MinPulse..MaxPulse
         /\ Between(Position(from, to, n, total), from, to)
<1> DEFINE moved == (Distance(from, to) * n) \div total
<1>1. MinPulse \in Nat /\ MaxPulse \in Nat
  BY ServoAssumption
<1>2. /\ moved \in Nat
      /\ moved <= Distance(from, to)
      /\ Position(from, to, n, total) = IF from <= to THEN from + moved ELSE from - moved
  BY PositionExact
<1> HIDE DEF moved
<1> QED
  BY <1>1, <1>2 DEF Distance, Between
(***************************************************************************)
(* Lemmas on the channel.                                                  *)
(***************************************************************************)

\* Offering a command leaves a channel, of one command more or the same.
LEMMA OfferType ==
  ASSUME NEW q \in Seq(Commands), Len(q) <= CommandCapacity, NEW cmd \in Commands
  PROVE  /\ Offer(q, cmd) \in Seq(Commands)
         /\ Len(Offer(q, cmd)) <= CommandCapacity
         /\ Len(Offer(q, cmd)) <= Len(q) + 1
         /\ Offer(q, cmd) # <<>>
BY ServoAssumption DEF Offer

LEMMA TailType ==
  ASSUME NEW q \in Seq(Commands), Len(q) <= CommandCapacity, q # <<>>
  PROVE  /\ Tail(q) \in Seq(Commands)
         /\ Len(Tail(q)) = Len(q) - 1
         /\ Len(Tail(q)) <= CommandCapacity
         /\ Len(q) > 0
BY ServoAssumption

\* Sending a command back leaves a channel no longer than before.
LEMMA ResendType ==
  ASSUME channel \in Seq(Commands), Len(channel) <= CommandCapacity, channel # <<>>,
         NEW cmd \in Commands
  PROVE  /\ Resend(cmd) \in Seq(Commands)
         /\ Len(Resend(cmd)) <= CommandCapacity
         /\ Len(Resend(cmd)) <= Len(channel)
         /\ Resend(cmd) # <<>>
<1>1. /\ Tail(channel) \in Seq(Commands)
      /\ Len(Tail(channel)) = Len(channel) - 1
      /\ Len(Tail(channel)) <= CommandCapacity
  BY TailType
<1>2. /\ Offer(Tail(channel), cmd) \in Seq(Commands)
      /\ Len(Offer(Tail(channel), cmd)) <= CommandCapacity
      /\ Len(Offer(Tail(channel), cmd)) <= Len(Tail(channel)) + 1
      /\ Offer(Tail(channel), cmd) # <<>>
  BY <1>1, OfferType
<1>3. Len(channel) \in Nat
  OBVIOUS
<1> QED
  BY <1>1, <1>2, <1>3 DEF Resend

(***************************************************************************)
(* Type correctness.                                                       *)
(***************************************************************************)

\* The part of the type invariant that is about the movement.
MoveType ==
  /\ task \in {"boot", "waiting", "moving"}
  /\ ticks \in MinPulse..MaxPulse \cup {0}
  /\ status \in {"closed", "opening", "open", "closing"}
  /\ order \in Commands
  /\ start \in MinPulse..MaxPulse \cup {0}
  /\ step \in Nat
  /\ due \in BOOLEAN

LEMMA InitType == Init => TypeOK
<1> SUFFICES ASSUME Init PROVE TypeOK
  OBVIOUS
<1>1. channel \in Seq(Commands) /\ Len(channel) <= CommandCapacity
  BY ServoAssumption DEF Init
<1>2. due \in BOOLEAN /\ polling \in BOOLEAN /\ crowded \in BOOLEAN
  BY Zenon DEF Init
<1>3. /\ step \in Nat /\ accepted \in 0..MaxCommands
      /\ heldAtFire \in Nat /\ fireMoves \in Nat
  BY ServoAssumption DEF Init
<1>4. MoveType
  BY <1>2, <1>3 DEF Init, MoveType, Commands
<1> QED
  BY <1>1, <1>2, <1>3, <1>4 DEF Init, TypeOK, MoveType, States, Commands

LEMMA EndMoveType ==
  ASSUME TypeOK, NEW s \in {"closed", "opening", "open", "closing"}, EndMove(s)
  PROVE  /\ task' \in {"boot", "waiting", "moving"}
         /\ status' \in {"closed", "opening", "open", "closing"}
         /\ order' \in Commands
         /\ start' \in MinPulse..MaxPulse \cup {0}
         /\ step' \in Nat
         /\ due' \in BOOLEAN
BY DEF EndMove, TypeOK, ArrivedStatus, Commands

LEMMA NextType == TypeOK /\ [Next]_vars => TypeOK'
<1> SUFFICES ASSUME TypeOK, [Next]_vars PROVE TypeOK'
  OBVIOUS
<1>0. /\ channel \in Seq(Commands)
      /\ Len(channel) <= CommandCapacity
      /\ Len(channel) \in Nat
  BY DEF TypeOK
<1>t. ClosedTicks \in MinPulse..MaxPulse
  BY TargetType DEF Target, Commands
<1>1. CASE EnterFire
  BY <1>0, <1>1 DEF EnterFire, TypeOK, moveVars, handlerVars, States
<1>2. CASE LeaveFire
  BY <1>2 DEF LeaveFire, TypeOK, moveVars, handlerVars, States
<1>3. ASSUME NEW cmd \in Commands, ServoCommand(cmd) PROVE TypeOK'
  <2>1. channel' \in Seq(Commands) /\ Len(channel') <= CommandCapacity
    BY <1>0, <1>3, OfferType DEF ServoCommand
  <2>2. accepted' \in 0..MaxCommands /\ last' \in Commands /\ crowded' \in BOOLEAN
    BY <1>3, ServoAssumption DEF ServoCommand, TypeOK
  <2> QED
    BY <1>3, <2>1, <2>2 DEF ServoCommand, TypeOK, sequencerVars, moveVars
<1>4. CASE TimerExpires
  BY <1>4 DEF TimerExpires, TypeOK, sequencerVars, handlerVars
<1>5. CASE Boot
  BY <1>5, <1>t DEF Boot, GoOn, TypeOK, sequencerVars, handlerVars
<1>6. ASSUME NEW cmd \in Commands, IgnoreAtTarget(cmd) PROVE TypeOK'
  <2>1. channel' \in Seq(Commands) /\ Len(channel') <= CommandCapacity
    BY <1>0, <1>6, TailType DEF IgnoreAtTarget, Take
  <2> QED
    BY <1>6, <2>1 DEF IgnoreAtTarget, Take, GoOn, TypeOK, sequencerVars, moveVars, handlerVars
<1>7. ASSUME NEW cmd \in Commands, BeginMove(cmd)
      PROVE  /\ channel' \in Seq(Commands) /\ Len(channel') <= CommandCapacity
             /\ fireMoves' \in Nat
             /\ polling' \in BOOLEAN
             /\ UNCHANGED <<sequencerVars, handlerVars>>
  <2>1. channel' \in Seq(Commands) /\ Len(channel') <= CommandCapacity
    BY <1>0, <1>7, TailType DEF BeginMove, Take
  <2> QED
    BY <1>7, <2>1 DEF BeginMove, Take, GoOn, TypeOK
<1>8. ASSUME NEW cmd \in Commands, StartMove(cmd) PROVE TypeOK'
  <2>1. BeginMove(cmd)
    BY <1>8 DEF StartMove
  <2>2. MoveType'
    BY <1>8 DEF StartMove, MoveType, TypeOK, MovingStatus
  <2> QED
    BY <1>7, <2>1, <2>2 DEF MoveType, TypeOK, sequencerVars, handlerVars
<1>9. ASSUME NEW cmd \in Commands, JumpThere(cmd) PROVE TypeOK'
  <2>1. BeginMove(cmd)
    BY <1>9 DEF JumpThere
  <2>2. MoveType'
    BY <1>9, TargetType DEF JumpThere, MoveType, TypeOK, ArrivedStatus
  <2> QED
    BY <1>7, <2>1, <2>2 DEF MoveType, TypeOK, sequencerVars, handlerVars
<1>10. ASSUME NEW cmd \in Commands, StopHere(cmd) PROVE TypeOK'
  <2>1. channel' \in Seq(Commands) /\ Len(channel') <= CommandCapacity
    BY <1>0, <1>10, TailType DEF StopHere, Take
  <2>2. SayArrived(cmd) \in {"closed", "opening", "open", "closing"}
    BY DEF SayArrived, ArrivedStatus
  <2>3. MoveType'
    BY <1>10, <2>2, EndMoveType DEF StopHere, MoveType, TypeOK
  <2> QED
    BY <1>10, <2>1, <2>3 DEF StopHere, Take, GoOn, MoveType, TypeOK, sequencerVars, handlerVars
<1>11. ASSUME NEW cmd \in Commands, IgnoreSame(cmd) PROVE TypeOK'
  <2>1. channel' \in Seq(Commands) /\ Len(channel') <= CommandCapacity
    BY <1>0, <1>11, TailType DEF IgnoreSame, Take
  <2> QED
    BY <1>11, <2>1 DEF IgnoreSame, Take, GoOn, TypeOK, sequencerVars, handlerVars
<1>12. ASSUME NEW cmd \in Commands, SendBack(cmd) PROVE TypeOK'
  <2>1. channel' \in Seq(Commands) /\ Len(channel') <= CommandCapacity
    BY <1>0, <1>12, ResendType DEF SendBack, Take
  <2>2. status \in {"closed", "opening", "open", "closing"}
    BY DEF TypeOK
  <2>3. MoveType'
    BY <1>12, <2>2, EndMoveType DEF SendBack, MoveType, TypeOK
  <2> QED
    BY <1>12, <2>1, <2>3 DEF SendBack, Take, GoOn, MoveType, TypeOK, sequencerVars, handlerVars
<1>13. CASE StepOn
  <2>1. start \in Nat /\ Target(order) \in Nat /\ step \in Nat
    BY TargetType, ServoAssumption DEF TypeOK
  <2>2. Total \in Nat /\ step + 1 < Total
    BY <1>13, <2>1, StepsType DEF Total, StepOn
  <2>3. ticks' \in MinPulse..MaxPulse
    BY <1>13, <2>1, <2>2, PositionType DEF StepOn
  <2>4. due' \in BOOLEAN /\ polling' \in BOOLEAN
    BY <1>13, Zenon DEF StepOn
  <2>5. MoveType'
    BY <1>13, <2>1, <2>3, <2>4 DEF StepOn, TickReady, MoveType, TypeOK
  <2> QED
    BY <1>13, <2>4, <2>5 DEF StepOn, TickReady, MoveType, TypeOK, sequencerVars, handlerVars
<1>14. CASE Arrive
  <2>1. Target(order) \in MinPulse..MaxPulse
    BY TargetType DEF TypeOK
  <2>2. due' \in BOOLEAN /\ polling' \in BOOLEAN
    BY <1>14, Zenon DEF Arrive
  <2>3. MoveType'
    BY <1>14, <2>1, <2>2 DEF Arrive, TickReady, MoveType, TypeOK, ArrivedStatus
  <2> QED
    BY <1>14, <2>2, <2>3 DEF Arrive, TickReady, MoveType, TypeOK, sequencerVars, handlerVars
<1>15. CASE UNCHANGED vars
  BY <1>15 DEF vars, TypeOK, sequencerVars, handlerVars, moveVars
<1> QED
  BY <1>1, <1>2, <1>3, <1>4, <1>5, <1>6, <1>8, <1>9, <1>10, <1>11, <1>12, <1>13, <1>14,
     <1>15 DEF Next, ServoTask
\* Every variable of the servo controller keeps its type, the channel of
\* servo.rs:26 its capacity and the pulse the limits of the servo.
THEOREM TypeCorrect == Spec => []TypeOK
<1>1. Init => TypeOK
  BY InitType
<1>2. TypeOK /\ [Next]_vars => TypeOK'
  BY NextType
<1> QED
  BY <1>1, <1>2, PTL DEF Spec

(***************************************************************************)
(* Rest: where the servo stands when it has nothing left to do.            *)
(***************************************************************************)

\* Ending a movement leaves the servo at rest, if what EndMove is given says so.
LEMMA EndMoveSays ==
  ASSUME TypeOK, NEW cmd \in Commands, ticks' = Target(cmd), EndMove(ArrivedStatus(cmd))
  PROVE  \/ status' = "open" /\ ticks' = OpenTicks
         \/ status' = "closed" /\ ticks' = ClosedTicks
BY DEF EndMove, TypeOK, Target, ArrivedStatus, Commands

LEMMA RestNext == TypeOK /\ RestInv /\ [Next]_vars => RestInv'
<1> SUFFICES ASSUME TypeOK, RestInv, [Next]_vars PROVE RestInv'
  OBVIOUS
<1>0. channel \in Seq(Commands) /\ Len(channel) <= CommandCapacity
  BY DEF TypeOK
<1>1. CASE EnterFire
  BY <1>1 DEF EnterFire, RestInv, moveVars
<1>2. CASE LeaveFire
  BY <1>2 DEF LeaveFire, RestInv, moveVars
<1>3. ASSUME NEW cmd \in Commands, ServoCommand(cmd) PROVE RestInv'
  <2>1. channel' # <<>>
    BY <1>0, <1>3, OfferType DEF ServoCommand
  <2> QED
    BY <1>3, <2>1 DEF ServoCommand, RestInv, moveVars
<1>4. CASE TimerExpires
  BY <1>4 DEF TimerExpires, RestInv
<1>5. CASE Boot
  BY <1>5 DEF Boot, RestInv
<1>6. ASSUME NEW cmd \in Commands, IgnoreAtTarget(cmd) PROVE RestInv'
  BY <1>6 DEF IgnoreAtTarget, RestInv, Target, moveVars
<1>7. ASSUME NEW cmd \in Commands, StartMove(cmd) PROVE RestInv'
  BY <1>7 DEF StartMove, RestInv
<1>8. ASSUME NEW cmd \in Commands, JumpThere(cmd) PROVE RestInv'
  BY <1>8 DEF JumpThere, RestInv, Target, ArrivedStatus, Commands
<1>9. ASSUME NEW cmd \in Commands, StopHere(cmd) PROVE RestInv'
  <2>1. ticks' = Target(cmd) /\ EndMove(ArrivedStatus(cmd))
    BY <1>9 DEF StopHere, SayArrived
  <2> QED
    BY <2>1, EndMoveSays DEF RestInv
<1>10. ASSUME NEW cmd \in Commands, IgnoreSame(cmd) PROVE RestInv'
  BY <1>10 DEF IgnoreSame, RestInv
<1>11. ASSUME NEW cmd \in Commands, SendBack(cmd) PROVE RestInv'
  <2>1. channel' # <<>>
    BY <1>0, <1>11, ResendType DEF SendBack, Take
  <2>2. EndMove(status) /\ ticks' = ticks /\ Target(cmd) \notin {ticks, Target(order)}
    BY <1>11 DEF SendBack
  <2>3. order \in Commands
    BY DEF TypeOK
  <2>4. CASE ticks = Target(order)
    BY <2>2, <2>3, <2>4 DEF EndMove, RestInv, Target, ArrivedStatus, Commands
  <2>5. CASE ticks # Target(order)
    <3>1. ticks \notin {OpenTicks, ClosedTicks}
      BY <2>2, <2>3, <2>5 DEF Target, Commands
    <3> QED
      BY <2>1, <2>2, <3>1 DEF RestInv
  <2> QED
    BY <2>4, <2>5
<1>12. CASE StepOn
  BY <1>12 DEF StepOn, TickReady, RestInv
<1>13. CASE Arrive
  BY <1>13 DEF Arrive, RestInv, Target, ArrivedStatus, TypeOK, Commands
<1>14. CASE UNCHANGED vars
  BY <1>14 DEF vars, RestInv, moveVars
<1> QED
  BY <1>1, <1>2, <1>3, <1>4, <1>5, <1>6, <1>7, <1>8, <1>9, <1>10, <1>11, <1>12, <1>13,
     <1>14 DEF Next, ServoTask

\* The theorem behind the status an operator sees: no reversal, duplicate or stop
\* (servo.rs:168-183) leaves the servo somewhere its status does not say.
THEOREM RestCorrect == Spec => []RestsWhereItSays
<1>1. Init => RestInv
  BY DEF Init, RestInv
<1>2. TypeOK /\ RestInv /\ [Next]_vars => RestInv'
  BY RestNext
<1>3. RestInv => RestsWhereItSays
  BY DEF RestInv, RestsWhereItSays, AtRest
<1> QED
  BY <1>1, <1>2, <1>3, TypeCorrect, PTL DEF Spec
(***************************************************************************)
(* Lone commands: those that never meet another in the channel.            *)
(***************************************************************************)

\* The only command of a channel leaves it empty.
LEMMA LoneTail ==
  ASSUME LoneInv, ~crowded, channel # <<>>
  PROVE  Head(channel) = last /\ Tail(channel) = <<>>
<1>1. channel = <<last>>
  BY DEF LoneInv
<1> QED
  BY <1>1

LEMMA LoneNext == TypeOK /\ LoneInv /\ [Next]_vars => LoneInv'
<1> SUFFICES ASSUME TypeOK, LoneInv, [Next]_vars, ~crowded' PROVE LoneInv'
  BY DEF LoneInv
<1>1. CASE EnterFire
  BY <1>1 DEF EnterFire, LoneInv, moveVars, handlerVars
<1>2. CASE LeaveFire
  BY <1>2 DEF LeaveFire, LoneInv, moveVars, handlerVars
<1>3. ASSUME NEW cmd \in Commands, ServoCommand(cmd) PROVE LoneInv'
  <2>1. channel = <<>>
    BY <1>3 DEF ServoCommand
  <2>2. channel' = <<cmd>>
    BY <1>3, <2>1, ServoAssumption DEF ServoCommand, Offer
  <2>3. last' = cmd
    <3>1. channel' # channel
      BY <2>1, <2>2
    <3> QED
      BY <1>3, <3>1, Zenon DEF ServoCommand
  <2>4. UNCHANGED <<task, ticks, order>> /\ task # "boot"
    BY <1>3 DEF ServoCommand, moveVars
  <2> QED
    BY <2>2, <2>3, <2>4 DEF LoneInv
<1>4. CASE TimerExpires
  BY <1>4 DEF TimerExpires, LoneInv, handlerVars
<1>5. CASE Boot
  BY <1>5 DEF Boot, LoneInv, handlerVars, Target
<1>a. ASSUME NEW cmd \in Commands, Take(cmd)
      PROVE  cmd = last /\ Tail(channel) = <<>> /\ crowded' = crowded /\ last' = last
  <2>1. crowded' = crowded /\ last' = last /\ channel # <<>> /\ Head(channel) = cmd
    BY <1>a DEF Take, handlerVars
  <2> QED
    BY <2>1, LoneTail
<1>6. ASSUME NEW cmd \in Commands, IgnoreAtTarget(cmd) PROVE LoneInv'
  BY <1>6, <1>a DEF IgnoreAtTarget, LoneInv, moveVars
<1>7. ASSUME NEW cmd \in Commands, StartMove(cmd) PROVE LoneInv'
  BY <1>7, <1>a DEF StartMove, BeginMove, LoneInv
<1>8. ASSUME NEW cmd \in Commands, JumpThere(cmd) PROVE LoneInv'
  BY <1>8, <1>a DEF JumpThere, BeginMove, LoneInv
<1>9. ASSUME NEW cmd \in Commands, StopHere(cmd) PROVE LoneInv'
  BY <1>9, <1>a DEF StopHere, EndMove, LoneInv
<1>10. ASSUME NEW cmd \in Commands, IgnoreSame(cmd) PROVE LoneInv'
  BY <1>10, <1>a DEF IgnoreSame, LoneInv
<1>11. ASSUME NEW cmd \in Commands, SendBack(cmd) PROVE LoneInv'
  <2>1. cmd = last /\ Tail(channel) = <<>> /\ crowded' = crowded /\ last' = last
    BY <1>11, <1>a DEF SendBack
  <2>2. channel' = Offer(<<>>, last)
    BY <1>11, <2>1 DEF SendBack, Resend
  <2>3. Offer(<<>>, last) = <<last>>
    BY ServoAssumption DEF Offer
  <2> QED
    BY <1>11, <2>1, <2>2, <2>3 DEF SendBack, EndMove, LoneInv
<1>12. CASE StepOn
  BY <1>12 DEF StepOn, TickReady, LoneInv, handlerVars
<1>13. CASE Arrive
  BY <1>13 DEF Arrive, TickReady, LoneInv, handlerVars
<1>14. CASE UNCHANGED vars
  BY <1>14 DEF vars, LoneInv, moveVars, handlerVars
<1> QED
  BY <1>1, <1>2, <1>3, <1>4, <1>5, <1>6, <1>7, <1>8, <1>9, <1>10, <1>11, <1>12, <1>13,
     <1>14 DEF Next, ServoTask

\* Sending a command back (servo.rs:180) reorders it only when another one waits:
\* commands that never meet are obeyed, the last one last.
THEOREM LoneCommandsCorrect == Spec => []LoneCommandsWin
<1>1. Init => LoneInv
  BY DEF Init, LoneInv
<1>2. TypeOK /\ LoneInv /\ [Next]_vars => LoneInv'
  BY LoneNext
<1>3. LoneInv => LoneCommandsWin
  BY DEF LoneInv, LoneCommandsWin, AtRest
<1> QED
  BY <1>1, <1>2, <1>3, TypeCorrect, PTL DEF Spec

(***************************************************************************)
(* FIRE.                                                                   *)
(***************************************************************************)

LEMMA FireNext == TypeOK /\ FireHoldsServo /\ [Next]_vars => FireHoldsServo'
<1> SUFFICES ASSUME TypeOK, FireHoldsServo, [Next]_vars, state' = "FIRE"
             PROVE  fireMoves' + Len(channel') <= heldAtFire'
  BY DEF FireHoldsServo
<1>0. /\ channel \in Seq(Commands)
      /\ Len(channel) <= CommandCapacity
      /\ Len(channel) \in Nat
      /\ fireMoves \in Nat
      /\ heldAtFire \in Nat
  BY DEF TypeOK
<1>h. state = "FIRE" => fireMoves + Len(channel) <= heldAtFire
  BY DEF FireHoldsServo
<1>1. CASE EnterFire
  BY <1>0, <1>1 DEF EnterFire
<1>2. CASE LeaveFire
  BY <1>2 DEF LeaveFire
<1>3. ASSUME NEW cmd \in Commands, ServoCommand(cmd) PROVE FALSE
  BY <1>3 DEF ServoCommand, LetThrough, sequencerVars
<1>t. channel # <<>> => Len(Tail(channel)) = Len(channel) - 1
  BY <1>0, TailType
<1>4. CASE TimerExpires
  BY <1>4, <1>h DEF TimerExpires, sequencerVars
<1>5. CASE Boot
  BY <1>5, <1>h DEF Boot, sequencerVars
<1>a. ASSUME NEW cmd \in Commands, Take(cmd)
      PROVE  /\ state = "FIRE" /\ heldAtFire' = heldAtFire
             /\ Len(Tail(channel)) = Len(channel) - 1
             /\ fireMoves + Len(channel) <= heldAtFire
  BY <1>a, <1>h, <1>t DEF Take, sequencerVars
<1>6. ASSUME NEW cmd \in Commands, IgnoreAtTarget(cmd)
      PROVE  fireMoves' + Len(channel') <= heldAtFire'
  BY <1>0, <1>6, <1>a DEF IgnoreAtTarget
<1>7. ASSUME NEW cmd \in Commands, BeginMove(cmd)
      PROVE  fireMoves' + Len(channel') <= heldAtFire'
  <2>1. fireMoves' = fireMoves + 1 /\ channel' = Tail(channel) /\ Take(cmd)
    BY <1>7 DEF BeginMove
  <2>2. /\ heldAtFire' = heldAtFire
        /\ Len(Tail(channel)) = Len(channel) - 1
        /\ fireMoves + Len(channel) <= heldAtFire
    BY <2>1, <1>a
  <2>3. Len(channel') = Len(channel) - 1
    BY <2>1, <2>2
  <2>4. fireMoves' = fireMoves + 1 /\ heldAtFire' = heldAtFire
    BY <2>1, <2>2
  <2>5. fireMoves + Len(channel) <= heldAtFire
    BY <2>2
  <2> QED
    BY <1>0, <2>3, <2>4, <2>5
<1>8. ASSUME NEW cmd \in Commands, StopHere(cmd)
      PROVE  fireMoves' + Len(channel') <= heldAtFire'
  BY <1>0, <1>8, <1>a DEF StopHere
<1>9. ASSUME NEW cmd \in Commands, IgnoreSame(cmd)
      PROVE  fireMoves' + Len(channel') <= heldAtFire'
  BY <1>0, <1>9, <1>a DEF IgnoreSame
<1>10. ASSUME NEW cmd \in Commands, SendBack(cmd)
       PROVE  fireMoves' + Len(channel') <= heldAtFire'
  <2>1. Len(channel') <= Len(channel) /\ channel' \in Seq(Commands)
    BY <1>0, <1>10, ResendType DEF SendBack, Take
  <2> QED
    BY <1>0, <1>10, <1>a, <2>1 DEF SendBack
<1>11. CASE StepOn
  BY <1>11, <1>h DEF StepOn, TickReady, sequencerVars
<1>12. CASE Arrive
  BY <1>12, <1>h DEF Arrive, TickReady, sequencerVars
<1>13. CASE UNCHANGED vars
  BY <1>13, <1>h DEF vars, sequencerVars
<1> QED
  BY <1>1, <1>2, <1>3, <1>4, <1>5, <1>6, <1>7, <1>8, <1>9, <1>10, <1>11, <1>12, <1>13
     DEF Next, ServoTask, StartMove, JumpThere

\* In FIRE the servo begins no more movements than commands were waiting when FIRE
\* was entered: the guard of client.rs:70 shuts out all others.
THEOREM FireHoldsCorrect == Spec => []FireHoldsServo
<1>1. Init => FireHoldsServo
  BY DEF Init, FireHoldsServo
<1>2. TypeOK /\ FireHoldsServo /\ [Next]_vars => FireHoldsServo'
  BY FireNext
<1> QED
  BY <1>1, <1>2, TypeCorrect, PTL DEF Spec
(***************************************************************************)
(* Motion: where a movement is, and how fast.                              *)
(***************************************************************************)

\* One more timer tick adds to the share covered, by d / t rounded up at most.
LEMMA ShareStep ==
  ASSUME NEW d \in Nat, NEW n \in Nat, NEW t \in Nat, t # 0
  PROVE  /\ (d * n) \div t <= (d * (n + 1)) \div t
         /\ t * ((d * (n + 1)) \div t - (d * n) \div t) < d + t
<1> DEFINE a == d * n
           b == d * (n + 1)
<1>1. a \in Nat /\ b \in Nat /\ b = a + d
  BY SMT
<1> HIDE DEF a, b
<1>2. a \div t \in Nat /\ t * (a \div t) <= a /\ a < t * (a \div t) + t
  BY <1>1, SMT
<1>3. b \div t \in Nat /\ t * (b \div t) <= b /\ b < t * (b \div t) + t
  BY <1>1, SMT
<1>4. a \div t <= b \div t
  BY <1>1, SMT
<1>5. t * (b \div t - a \div t) = t * (b \div t) - t * (a \div t)
  BY <1>2, <1>3, SMT
<1> QED
  BY <1>1, <1>2, <1>3, <1>4, <1>5 DEF a, b

\* No share at first, all of it at last.
LEMMA ShareEnds ==
  ASSUME NEW d \in Nat, NEW t \in Nat, t # 0
  PROVE  (d * 0) \div t = 0 /\ (d * t) \div t = d
BY SMT

\* A movement takes as many timer ticks as its distance takes at full speed,
\* rounded down.
LEMMA StepsBound ==
  ASSUME NEW from \in Nat, NEW to \in Nat
  PROVE  Distance(from, to) * FullRangeMs
           < (TickIntervalMs * (MaxPulse - MinPulse)) * (Steps(from, to) + 1)
<1> DEFINE range == MaxPulse - MinPulse
           d == Distance(from, to)
           a == FullRangeMs * d
           q == a \div range
           t == q \div TickIntervalMs
<1>1. range \in Nat /\ range # 0 /\ TickIntervalMs \in Nat /\ TickIntervalMs # 0
      /\ FullRangeMs \in Nat
  BY ServoAssumption
<1>2. d \in Nat
  BY DistanceType
<1>3. t = Steps(from, to)
  BY DEF Steps
<1> HIDE DEF range, d
<1>4. a \in Nat /\ a = d * FullRangeMs
  BY <1>1, <1>2, SMT
<1> HIDE DEF a
<1>5. q \in Nat /\ a < range * q + range
  BY <1>1, <1>4, SMT
<1> HIDE DEF q
<1>6. t \in Nat /\ q < TickIntervalMs * t + TickIntervalMs
  BY <1>1, <1>5, SMT
<1> HIDE DEF t
<1>7. q + 1 <= TickIntervalMs * (t + 1)
  BY <1>1, <1>5, <1>6, SMT
<1>8. range * (q + 1) <= range * (TickIntervalMs * (t + 1))
  BY <1>1, <1>5, <1>6, <1>7, ProductMonotone, ProductType
<1>9. range * (TickIntervalMs * (t + 1)) = (TickIntervalMs * range) * (t + 1)
  BY <1>1, <1>6, SMT
<1>10. a < range * (q + 1)
  BY <1>1, <1>5, SMT
<1>11. a < (TickIntervalMs * range) * (t + 1)
  BY <1>1, <1>4, <1>5, <1>6, <1>8, <1>9, <1>10, ProductType
<1> QED
  BY <1>3, <1>4, <1>11 DEF range, d
\* A distance k covered in one of t timer ticks, out of a distance d that takes
\* less than t + 1 ticks at full speed, is less than two ticks' worth, and one.
LEMMA SpeedBound ==
  ASSUME NEW d \in Nat, NEW k \in Nat, NEW t \in Nat, t # 0, t * k < d + t,
         NEW v \in Nat, NEW f \in Nat, f # 0, d * f < v * (t + 1)
  PROVE  k * f < 2 * v + f
<1>1. t * k + 1 <= d + t /\ t * k \in Nat
  BY SMT
<1>2. f * (t * k + 1) <= f * (d + t)
  BY <1>1, ProductMonotone
<1>3. f * (t * k + 1) = t * (k * f) + f
  BY SMT
<1>4. f * (d + t) = d * f + t * f
  BY SMT
<1>5. v * (t + 1) = t * v + v /\ v <= t * v
  BY SMT
<1>6. t * (k * f) < t * v + t * v + t * f
  BY <1>2, <1>3, <1>4, <1>5, ProductType, SMT
<1>7. t * (2 * v + f) = t * v + t * v + t * f
  BY SMT
<1>8. SUFFICES ASSUME 2 * v + f <= k * f PROVE FALSE
  BY ProductType, SMT
<1>9. t * (2 * v + f) <= t * (k * f)
  BY <1>8, ProductType, ProductMonotone
<1> QED
  BY <1>6, <1>7, <1>9, ProductType, SMT

\* One timer tick takes a movement from one interpolated position to the next:
\* toward its target, and at no more than about twice full speed.
LEMMA TickMoves ==
  ASSUME NEW from \in MinPulse..MaxPulse, NEW to \in MinPulse..MaxPulse,
         NEW n \in Nat, n < Steps(from, to)
  PROVE  LET total == Steps(from, to)
             here == Position(from, to, n, total)
             there == Position(from, to, n + 1, total)
         IN  /\ Between(there, here, to)
             /\ Distance(here, there) * FullRangeMs
                  < 2 * TickIntervalMs * (MaxPulse - MinPulse) + FullRangeMs
<1> DEFINE total == Steps(from, to)
           d == Distance(from, to)
           m1 == (d * n) \div total
           m2 == (d * (n + 1)) \div total
           here == Position(from, to, n, total)
           there == Position(from, to, n + 1, total)
<1>1. MinPulse \in Nat /\ MaxPulse \in Nat /\ from \in Nat /\ to \in Nat
  BY ServoAssumption
<1>2. total \in Nat /\ total # 0 /\ n \in 0..total /\ n + 1 \in 0..total
  <2>1. total \in Nat
    BY <1>1, StepsType
  <2>2. n < total
    OBVIOUS
  <2> HIDE DEF total
  <2> QED
    BY <2>1, <2>2
<1>3. d \in Nat
  BY <1>1, DistanceType
<1>4. /\ m1 \in Nat
      /\ m1 <= d
      /\ here = IF from <= to THEN from + m1 ELSE from - m1
  BY <1>2, PositionExact
<1>5. /\ m2 \in Nat
      /\ m2 <= d
      /\ there = IF from <= to THEN from + m2 ELSE from - m2
  BY <1>2, PositionExact
<1>6. m1 <= m2 /\ total * (m2 - m1) < d + total
  BY <1>2, <1>3, ShareStep
<1>7. d * FullRangeMs < (TickIntervalMs * (MaxPulse - MinPulse)) * (total + 1)
  BY <1>1, StepsBound
<1> HIDE DEF total, m1, m2, here, there
<1>8. Between(there, here, to)
  BY <1>1, <1>4, <1>5, <1>6 DEF Between, Distance, d
<1>9. Distance(here, there) = m2 - m1 /\ m2 - m1 \in Nat
  BY <1>1, <1>4, <1>5, <1>6 DEF Distance
<1>10. (m2 - m1) * FullRangeMs
         < 2 * (TickIntervalMs * (MaxPulse - MinPulse)) + FullRangeMs
  <2> DEFINE v == TickIntervalMs * (MaxPulse - MinPulse)
  <2>1. v \in Nat /\ FullRangeMs \in Nat /\ FullRangeMs # 0
    <3>1. MaxPulse - MinPulse \in Nat /\ TickIntervalMs \in Nat
      BY ServoAssumption
    <3> QED
      BY <3>1, ProductType, ServoAssumption
  <2> HIDE DEF v, d
  <2>2. d * FullRangeMs < v * (total + 1)
    BY <1>7 DEF v
  <2>3. (m2 - m1) * FullRangeMs < 2 * v + FullRangeMs
    BY <1>2, <1>3, <1>6, <1>9, <2>1, <2>2, SpeedBound
  <2> QED
    BY <2>3 DEF v
<1>11. 2 * (TickIntervalMs * (MaxPulse - MinPulse)) = 2 * TickIntervalMs * (MaxPulse - MinPulse)
  BY ServoAssumption, SMT
<1> QED
  BY <1>8, <1>9, <1>10, <1>11 DEF total, here, there
\* Where a movement begins and where it ends.
LEMMA PositionEnds ==
  ASSUME NEW from \in MinPulse..MaxPulse, NEW to \in MinPulse..MaxPulse,
         NEW total \in Nat, total # 0
  PROVE  Position(from, to, 0, total) = from /\ Position(from, to, total, total) = to
<1> DEFINE d == Distance(from, to)
<1>1. MinPulse \in Nat /\ MaxPulse \in Nat /\ from \in Nat /\ to \in Nat
  BY ServoAssumption
<1>2. d \in Nat
  BY <1>1, DistanceType
<1>3. (d * 0) \div total = 0 /\ (d * total) \div total = d
  BY <1>2, ShareEnds
<1>4. Position(from, to, 0, total) =
        IF from <= to THEN from + (d * 0) \div total ELSE from - (d * 0) \div total
  BY PositionExact
<1>5. Position(from, to, total, total) =
        IF from <= to THEN from + (d * total) \div total ELSE from - (d * total) \div total
  BY PositionExact
<1> HIDE DEF d
<1>6. Position(from, to, 0, total) = from
  BY <1>1, <1>3, <1>4
<1>7. Position(from, to, total, total) = IF from <= to THEN from + d ELSE from - d
  BY <1>3, <1>5
<1> QED
  BY <1>1, <1>6, <1>7 DEF d, Distance

\* What a step of the servo task needs to know of a movement under way.
LEMMA MovingFacts ==
  ASSUME TypeOK, MotionInv, task = "moving"
  PROVE  /\ start \in MinPulse..MaxPulse
         /\ Target(order) \in MinPulse..MaxPulse
         /\ step \in Nat
         /\ Total \in Nat
         /\ step < Total
         /\ ticks \in MinPulse..MaxPulse
         /\ ticks = Position(start, Target(order), step, Total)
<1>1. start \in MinPulse..MaxPulse /\ Target(order) \in MinPulse..MaxPulse
  BY TargetType DEF MotionInv, TypeOK
<1>2. start \in Nat /\ Target(order) \in Nat
  BY <1>1, ServoAssumption
<1>3. Total \in Nat
  BY <1>2, StepsType DEF Total
<1> QED
  BY <1>1, <1>3 DEF MotionInv, TypeOK

\* An expired timer brings the movement to the next interpolated position.
LEMMA TickReaches ==
  ASSUME TypeOK, MotionInv, StepOn \/ Arrive
  PROVE  ticks' = Position(start, Target(order), step + 1, Total)
<1>0. task = "moving"
  BY DEF StepOn, Arrive, TickReady
<1>1. CASE StepOn
  BY <1>1 DEF StepOn
<1>2. CASE Arrive
  <2>1. step + 1 = Total
    BY <1>0, <1>2, MovingFacts DEF Arrive
  <2>2. Position(start, Target(order), Total, Total) = Target(order)
    BY <1>0, MovingFacts, PositionEnds
  <2> QED
    BY <1>2, <2>1, <2>2 DEF Arrive
<1> QED
  BY <1>1, <1>2

LEMMA BetweenHull ==
  ASSUME NEW x \in Nat, NEW a \in Nat, NEW b \in Nat, NEW from \in Nat, NEW to \in {a, b},
         Between(x, from, to), Between(from, a, b)
  PROVE  Between(x, a, b)
BY DEF Between

LEMMA MotionNext ==
  TypeOK /\ MotionInv /\ StaysBetweenEnds /\ [Next]_vars => MotionInv' /\ StaysBetweenEnds'
<1> SUFFICES ASSUME TypeOK, MotionInv, StaysBetweenEnds, [Next]_vars
             PROVE  MotionInv' /\ StaysBetweenEnds'
  OBVIOUS
<1>t. /\ ClosedTicks \in MinPulse..MaxPulse
      /\ OpenTicks \in MinPulse..MaxPulse
      /\ MinPulse \in Nat
      /\ MaxPulse \in Nat
  BY TargetType, ServoAssumption DEF Target, Commands
<1>n. ClosedTicks \in Nat /\ OpenTicks \in Nat
  BY <1>t
<1>e. Between(ClosedTicks, ClosedTicks, OpenTicks) /\ Between(OpenTicks, ClosedTicks, OpenTicks)
  BY <1>n DEF Between
<1>1. ASSUME UNCHANGED <<task, ticks, order, start, step>>
      PROVE  MotionInv' /\ StaysBetweenEnds'
  BY <1>1 DEF MotionInv, StaysBetweenEnds, Total
<1>2. CASE EnterFire
  BY <1>1, <1>2 DEF EnterFire, moveVars
<1>3. CASE LeaveFire
  BY <1>1, <1>3 DEF LeaveFire, moveVars
<1>4. ASSUME NEW cmd \in Commands, ServoCommand(cmd) PROVE MotionInv' /\ StaysBetweenEnds'
  BY <1>1, <1>4 DEF ServoCommand, moveVars
<1>5. CASE TimerExpires
  BY <1>1, <1>5 DEF TimerExpires
<1>6. CASE Boot
  BY <1>6, <1>t, <1>e DEF Boot, MotionInv, StaysBetweenEnds
<1>7. ASSUME NEW cmd \in Commands, IgnoreAtTarget(cmd) PROVE MotionInv' /\ StaysBetweenEnds'
  BY <1>1, <1>7 DEF IgnoreAtTarget, moveVars
<1>8. ASSUME NEW cmd \in Commands, StartMove(cmd) PROVE MotionInv' /\ StaysBetweenEnds'
  <2>1. task = "waiting" /\ task' = "moving" /\ order' = cmd /\ start' = ticks /\ step' = 0
        /\ ticks' = ticks
    BY <1>8 DEF StartMove, BeginMove
  <2>2. ticks \in MinPulse..MaxPulse /\ Between(ticks, ClosedTicks, OpenTicks)
    BY <2>1 DEF MotionInv, StaysBetweenEnds
  <2>3. Target(cmd) \in MinPulse..MaxPulse
    BY TargetType
  <2>4. Total' = Steps(ticks, Target(cmd))
    BY <2>1 DEF Total
  <2>5. Total' \in Nat /\ Total' > 0
    <3>1. ticks \in Nat /\ Target(cmd) \in Nat
      BY <1>t, <2>2, <2>3
    <3>2. Steps(ticks, Target(cmd)) \in Nat
      BY <3>1, StepsType
    <3>3. Steps(ticks, Target(cmd)) > 0
      BY <1>8 DEF StartMove
    <3> QED
      BY <2>4, <3>2, <3>3
  <2>6. Position(ticks, Target(cmd), 0, Total') = ticks
    BY <2>2, <2>3, <2>5, PositionEnds
  <2> QED
    BY <2>1, <2>2, <2>5, <2>6 DEF MotionInv, StaysBetweenEnds
<1>9. ASSUME NEW cmd \in Commands, JumpThere(cmd) PROVE MotionInv' /\ StaysBetweenEnds'
  <2>1. task' = "waiting" /\ ticks' = Target(cmd)
    BY <1>9 DEF JumpThere, BeginMove
  <2>2. Target(cmd) \in {ClosedTicks, OpenTicks}
    BY DEF Target
  <2> QED
    BY <1>t, <1>e, <2>1, <2>2 DEF MotionInv, StaysBetweenEnds
<1>10. ASSUME task # "boot", task' = "waiting", ticks' = ticks
       PROVE  MotionInv' /\ StaysBetweenEnds'
  BY <1>10 DEF MotionInv, StaysBetweenEnds
<1>11. ASSUME NEW cmd \in Commands, StopHere(cmd) PROVE MotionInv' /\ StaysBetweenEnds'
  BY <1>10, <1>11 DEF StopHere, EndMove
<1>12. ASSUME NEW cmd \in Commands, IgnoreSame(cmd) PROVE MotionInv' /\ StaysBetweenEnds'
  BY <1>1, <1>12 DEF IgnoreSame
<1>13. ASSUME NEW cmd \in Commands, SendBack(cmd) PROVE MotionInv' /\ StaysBetweenEnds'
  BY <1>10, <1>13 DEF SendBack, EndMove
<1>14. CASE StepOn \/ Arrive
  <2>0. task = "moving"
    BY <1>14 DEF StepOn, Arrive, TickReady
  <2> DEFINE to == Target(order)
  <2>1. /\ start \in MinPulse..MaxPulse
        /\ to \in MinPulse..MaxPulse
        /\ step + 1 \in 0..Total
        /\ Total \in Nat
        /\ Total # 0
    BY <2>0, MovingFacts
  <2>2. ticks' = Position(start, to, step + 1, Total)
    BY <1>14, TickReaches
  <2>3. ticks' \in MinPulse..MaxPulse /\ Between(ticks', start, to)
    BY <2>1, <2>2, PositionBetween
  <2>4. to \in {ClosedTicks, OpenTicks}
    BY DEF Target
  <2>5. Between(start, ClosedTicks, OpenTicks)
    BY <2>0 DEF MotionInv
  <2>6. ticks' \in Nat /\ start \in Nat
    BY <1>t, <2>1, <2>3
  <2>7. Between(ticks', ClosedTicks, OpenTicks)
    BY <1>n, <2>3, <2>4, <2>5, <2>6, BetweenHull
  <2>8. CASE StepOn
    <3>1. /\ task' = task /\ order' = order /\ start' = start /\ step' = step + 1
          /\ step + 1 < Total
      BY <2>8 DEF StepOn, TickReady
    <3>2. Total' = Total
      BY <3>1 DEF Total
    <3> QED
      BY <2>2, <2>3, <2>5, <2>7, <3>1, <3>2 DEF MotionInv, StaysBetweenEnds
  <2>9. CASE Arrive
    BY <2>3, <2>7, <2>9 DEF Arrive, MotionInv, StaysBetweenEnds
  <2> QED
    BY <1>14, <2>8, <2>9
<1>15. CASE UNCHANGED vars
  BY <1>1, <1>15 DEF vars, moveVars
<1> QED
  BY <1>2, <1>3, <1>4, <1>5, <1>6, <1>7, <1>8, <1>9, <1>11, <1>12, <1>13, <1>14, <1>15
     DEF Next, ServoTask
\* The servo never leaves the span between its two positions.
THEOREM SpanCorrect == Spec => []StaysBetweenEnds
<1>1. Init => MotionInv /\ StaysBetweenEnds
  BY DEF Init, MotionInv, StaysBetweenEnds
<1>2. TypeOK /\ MotionInv /\ StaysBetweenEnds /\ [Next]_vars => MotionInv' /\ StaysBetweenEnds'
  BY MotionNext
<1> QED
  BY <1>1, <1>2, TypeCorrect, PTL DEF Spec

\* The inductive invariant of the movement.
THEOREM MotionCorrect == Spec => []MotionInv
<1>1. Init => MotionInv /\ StaysBetweenEnds
  BY DEF Init, MotionInv, StaysBetweenEnds
<1>2. TypeOK /\ MotionInv /\ StaysBetweenEnds /\ [Next]_vars => MotionInv' /\ StaysBetweenEnds'
  BY MotionNext
<1> QED
  BY <1>1, <1>2, TypeCorrect, PTL DEF Spec

\* What MotionIsSmooth says of one step.
SmoothStep ==
  task # "boot" /\ ticks' # ticks =>
    LET target == IF task = "moving" THEN Target(order) ELSE ticks'
    IN  /\ Between(ticks', ticks, target)
        /\ Distance(ticks, ticks') * FullRangeMs
             < 2 * TickIntervalMs * (MaxPulse - MinPulse) + FullRangeMs

LEMMA SmoothNext == TypeOK /\ MotionInv /\ [Next]_vars => SmoothStep
<1> SUFFICES ASSUME TypeOK, MotionInv, [Next]_vars, task # "boot", ticks' # ticks
             PROVE  SmoothStep
  BY DEF SmoothStep
<1>1. CASE StepOn \/ Arrive
  <2>0. task = "moving"
    BY <1>1 DEF StepOn, Arrive, TickReady
  <2>1. /\ start \in MinPulse..MaxPulse
        /\ Target(order) \in MinPulse..MaxPulse
        /\ step \in Nat
        /\ step < Total
        /\ ticks = Position(start, Target(order), step, Total)
    BY <2>0, MovingFacts
  <2>2. ticks' = Position(start, Target(order), step + 1, Total)
    BY <1>1, TickReaches
  <2> QED
    BY <2>0, <2>1, <2>2, TickMoves DEF SmoothStep, Total
<1>2. ASSUME NEW cmd \in Commands, JumpThere(cmd) PROVE SmoothStep
  <2>1. task = "waiting" /\ ticks' = Target(cmd) /\ Steps(ticks, Target(cmd)) = 0
    BY <1>2 DEF JumpThere, BeginMove
  <2>2. ticks \in Nat /\ ticks' \in Nat
    BY <2>1, TargetType, ServoAssumption DEF MotionInv
  <2> DEFINE v == TickIntervalMs * (MaxPulse - MinPulse)
  <2>3. v \in Nat /\ FullRangeMs \in Nat /\ FullRangeMs # 0
    <3>1. MaxPulse - MinPulse \in Nat /\ TickIntervalMs \in Nat
      BY ServoAssumption
    <3> QED
      BY <3>1, ProductType, ServoAssumption
  <2>4. Distance(ticks, ticks') * FullRangeMs < v * (0 + 1)
    BY <2>1, <2>2, StepsBound
  <2>5. 2 * TickIntervalMs * (MaxPulse - MinPulse) = 2 * v
    BY ServoAssumption, SMT
  <2> HIDE DEF v
  <2>6. Distance(ticks, ticks') * FullRangeMs < 2 * v + FullRangeMs
    <3>1. Distance(ticks, ticks') * FullRangeMs \in Nat
      BY <2>2, <2>3, DistanceType, ProductType
    <3> QED
      BY <2>3, <2>4, <3>1
  <2>7. Between(ticks', ticks, ticks')
    BY <2>2 DEF Between
  <2> QED
    BY <2>1, <2>5, <2>6, <2>7 DEF SmoothStep
<1>3. CASE EnterFire \/ LeaveFire \/ TimerExpires \/ UNCHANGED vars
  BY <1>3 DEF EnterFire, LeaveFire, TimerExpires, vars, moveVars
<1>4. ASSUME NEW cmd \in Commands, ServoCommand(cmd) PROVE FALSE
  BY <1>4 DEF ServoCommand, moveVars
<1>5. CASE Boot
  BY <1>5 DEF Boot
<1>6. ASSUME NEW cmd \in Commands,
             \/ IgnoreAtTarget(cmd)
             \/ StartMove(cmd)
             \/ StopHere(cmd)
             \/ IgnoreSame(cmd)
             \/ SendBack(cmd)
      PROVE  FALSE
  BY <1>6 DEF IgnoreAtTarget, StartMove, StopHere, IgnoreSame, SendBack, moveVars
<1> QED
  BY <1>1, <1>2, <1>3, <1>4, <1>5, <1>6 DEF Next, ServoTask

\* No jumps: a step of the servo goes toward its target, and never faster than two
\* timer ticks of full speed, whatever the interpolation of servo.rs:190-196 rounds.
THEOREM MotionSmooth == Spec => MotionIsSmooth
<1>1. TypeOK /\ MotionInv /\ [Next]_vars => [SmoothStep]_vars
  BY SmoothNext
<1>2. [][SmoothStep]_vars => MotionIsSmooth
  BY PTL DEF SmoothStep, MotionIsSmooth
<1> QED
  BY <1>1, <1>2, TypeCorrect, MotionCorrect, PTL DEF Spec

(***************************************************************************)
(* The end of a movement.                                                  *)
(***************************************************************************)

\* What MovementsAdvance says of one step.
AdvanceStep ==
  task = "moving" /\ task' = "moving" /\ accepted' = accepted =>
    /\ UNCHANGED <<start, order>>
    /\ \/ UNCHANGED <<channel, ticks, step, due>>
       \/ Len(channel') < Len(channel) /\ UNCHANGED step
       \/ channel = <<>> /\ channel' = <<>> /\ due /\ step' = step + 1 /\ step' < Total
       \/ UNCHANGED <<channel, ticks, step>> /\ ~due /\ due'

LEMMA AdvanceNext == TypeOK /\ [Next]_vars => AdvanceStep
<1> SUFFICES ASSUME TypeOK, [Next]_vars, task = "moving", task' = "moving", accepted' = accepted
             PROVE  AdvanceStep
  BY DEF AdvanceStep
<1>1. CASE EnterFire \/ LeaveFire \/ UNCHANGED vars
  BY <1>1 DEF EnterFire, LeaveFire, vars, moveVars, AdvanceStep
<1>2. CASE TimerExpires
  <2>1. UNCHANGED <<channel, ticks, step, start, order>> /\ ~due /\ due'
    BY <1>2, Zenon DEF TimerExpires
  <2> QED
    BY <2>1 DEF AdvanceStep
<1>3. ASSUME NEW cmd \in Commands, ServoCommand(cmd) PROVE AdvanceStep
  BY <1>3 DEF ServoCommand, TypeOK
<1>4. ASSUME NEW cmd \in Commands, IgnoreSame(cmd) PROVE AdvanceStep
  <2>1. Len(channel') < Len(channel) /\ UNCHANGED <<start, order, step>>
    BY <1>4, TailType DEF IgnoreSame, Take, TypeOK
  <2> QED
    BY <2>1 DEF AdvanceStep
<1>5. CASE StepOn
  BY <1>5 DEF StepOn, TickReady, AdvanceStep
<1>6. CASE Boot \/ Arrive
  BY <1>6 DEF Boot, Arrive
<1>7. ASSUME NEW cmd \in Commands,
             \/ IgnoreAtTarget(cmd)
             \/ StartMove(cmd)
             \/ JumpThere(cmd)
             \/ StopHere(cmd)
             \/ SendBack(cmd)
      PROVE  AdvanceStep
  BY <1>7 DEF IgnoreAtTarget, StartMove, JumpThere, BeginMove, StopHere, SendBack, EndMove
<1> QED
  BY <1>1, <1>2, <1>3, <1>4, <1>5, <1>6, <1>7 DEF Next, ServoTask

\* A movement does nothing in vain: between two commands let through, the commands in
\* the channel, the timer ticks ahead and the timer itself, in this order, only ever
\* go down, whatever servo.rs:168-191 does with the commands it takes.  MotionInv has
\* the ticks ahead positive, so that what is left of MovesEnd is fairness.
THEOREM MovementsGoOn == Spec => MovementsAdvance
<1>1. TypeOK /\ [Next]_vars => [AdvanceStep]_vars
  BY AdvanceNext
<1>2. [][AdvanceStep]_vars => MovementsAdvance
  BY PTL DEF AdvanceStep, MovementsAdvance
<1> QED
  BY <1>1, <1>2, TypeCorrect, PTL DEF Spec
=============================================================================
