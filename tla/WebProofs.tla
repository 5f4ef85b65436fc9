------------------------------ MODULE WebProofs ------------------------------
(***************************************************************************)
(* What the pages of www_test are told of a pin and of the voltages, and   *)
(* how its shutdown leaves the pins, for every number of pages, every      *)
(* capacity and whatever is connected to the pin.  The channel's theorems  *)
(* (RequestResponseProofs) carry over, since every step of the program is  *)
(* a step of the channel or leaves it alone.                               *)
(***************************************************************************)
EXTENDS WebServer, RequestResponseProofs

-----------------------------------------------------------------------------
(* The program's steps, as the channel sees them. *)

LEMMA WebClients == "main" \in Clients /\ Pages \subseteq Clients /\ Requests = PinRequests
  BY WebAssumption DEF WebAssumption

LEMMA PageCalls ==
  ASSUME NEW p \in Pages, PageTask(p) \/ Browser(p)
  PROVE  [Next]_callVars
<1>1. CASE Transact(p)
  BY <1>1, WebClients DEF Transact, Next
<1>2. CASE SetPin(p)
  BY <1>2, WebClients DEF SetPin, Next
<1>3. CASE (\E s \in SourceNames : Show(p, s)) \/ Enqueue(p) \/ OpenPage(p) \/ ClosePage(p)
           \/ SendEnds(p) \/ SendUart(p) \/ RequestShutdown(p) \/ OtherCommand(p)
  BY <1>3 DEF Show, Enqueue, OpenPage, ClosePage, SendEnds, SendUart, RequestShutdown,
              OtherCommand
<1> QED
  BY <1>1, <1>2, <1>3 DEF PageTask, Browser

LEMMA FloatCalls ==
  ASSUME FloatInv, FloatPin
  PROVE  [Next]_callVars
<1>1. ASSUME floats # <<>>
      PROVE  Head(floats) \in Requests
  BY <1>1, WebClients DEF FloatPin, FloatInv, FloatRequests, PinRequests
<1> QED
  BY <1>1, WebClients DEF FloatPin, Next

LEMMA WebStepIsCall == FloatInv /\ [WebNext]_webVars => [Next]_callVars
<1> SUFFICES ASSUME FloatInv, [WebNext]_webVars
             PROVE  [Next]_callVars
  OBVIOUS
<1>1. CASE PinTask
  BY <1>1 DEF PinTask, PublishPin, ArmEdge, TakeCommand, AnswerCommand, SeeEdge, Next, Server
<1>2. CASE AdcBatch \/ UartReads \/ UartPublishes \/ UartWrites
  BY <1>2 DEF AdcBatch, UartReads, UartPublishes, UartWrites, LineFrame
<1>3. CASE MainTask
  BY <1>3, FloatCalls DEF MainTask, MainWakes, BoostIsOff, PinsFloat, Sleep
<1>4. CASE OutsideChanges \/ Asleep \/ UNCHANGED webVars
  BY <1>4 DEF OutsideChanges, Asleep, webVars
<1> QED
  BY <1>1, <1>2, <1>3, <1>4, PageCalls DEF WebNext

-----------------------------------------------------------------------------
(* main and the pin. *)

LEMMA InitFloat == WebInit => FloatInv
  BY WebClients DEF WebInit, FloatInv, ServedMain, CallInit

\* A step that leaves the pin, main's place and the flag alone and lets main alone
\* in its call keeps the invariant.
LEMMA OthersKeepFloat ==
  ASSUME FloatInv,
         UNCHANGED <<main, floats, undone, level, mode, phase["main"], asked["main"]>>,
         ServedMain(serving)', ServedMain(responses)'
  PROVE  FloatInv'
  BY DEF FloatInv, Done

LEMMA OnlyOne ==
  ASSUME NEW a \in Nat, NEW b \in Nat, NEW c \in Nat, c # 0, a + b + c <= 1
  PROVE  a = 0 /\ b = 0 /\ c = 1
  OBVIOUS

LEMMA OneAnswer ==
  ASSUME TypeOK, CallInv, responses # <<>>
  PROVE  /\ Tail(responses) = <<>> /\ serving = <<>> /\ requests = <<>>
         /\ Head(responses) \in Messages
<1>1. /\ Len(requests) \in Nat /\ Len(serving) \in Nat /\ Len(responses) \in Nat
      /\ Len(responses) # 0
  BY LenType DEF TypeOK
<1>2. Len(requests) + Len(serving) + Len(responses) <= 1
  BY DEF CallInv, InFlight
<1>3. Len(requests) = 0 /\ Len(serving) = 0 /\ Len(responses) = 1
  BY <1>1, <1>2, OnlyOne
<1>4. Tail(responses) \in Seq(Messages) /\ Len(Tail(responses)) = 0
      /\ Head(responses) \in Messages
  BY <1>3, TailType DEF TypeOK
<1> QED
  BY <1>3, <1>4, LenType DEF TypeOK

LEMMA PageKeepsFloat ==
  ASSUME TypeOK, CallInv, FloatInv, NEW p \in Pages, PageTask(p) \/ Browser(p)
  PROVE  FloatInv'
<1>1. UNCHANGED <<main, floats, undone, level, mode, serving>>
  BY DEF PageTask, Browser, Show, Transact, Enqueue, OpenPage, ClosePage, SendEnds,
         SetPin, SendUart, RequestShutdown, OtherCommand, Command, PageFrame, pinVars,
         callVars, Lock, SendRequest, RecvResponse, Call
<1>2. p # "main" /\ p \in Clients /\ "main" \in Clients
  BY WebAssumption DEF WebAssumption
<1>3. CASE UNCHANGED callVars
  <2>1. UNCHANGED <<serving, responses, phase, asked>>
    BY <1>3 DEF callVars, clientVars
  <2> QED
    BY <1>1, <2>1, OthersKeepFloat DEF FloatInv, ServedMain, Done
<1>4. ASSUME NEW r, Call(p, r) \/ Lock(p) \/ SendRequest(p)
      PROVE  FloatInv'
  <2>1. UNCHANGED <<responses, phase["main"], asked["main"]>>
    BY <1>2, <1>4 DEF Call, Lock, SendRequest, TypeOK
  <2> QED
    BY <1>1, <2>1, OthersKeepFloat DEF FloatInv, ServedMain, Done
<1>5. CASE RecvResponse(p)
  <2>1. UNCHANGED <<phase["main"], asked["main"]>>
    BY <1>2, <1>5 DEF RecvResponse, TypeOK
  <2>2. responses' = <<>>
    BY <1>5, OneAnswer DEF RecvResponse
  <2> QED
    BY <1>1, <2>1, <2>2, OthersKeepFloat DEF FloatInv, ServedMain, Done
<1>6. UNCHANGED callVars \/ RecvResponse(p) \/ \E r : Call(p, r) \/ Lock(p) \/ SendRequest(p)
  BY DEF PageTask, Browser, Show, Transact, Enqueue, OpenPage, ClosePage, SendEnds,
         SetPin, SendUart, RequestShutdown, OtherCommand
<1> QED
  BY <1>3, <1>4, <1>5, <1>6

\* The request the pin's task takes is its caller's, and the only message on its way.
LEMMA OneRequest ==
  ASSUME TypeOK, CallInv, requests # <<>>
  PROVE  /\ serving = <<>> /\ responses = <<>>
         /\ Head(requests).from \in Clients
         /\ phase[Head(requests).from] = "awaiting"
         /\ asked[Head(requests).from] = {Head(requests).body}
<1>1. /\ Len(requests) \in Nat /\ Len(serving) \in Nat /\ Len(responses) \in Nat
      /\ Len(requests) # 0
  BY LenType DEF TypeOK
<1>2. Len(serving) + Len(responses) + Len(requests) <= 1
  BY <1>1 DEF CallInv, InFlight
<1>3. Len(serving) = 0 /\ Len(responses) = 0
  BY <1>1, <1>2, OnlyOne
<1>4. Head(requests) \in Messages
  BY TailType DEF TypeOK
<1> QED
  BY <1>3, <1>4, LenType DEF TypeOK, CallInv, Belongs, Messages

LEMMA TakeKeepsFloat ==
  ASSUME TypeOK, CallInv, FloatInv, TakeCommand
  PROVE  FloatInv'
<1> DEFINE from == Head(requests).from
           body == Head(requests).body
<1>1. /\ requests # <<>>
      /\ serving' = <<Head(requests)>>
      /\ UNCHANGED <<responses, phase, asked, main, floats>>
      /\ level' = LevelAfter(body)
      /\ mode' = ModeAfter(body)
      /\ undone' = (from # "main" \/ (undone /\ body # "OpenDrain"))
  BY DEF TakeCommand, RecvRequest, clientVars, mainVars
<1>2. responses = <<>> /\ phase[from] = "awaiting" /\ asked[from] = {body}
  BY <1>1, OneRequest
<1> HIDE DEF from, body
<1>3. ServedMain(responses)'
  BY <1>1, <1>2 DEF ServedMain
<1>4. CASE from # "main"
  <2>1. undone'
    BY <1>1, <1>4
  <2> QED
    BY <1>1, <1>3, <2>1 DEF FloatInv, ServedMain, Done
<1>5. CASE from = "main"
  <2>1. phase["main"] = "awaiting" /\ asked["main"] = {body}
    BY <1>2, <1>5
  <2>2. main = "float" /\ floats \in {<<"high">>, <<>>}
    BY <2>1 DEF FloatInv
  <2>3. CASE floats = <<"high">>
    <3>1. body = "OpenDrain"
      BY <2>1, <2>3 DEF FloatInv, FloatRequests
    <3>2. mode' = "OpenDrain"
      BY <1>1, <3>1 DEF ModeAfter, PinModes
    <3>3. ServedMain(serving)'
      BY <1>1, <3>1, <3>2 DEF ServedMain, Done, body
    <3> QED
      BY <1>1, <1>3, <2>1, <2>2, <2>3, <3>1, <3>3 DEF FloatInv
  <2>4. CASE floats = <<>>
    <3>1. body = "high" /\ Done("OpenDrain")
      BY <2>1, <2>2, <2>4 DEF FloatInv, FloatRequests
    <3>2. level' /\ mode' = mode /\ (undone => undone')
      <4>1. level'
        BY <1>1, <3>1 DEF LevelAfter
      <4>2. mode' = mode
        BY <1>1, <3>1 DEF ModeAfter, PinModes
      <4>3. undone => undone'
        BY <1>1, <3>1
      <4> QED
        BY <4>1, <4>2, <4>3
    <3>3. ServedMain(serving)' /\ Done("OpenDrain")'
      BY <1>1, <3>1, <3>2 DEF ServedMain, Done, body
    <3> QED
      BY <1>1, <1>3, <2>1, <2>2, <2>4, <3>1, <3>3 DEF FloatInv
  <2> QED
    BY <2>2, <2>3, <2>4
<1> QED
  BY <1>4, <1>5

LEMMA AnswerKeepsFloat ==
  ASSUME TypeOK, CallInv, FloatInv, AnswerCommand
  PROVE  FloatInv'
<1>1. /\ serving # <<>> /\ serving' = <<>>
      /\ responses' = Append(responses, Head(serving))
      /\ UNCHANGED <<phase, asked, main, floats, level, mode, undone>>
  BY DEF AnswerCommand, SendResponse, clientVars, mainVars
<1>2. responses = <<>>
  BY <1>1, OneAnswer
<1>3. responses' # <<>> /\ Head(responses') = Head(serving)
  BY <1>1, <1>2, TailType, AppendType DEF TypeOK
<1>4. ServedMain(responses)' /\ ServedMain(serving)'
  BY <1>1, <1>3 DEF FloatInv, ServedMain, Done
<1> QED
  BY <1>1, <1>4, OthersKeepFloat

LEMMA FloatPinKeepsFloat ==
  ASSUME TypeOK, CallInv, FloatInv, FloatPin
  PROVE  FloatInv'
<1>1. /\ main = "float" /\ UNCHANGED <<main, level, mode, undone>>
  BY DEF FloatPin, MainFrame, pinVars
<1>2. "main" \in Clients
  BY WebClients
<1>3. CASE floats # <<>> /\ Call("main", Head(floats)) /\ floats' = Tail(floats)
  <2>1. /\ phase' = [phase EXCEPT !["main"] = "locking"]
        /\ asked' = [asked EXCEPT !["main"] = {Head(floats)}]
        /\ phase["main"] = "idle"
        /\ UNCHANGED <<serving, responses>>
    BY <1>3 DEF Call
  <2>2. phase'["main"] = "locking" /\ asked'["main"] = {Head(floats)}
    BY <1>2, <2>1 DEF TypeOK
  <2>3. \/ Head(floats) = "OpenDrain" /\ floats' = <<"high">>
        \/ Head(floats) = "high" /\ floats' = <<>> /\ Done("OpenDrain")
    <3>1. CASE floats = FloatRequests
      <4>1. Head(floats) = "OpenDrain" /\ Tail(floats) = <<"high">>
        BY <3>1 DEF FloatRequests
      <4> QED
        BY <1>3, <4>1
    <3>2. CASE floats = <<"high">> /\ Done("OpenDrain")
      <4>1. Head(floats) = "high" /\ Tail(floats) = <<>>
        BY <3>2
      <4> QED
        BY <1>3, <3>2, <4>1
    <3>3. floats = FloatRequests \/ (floats = <<"high">> /\ Done("OpenDrain"))
      BY <1>1, <1>3, <2>1 DEF FloatInv
    <3> QED
      BY <3>1, <3>2, <3>3
  <2> QED
    BY <1>1, <2>1, <2>2, <2>3 DEF FloatInv, ServedMain, Done
<1>4. CASE (Lock("main") \/ SendRequest("main")) /\ UNCHANGED floats
  <2>1. /\ phase["main"] # "idle" /\ phase'["main"] # "idle"
        /\ UNCHANGED <<serving, responses, asked>>
    BY <1>2, <1>4 DEF Lock, SendRequest, TypeOK
  <2> QED
    BY <1>1, <1>4, <2>1 DEF FloatInv, ServedMain, Done
<1>5. CASE RecvResponse("main") /\ UNCHANGED floats
  <2>1. /\ phase["main"] = "awaiting" /\ responses # <<>>
        /\ phase'["main"] = "idle"
        /\ responses' = Tail(responses)
        /\ UNCHANGED <<serving, asked>>
    BY <1>2, <1>5 DEF RecvResponse, TypeOK
  <2>2. responses' = <<>> /\ Head(responses) \in Messages
    BY <2>1, OneAnswer
  <2>3. Head(responses).from = "main" /\ asked["main"] = {Head(responses).body}
    <3>1. mutex = {"main"}
      BY <1>2, <2>1 DEF CallInv
    <3>2. /\ Head(responses).from \in Clients
          /\ phase[Head(responses).from] = "awaiting"
          /\ asked[Head(responses).from] = {Head(responses).body}
      BY <2>1, <2>2 DEF CallInv, Belongs, Messages
    <3>3. mutex = {Head(responses).from}
      BY <3>2 DEF CallInv
    <3> QED
      BY <3>1, <3>2, <3>3
  <2>4. Done(Head(responses).body)
    BY <2>1, <2>3 DEF FloatInv, ServedMain
  <2>5. CASE floats = <<"high">>
    <3>1. Done("OpenDrain")
      BY <1>1, <2>1, <2>3, <2>4, <2>5 DEF FloatInv, FloatRequests
    <3> QED
      BY <1>1, <1>5, <2>1, <2>2, <2>5, <3>1 DEF FloatInv, ServedMain, Done
  <2>6. CASE floats = <<>>
    <3>1. Done("high") /\ Done("OpenDrain")
      BY <1>1, <2>1, <2>3, <2>4, <2>6 DEF FloatInv, FloatRequests
    <3> QED
      BY <1>1, <1>5, <2>1, <2>2, <2>6, <3>1 DEF FloatInv, ServedMain, Done
  <2> QED
    BY <1>1, <2>1, <2>5, <2>6 DEF FloatInv
<1> QED
  BY <1>3, <1>4, <1>5 DEF FloatPin

\* Between main's calls no message of main's is on its way.
LEMMA IdleMain ==
  ASSUME TypeOK, CallInv, phase["main"] = "idle", NEW queue \in {serving, responses},
         queue # <<>>
  PROVE  Head(queue).from # "main"
<1>1. queue \in Seq(Messages) /\ Belongs(queue)
  BY DEF TypeOK, CallInv
<1> QED
  BY <1>1, Awaited

LEMMA MainKeepsFloat ==
  ASSUME TypeOK, CallInv, FloatInv, MainTask
  PROVE  FloatInv'
<1>1. CASE MainWakes \/ Sleep \/ PinsFloat
  <2>1. UNCHANGED <<floats, undone, level, mode, serving, responses, phase, asked>>
    BY <1>1 DEF MainWakes, Sleep, PinsFloat, MainFrame, pinVars, callVars, clientVars
  <2>2. ServedMain(serving)' /\ ServedMain(responses)'
    BY <2>1 DEF FloatInv, ServedMain, Done
  <2>3. CASE main # "float" /\ main' # "float" /\ (main' = "asleep" => main = "ship")
             /\ main' # "ship"
    BY <2>1, <2>2, <2>3 DEF FloatInv, Done
  <2>4. CASE PinsFloat
    <3>1. floats = <<>> /\ phase["main"] = "idle" /\ main = "float" /\ main' = "ship"
      BY <2>4 DEF PinsFloat
    <3>2. Done("OpenDrain") /\ Done("high")
      BY <3>1 DEF FloatInv, FloatRequests
    <3> QED
      BY <2>1, <2>2, <3>1, <3>2 DEF FloatInv, Done
  <2> QED
    BY <1>1, <2>3, <2>4 DEF MainWakes, Sleep
<1>2. CASE BoostIsOff
  <2>1. /\ main = "boost" /\ main' = "float" /\ floats' = FloatRequests
        /\ UNCHANGED <<level, mode, serving, responses, phase, asked>>
    BY <1>2 DEF BoostIsOff, MainFrame, pinVars, callVars, clientVars
  <2>2. phase["main"] = "idle"
    BY <2>1 DEF FloatInv
  <2>3. ServedMain(serving)' /\ ServedMain(responses)'
    BY <2>1, <2>2, IdleMain DEF ServedMain
  <2> QED
    BY <2>1, <2>2, <2>3 DEF FloatInv, FloatRequests
<1> QED
  BY <1>1, <1>2, FloatPinKeepsFloat DEF MainTask

LEMMA NextFloat == TypeOK /\ CallInv /\ FloatInv /\ [WebNext]_webVars => FloatInv'
<1> SUFFICES ASSUME TypeOK, CallInv, FloatInv, [WebNext]_webVars
             PROVE  FloatInv'
  OBVIOUS
<1>1. CASE UNCHANGED <<callVars, main, floats, undone, level, mode>>
  <2>1. UNCHANGED <<main, floats, undone, level, mode, serving, responses, phase, asked>>
    BY <1>1 DEF callVars, clientVars
  <2> QED
    BY <2>1, OthersKeepFloat DEF FloatInv, ServedMain, Done
<1>2. CASE PublishPin \/ ArmEdge \/ SeeEdge \/ OutsideChanges
  BY <1>1, <1>2 DEF PublishPin, ArmEdge, SeeEdge, OutsideChanges, mainVars
<1>3. CASE AdcBatch \/ UartReads \/ UartPublishes \/ UartWrites
  BY <1>1, <1>3 DEF AdcBatch, UartReads, UartPublishes, UartWrites, LineFrame, pinVars,
                    mainVars
<1>4. CASE Asleep \/ UNCHANGED webVars
  BY <1>1, <1>4 DEF Asleep, webVars, pinVars, mainVars
<1> QED
  BY <1>2, <1>3, <1>4, PageKeepsFloat, TakeKeepsFloat, AnswerKeepsFloat, MainKeepsFloat
     DEF WebNext, PinTask

-----------------------------------------------------------------------------
(* The channel inside the program. *)

LEMMA WebCalls == WebSpec => [](TypeOK /\ CallInv /\ FloatInv)
<1>1. WebInit => TypeOK /\ CallInv /\ FloatInv
  BY InitType, InitCalls, InitFloat DEF WebInit
<1>2. TypeOK /\ CallInv /\ FloatInv /\ [WebNext]_webVars => (TypeOK /\ CallInv /\ FloatInv)'
  BY WebStepIsCall, NextType, NextCalls, NextFloat
<1> QED
  BY <1>1, <1>2, PTL DEF WebSpec

\* The program uses the pin's channel as its code means it to be used: its behaviours
\* are behaviours of calls that are answered one at a time (DigitalIoHandle).
THEOREM WebImplementsDesign == WebSpec => ImplementsDesign
<1>1. WebInit => CallInit
  BY DEF WebInit
<1>2. WebSpec => Spec
  BY <1>1, WebCalls, WebStepIsCall, PTL DEF WebSpec, Spec
<1> QED
  BY <1>2, RefinesDesign, PTL

\* A page that sets a pin, and main that floats it, each get the answer to their own
\* request, however many pages there are (DigitalIoHandle::set and set_mode).
THEOREM WebAnswersAreOwn == WebSpec => []OwnAnswer
<1>1. CallInv => OwnAnswer
  BY DEF CallInv
<1> QED
  BY <1>1, WebCalls, PTL

\* The board falls asleep with the pin in open drain and released, unless a page
\* gave a command after main had set the mode (main's shutdown).
THEOREM FallsAsleepFloating == WebSpec => []SleepsFloating
<1>1. FloatInv => SleepsFloating
  BY DEF FloatInv, SleepsFloating, Done
<1> QED
  BY <1>1, WebCalls, PTL

-----------------------------------------------------------------------------
(* The pin and what is told of it. *)

LEMMA InitPin == WebInit => PinInv
  BY DEF WebInit, PinInv

LEMMA NextPin == PinInv /\ [WebNext]_webVars => PinInv'
<1> SUFFICES ASSUME PinInv, [WebNext]_webVars
             PROVE  PinInv'
  OBVIOUS
<1>1. CASE UNCHANGED pinVars
  BY <1>1 DEF pinVars, PinInv, PinState
<1>2. CASE OutsideChanges
  <2> DEFINE falls == Reads(outside', level, mode) # Reads(outside, level, mode)
  <2>1. /\ edge' <=> (edge \/ (falls /\ pinTask = "wait"))
        /\ missed' <=> (missed \/ (falls /\ pinTask = "arm"))
        /\ UNCHANGED <<level, mode, pinTask, pinWatch>>
    BY <1>2 DEF OutsideChanges
  <2>2. edge' => pinTask' = "wait"
    BY <2>1 DEF PinInv
  <2>3. ASSUME pinTask \in {"arm", "wait"}, ~edge', ~missed'
        PROVE  PinState' = PinState
    <3>1. Reads(outside', level, mode) = Reads(outside, level, mode)
      BY <2>1, <2>3
    <3> HIDE DEF falls
    <3> QED
      BY <2>1, <3>1 DEF PinState
  <2> HIDE DEF falls
  <2> QED
    BY <2>1, <2>2, <2>3 DEF PinInv
<1>3. CASE PublishPin
  <2>1. /\ pinTask \in {"publish", "boot"} /\ pinTask' = "arm"
        /\ pinWatch' = {[mode |-> mode, state |-> PinState]}
        /\ UNCHANGED <<outside, level, mode, edge>>
    BY <1>3 DEF PublishPin
  <2>2. ~edge'
    BY <2>1 DEF PinInv
  <2> QED
    BY <2>1, <2>2 DEF PinInv, PinState
<1>4. CASE ArmEdge
  BY <1>4 DEF ArmEdge, PinInv, PinState
<1>5. CASE TakeCommand \/ AnswerCommand \/ SeeEdge
  <2>1. pinTask' \in {"answer", "publish"} /\ ~edge'
    <3>1. CASE TakeCommand \/ SeeEdge
      BY <1>5, <3>1 DEF TakeCommand, SeeEdge
    <3>2. CASE AnswerCommand
      <4>1. pinTask = "answer" /\ pinTask' = "publish" /\ edge' = edge
        BY <3>2 DEF AnswerCommand, AfterCommand
      <4>2. ~edge
        BY <4>1 DEF PinInv
      <4> QED
        BY <4>1, <4>2
    <3> QED
      BY <1>5, <3>1, <3>2
  <2> QED
    BY <2>1 DEF PinInv
<1>6. CASE AdcBatch \/ UartReads \/ UartPublishes \/ UartWrites
  BY <1>1, <1>6 DEF AdcBatch, UartReads, UartPublishes, UartWrites, LineFrame
<1>7. CASE MainTask
  BY <1>1, <1>7 DEF MainTask, MainWakes, BoostIsOff, FloatPin, PinsFloat, Sleep, MainFrame
<1>8. ASSUME NEW p \in Pages, PageTask(p) \/ Browser(p)
      PROVE  PinInv'
  BY <1>1, <1>8 DEF PageTask, Browser, Show, Transact, Enqueue, OpenPage, ClosePage,
     SendEnds, SetPin, SendUart, RequestShutdown, OtherCommand, Command, PageFrame
<1>9. CASE Asleep \/ UNCHANGED webVars
  BY <1>1, <1>9 DEF Asleep, webVars
<1> QED
  BY <1>2, <1>3, <1>4, <1>5, <1>6, <1>7, <1>8, <1>9 DEF WebNext, PinTask

\* Whatever is connected to the pin and however many pages give it commands, the pages
\* have been told how it is whenever its task waits (digital_pin_task).
THEOREM PinAsShown == WebSpec => []PinIsShown
<1>1. PinInv => PinIsShown
  BY DEF PinInv, PinIsShown
<1> QED
  BY <1>1, InitPin, NextPin, PTL DEF WebSpec

-----------------------------------------------------------------------------
(* Voltages and buffers. *)

\* The part of WebTypeOK that counting batches needs.
Counted ==
  /\ batches \in Nat
  /\ unread \in [Pages -> [SourceNames -> Nat]]
  /\ shown \in [Pages -> [voltage: Nat, buffer: Nat]]
  /\ page \in [Pages -> PageStates]

LEMMA InitCounted == WebInit => Counted /\ VoltageInv
  BY DEF WebInit, Counted, Nothing, PageStates, VoltageInv, IsOpen, SourceNames

LEMMA TellType ==
  ASSUME NEW told \in [Pages -> [SourceNames -> Nat]], NEW s \in SourceNames, NEW most
  PROVE  /\ Tell(told, s, most) \in [Pages -> [SourceNames -> Nat]]
         /\ \A p \in Pages : Tell(told, s, most)[p][s] \in {told[p][s], told[p][s] + 1}
         /\ \A p \in Pages :
              told[p][s] < most /\ IsOpen(p) => Tell(told, s, most)[p][s] = told[p][s] + 1
         /\ \A p \in Pages : Tell(told, s, most)[p][s] >= told[p][s]
<1>1. \A p \in Pages : [told[p] EXCEPT ![s] = @ + 1] \in [SourceNames -> Nat]
  OBVIOUS
<1> QED
  BY <1>1 DEF Tell

LEMMA TellOthers ==
  ASSUME NEW told \in [Pages -> [SourceNames -> Nat]], NEW s \in SourceNames, NEW most,
         NEW t \in SourceNames, t # s, NEW p \in Pages
  PROVE  Tell(told, s, most)[p][t] = told[p][t]
  BY DEF Tell

\* The select comes to the buffers only when the voltages are taken.
LEMMA VoltageFirst ==
  ASSUME NEW p \in Pages, FirstReady(p, "buffer")
  PROVE  unread[p]["voltage"] = 0
<1>1. /\ 1 \in DOMAIN Sources /\ 3 \in DOMAIN Sources
      /\ Sources[1] = "voltage" /\ Sources[3] = "buffer" /\ 1 < 3
  BY DEF Sources
<1> QED
  BY <1>1 DEF FirstReady

\* Only what the page took changes, and the buffer it took is one of the ADC's.
LEMMA ShowCounts ==
  ASSUME Counted, VoltageInv, NEW p \in Pages, NEW s \in SourceNames, Show(p, s)
  PROVE  Counted' /\ VoltageInv'
<1>1. /\ page[p] = "select" /\ unread[p][s] > 0 /\ FirstReady(p, s)
      /\ unread' = [unread EXCEPT ![p][s] = @ - 1]
      /\ shown' = [shown EXCEPT ![p] =
           [voltage |-> IF s = "voltage" THEN batches ELSE shown[p].voltage,
            buffer  |-> IF s = "buffer" THEN OldestBuffer(p) ELSE shown[p].buffer]]
      /\ page' \in {page, [page EXCEPT ![p] = "sending"]}
      /\ batches' = batches
  BY DEF Show, TakeMessage, PageFrame
<1>2. unread' \in [Pages -> [SourceNames -> Nat]]
  <2>1. [unread[p] EXCEPT ![s] = @ - 1] \in [SourceNames -> Nat]
    BY <1>1 DEF Counted
  <2>2. unread' = [unread EXCEPT ![p] = [unread[p] EXCEPT ![s] = @ - 1]]
    BY <1>1
  <2> QED
    BY <2>1, <2>2 DEF Counted
<1>3. s = "buffer" => OldestBuffer(p) \in Nat /\ OldestBuffer(p) <= batches
  BY <1>1 DEF OldestBuffer, Counted, VoltageInv, SourceNames
<1>4. s = "buffer" => unread[p]["voltage"] = 0
  BY <1>1, VoltageFirst
<1>5. \A q \in Pages : page'[q] \in PageStates /\ (IsOpen(q)' <=> IsOpen(q))
  BY <1>1 DEF Counted, IsOpen, PageStates
<1>6. page' \in [Pages -> PageStates]
  BY <1>1, <1>5 DEF Counted
<1>7. \A q \in Pages : shown'[q] =
        IF q = p THEN [voltage |-> IF s = "voltage" THEN batches ELSE shown[p].voltage,
                       buffer  |-> IF s = "buffer" THEN OldestBuffer(p) ELSE shown[p].buffer]
        ELSE shown[q]
  BY <1>1 DEF Counted
<1>8. \A q \in Pages, t \in SourceNames :
        unread'[q][t] = IF q = p /\ t = s THEN unread[q][t] - 1 ELSE unread[q][t]
  BY <1>1 DEF Counted
<1>9. shown' \in [Pages -> [voltage: Nat, buffer: Nat]]
  BY <1>1, <1>3 DEF Counted
<1>10. Counted'
  BY <1>1, <1>2, <1>6, <1>9 DEF Counted
<1>11. ASSUME NEW q \in Pages
       PROVE  /\ unread'[q]["buffer"] <= batches
              /\ shown'[q].buffer <= shown'[q].voltage
              /\ shown'[q].voltage <= batches
              /\ IsOpen(q)' /\ unread'[q]["voltage"] = 0 => shown'[q].voltage = batches
  <2>1. CASE q # p
    BY <1>5, <1>7, <1>8, <2>1 DEF VoltageInv, SourceNames
  <2>2. CASE q = p
    <3>1. IsOpen(p) /\ "voltage" \in SourceNames /\ "buffer" \in SourceNames
      BY <1>1 DEF IsOpen, SourceNames
    <3>2. unread'[p]["buffer"] <= batches
      BY <1>8, <3>1 DEF VoltageInv, Counted
    <3>3. CASE s = "voltage"
      BY <1>7, <2>2, <3>2, <3>3 DEF VoltageInv, Counted
    <3>4. CASE s = "buffer"
      BY <1>3, <1>4, <1>7, <2>2, <3>1, <3>2, <3>4 DEF VoltageInv, Counted
    <3>5. CASE s \notin {"voltage", "buffer"}
      BY <1>7, <1>8, <2>2, <3>1, <3>2, <3>5 DEF VoltageInv, Counted
    <3> QED
      BY <3>3, <3>4, <3>5
  <2> QED
    BY <2>1, <2>2
<1> QED
  BY <1>1, <1>10, <1>11 DEF VoltageInv

LEMMA BatchCounts ==
  ASSUME Counted, VoltageInv, AdcBatch
  PROVE  Counted' /\ VoltageInv'
<1> DEFINE told == Tell(unread, "voltage", 1)
<1>1. /\ batches' = batches + 1
      /\ unread' = Tell(told, "buffer", BufferSlots)
      /\ UNCHANGED <<shown, page>>
  BY DEF AdcBatch, LineFrame
<1>2. "voltage" \in SourceNames /\ "buffer" \in SourceNames
  BY DEF SourceNames
<1>3. told \in [Pages -> [SourceNames -> Nat]]
  BY <1>2, TellType DEF Counted
<1>4. \A p \in Pages : /\ told[p]["buffer"] = unread[p]["buffer"]
                       /\ IsOpen(p) => told[p]["voltage"] # 0
  <2> SUFFICES ASSUME NEW p \in Pages
               PROVE  /\ told[p]["buffer"] = unread[p]["buffer"]
                      /\ IsOpen(p) => told[p]["voltage"] # 0
    OBVIOUS
  <2>1. unread[p]["voltage"] \in Nat
    BY <1>2 DEF Counted
  <2>2. told[p]["buffer"] = unread[p]["buffer"]
    BY <1>2 DEF Counted, Tell
  <2>3. IsOpen(p) /\ unread[p]["voltage"] < 1 => told[p]["voltage"] = unread[p]["voltage"] + 1
    BY <1>2, TellType DEF Counted
  <2>4. told[p]["voltage"] >= unread[p]["voltage"]
    BY <1>2, TellType DEF Counted
  <2> HIDE DEF told
  <2> QED
    BY <2>1, <2>2, <2>3, <2>4
<1> HIDE DEF told
<1>5. /\ unread' \in [Pages -> [SourceNames -> Nat]]
      /\ \A p \in Pages : unread'[p]["voltage"] = told[p]["voltage"]
      /\ \A p \in Pages : unread'[p]["buffer"] \in
                            {told[p]["buffer"], told[p]["buffer"] + 1}
  <2>1. unread' \in [Pages -> [SourceNames -> Nat]]
    BY <1>1, <1>2, <1>3, TellType
  <2>2. \A p \in Pages : unread'[p]["voltage"] = told[p]["voltage"]
    BY <1>1, <1>2, <1>3, TellOthers
  <2>3. \A p \in Pages : unread'[p]["buffer"] \in
                            {told[p]["buffer"], told[p]["buffer"] + 1}
    BY <1>1, <1>2, <1>3, TellType
  <2> QED
    BY <2>1, <2>2, <2>3
<1>6. Counted'
  BY <1>1, <1>5 DEF Counted
<1>7. ASSUME NEW p \in Pages
      PROVE  /\ unread'[p]["buffer"] <= batches'
             /\ shown'[p].buffer <= shown'[p].voltage
             /\ shown'[p].voltage <= batches'
             /\ IsOpen(p)' => unread'[p]["voltage"] # 0
  <2>1. shown[p].buffer \in Nat /\ shown[p].voltage \in Nat /\ unread[p]["buffer"] \in Nat
    BY <1>2 DEF Counted
  <2>2. /\ batches \in Nat /\ shown[p].buffer <= shown[p].voltage
        /\ shown[p].voltage <= batches /\ unread[p]["buffer"] <= batches
    BY DEF VoltageInv, Counted
  <2>3. unread'[p]["buffer"] \in {unread[p]["buffer"], unread[p]["buffer"] + 1}
    BY <1>4, <1>5
  <2>4. IsOpen(p)' => unread'[p]["voltage"] # 0
    BY <1>1, <1>4, <1>5 DEF IsOpen
  <2> QED
    BY <1>1, <2>1, <2>2, <2>3, <2>4
<1> QED
  BY <1>6, <1>7 DEF VoltageInv

\* Whoever tells the pages of anything but voltages and buffers.
LEMMA TellCounts ==
  ASSUME Counted, VoltageInv, NEW s \in {"pin", "uart"}, NEW most,
         unread' = Tell(unread, s, most), UNCHANGED <<shown, page, batches>>
  PROVE  Counted' /\ VoltageInv'
<1>1. /\ {s, "voltage", "buffer"} \subseteq SourceNames /\ s # "voltage" /\ s # "buffer"
  BY DEF SourceNames
<1>2. /\ unread' \in [Pages -> [SourceNames -> Nat]]
      /\ \A p \in Pages : /\ unread'[p]["voltage"] = unread[p]["voltage"]
                          /\ unread'[p]["buffer"] = unread[p]["buffer"]
  <2>1. unread' \in [Pages -> [SourceNames -> Nat]]
    BY <1>1, TellType DEF Counted
  <2>2. \A t \in SourceNames \ {s}, p \in Pages : unread'[p][t] = unread[p][t]
    BY <1>1, TellOthers DEF Counted
  <2> QED
    BY <1>1, <2>1, <2>2
<1> QED
  BY <1>2 DEF Counted, VoltageInv, IsOpen

LEMMA OpenCounts ==
  ASSUME Counted, VoltageInv, NEW p \in Pages, OpenPage(p) \/ ClosePage(p)
  PROVE  Counted' /\ VoltageInv'
<1>1. /\ batches' = batches
      /\ \E told \in {Fresh, Nothing} : unread' = [unread EXCEPT ![p] = told]
      /\ \E state \in PageStates : page' = [page EXCEPT ![p] = state]
      /\ OpenPage(p) => unread' = [unread EXCEPT ![p] = Fresh]
      /\ OpenPage(p) => shown' = [shown EXCEPT ![p] = [voltage |-> 0, buffer |-> 0]]
      /\ ClosePage(p) => shown' = shown /\ ~IsOpen(p)'
  BY DEF OpenPage, ClosePage, PageFrame, PageStates, Counted, IsOpen
<1>2. /\ Fresh \in [SourceNames -> Nat] /\ Nothing \in [SourceNames -> Nat]
      /\ Fresh["buffer"] = 0 /\ Nothing["buffer"] = 0
      /\ Fresh["voltage"] = IF batches > 0 THEN 1 ELSE 0
  BY DEF Fresh, Nothing, SourceNames
<1>3. unread' \in [Pages -> [SourceNames -> Nat]] /\ page' \in [Pages -> PageStates]
  BY <1>1, <1>2 DEF Counted
<1>4. shown' \in [Pages -> [voltage: Nat, buffer: Nat]]
  BY <1>1 DEF Counted
<1>5. \A q \in Pages \ {p} : UNCHANGED <<unread[q], shown[q], page[q]>>
  BY <1>1 DEF Counted
<1>6. unread'[p]["buffer"] = 0
  BY <1>1, <1>2 DEF Counted
<1>7. OpenPage(p) => /\ shown'[p].voltage = 0 /\ shown'[p].buffer = 0
                     /\ unread'[p]["voltage"] = 0 => batches = 0
  BY <1>1, <1>2 DEF Counted
<1>8. ASSUME NEW q \in Pages
      PROVE  /\ unread'[q]["buffer"] <= batches
             /\ shown'[q].buffer <= shown'[q].voltage
             /\ shown'[q].voltage <= batches
             /\ IsOpen(q)' /\ unread'[q]["voltage"] = 0 => shown'[q].voltage = batches
  BY <1>1, <1>5, <1>6, <1>7 DEF VoltageInv, IsOpen, Counted
<1> QED
  BY <1>1, <1>3, <1>4, <1>8 DEF Counted, VoltageInv

LEMMA NextCounts == Counted /\ VoltageInv /\ [WebNext]_webVars => Counted' /\ VoltageInv'
<1> SUFFICES ASSUME Counted, VoltageInv, [WebNext]_webVars
             PROVE  Counted' /\ VoltageInv'
  OBVIOUS
<1>1. CASE UNCHANGED <<batches, unread, shown, page>>
  BY <1>1 DEF Counted, VoltageInv, IsOpen
<1>2. CASE PinTask
  BY <1>1, <1>2, TellCounts DEF PinTask, PublishPin, ArmEdge, TakeCommand, AnswerCommand,
                               SeeEdge, pageVars, lineVars
<1>3. CASE UartReads \/ UartPublishes \/ UartWrites
  BY <1>1, <1>3, TellCounts DEF UartReads, UartPublishes, UartWrites, LineFrame
<1>4. CASE MainTask
  BY <1>1, <1>4 DEF MainTask, MainWakes, BoostIsOff, FloatPin, PinsFloat, Sleep, MainFrame,
                    pageVars, lineVars
<1>5. ASSUME NEW p \in Pages, SendEnds(p) \/ SetPin(p) \/ SendUart(p) \/ RequestShutdown(p)
                              \/ OtherCommand(p) \/ Transact(p) \/ Enqueue(p)
      PROVE  Counted' /\ VoltageInv'
  <2>1. UNCHANGED <<batches, unread, shown>> /\ IsOpen(p)
    BY <1>5 DEF SendEnds, SetPin, SendUart, RequestShutdown, OtherCommand, Transact,
                Enqueue, Command, PageFrame, IsOpen
  <2>2. UNCHANGED page \/ \E state \in PageStates \ {"closed"} :
                            page' = [page EXCEPT ![p] = state]
    BY <1>5 DEF SendEnds, SetPin, SendUart, RequestShutdown, OtherCommand, Transact,
                Enqueue, PageStates
  <2>3. page' \in [Pages -> PageStates] /\ \A q \in Pages : IsOpen(q)' <=> IsOpen(q)
    BY <2>1, <2>2 DEF Counted, IsOpen
  <2> QED
    BY <2>1, <2>3 DEF Counted, VoltageInv
<1>6. CASE OutsideChanges \/ Asleep \/ UNCHANGED webVars
  BY <1>1, <1>6 DEF OutsideChanges, Asleep, webVars, pageVars, lineVars
<1> QED
  BY <1>2, <1>3, <1>4, <1>5, <1>6, BatchCounts, ShowCounts, OpenCounts
     DEF WebNext, PageTask, Browser

\* A page never shows a buffer beside older voltages: the Watch's value is published
\* before the buffer and polled before it (adc_task, WebsocketHandler::run).
THEOREM VoltageKeepsUpAlways == WebSpec => []VoltageKeepsUp
<1>1. VoltageInv => VoltageKeepsUp
  BY DEF VoltageInv, VoltageKeepsUp
<1> QED
  BY <1>1, InitCounted, NextCounts, PTL DEF WebSpec

-----------------------------------------------------------------------------
(* The types of the rest. *)

\* What WebTypeOK says beyond the channel's types and Counted.
Typed ==
  /\ outside \in [high: BOOLEAN, strong: BOOLEAN]
  /\ {level, edge, received, writing, signal, missed, undone} \subseteq BOOLEAN
  /\ mode \in PinModes
  /\ pinTask \in {"boot", "publish", "arm", "wait", "answer"}
  /\ txQueue \in 0..TxSlots
  /\ main \in {"running", "boost", "float", "ship", "asleep"}
  /\ scene \in Scenes
  /\ commands \in Nat

LEMMA InitTyped == WebInit => Typed
<1>1. TxSlots \in Nat
  BY WebAssumption DEF WebAssumption
<1>2. WebInit => outside \in [high: BOOLEAN, strong: BOOLEAN] /\ txQueue \in 0..TxSlots
  BY <1>1 DEF WebInit
<1>3. WebInit => {level, edge, received, writing, signal, missed, undone} \subseteq BOOLEAN
  BY DEF WebInit
<1> QED
  BY <1>2, <1>3 DEF WebInit, Typed, PinModes

LEMMA NextTyped == Typed /\ [WebNext]_webVars => Typed'
<1> SUFFICES ASSUME Typed, [WebNext]_webVars
             PROVE  Typed'
  OBVIOUS
<1> DEFINE PinTyped  == /\ outside \in [high: BOOLEAN, strong: BOOLEAN]
                        /\ {level, edge, missed} \subseteq BOOLEAN
                        /\ mode \in PinModes
                        /\ pinTask \in {"boot", "publish", "arm", "wait", "answer"}
           LineTyped == received \in BOOLEAN /\ writing \in BOOLEAN /\ txQueue \in 0..TxSlots
           MainTyped == /\ {signal, undone} \subseteq BOOLEAN
                        /\ main \in {"running", "boost", "float", "ship", "asleep"}
           Bounded   == scene \in Scenes /\ commands \in Nat
<1>0. TxSlots \in Nat
  BY WebAssumption DEF WebAssumption
<1>1. PinTyped /\ LineTyped /\ MainTyped /\ Bounded
  BY DEF Typed
<1>2. CASE OutsideChanges
  <2>1. /\ outside' \in Outsides
        /\ edge' \in BOOLEAN /\ missed' \in BOOLEAN
        /\ UNCHANGED <<level, mode, pinTask, lineVars, mainVars, scene, commands, undone>>
    BY <1>1, <1>2 DEF OutsideChanges
  <2> QED
    BY <1>1, <2>1, WebAssumption DEF Typed, lineVars, mainVars, WebAssumption
<1>3. CASE PinTask
  <2>1. PinTyped' /\ undone' \in BOOLEAN
    <3>1. CASE TakeCommand
      <4>1. level' \in BOOLEAN
        BY <1>1, <3>1 DEF TakeCommand, LevelAfter
      <4>2. mode' \in PinModes
        BY <1>1, <3>1 DEF TakeCommand, ModeAfter, PinModes
      <4>3. undone' \in BOOLEAN
        BY <1>1, <3>1 DEF TakeCommand
      <4> QED
        BY <1>1, <3>1, <4>1, <4>2, <4>3 DEF TakeCommand
    <3>2. CASE PublishPin \/ ArmEdge \/ AnswerCommand \/ SeeEdge
      BY <1>1, <3>2 DEF PublishPin, ArmEdge, AnswerCommand, SeeEdge, AfterCommand
    <3> QED
      BY <1>3, <3>1, <3>2 DEF PinTask
  <2>2. UNCHANGED <<received, writing, txQueue, signal, main, scene, commands>>
    BY <1>3 DEF PinTask, PublishPin, ArmEdge, TakeCommand, AnswerCommand, SeeEdge,
                lineVars, mainVars
  <2> QED
    BY <1>1, <2>1, <2>2 DEF Typed
<1>4. CASE AdcBatch \/ UartReads \/ UartPublishes \/ UartWrites
  <2>1. LineTyped'
    <3>1. CASE AdcBatch \/ UartReads \/ UartPublishes
      BY <1>1, <3>1 DEF AdcBatch, UartReads, UartPublishes
    <3>2. CASE UartWrites
      <4>1. received' = received /\ writing' \in BOOLEAN
        BY <1>1, <3>2 DEF UartWrites
      <4>2. txQueue' \in 0..TxSlots
        BY <1>0, <1>1, <3>2 DEF UartWrites
      <4> QED
        BY <1>1, <4>1, <4>2
    <3> QED
      BY <1>4, <3>1, <3>2
  <2>2. UNCHANGED <<outside, level, mode, edge, pinTask, missed, signal, main, scene,
                    commands, undone>>
    BY <1>4 DEF AdcBatch, UartReads, UartPublishes, UartWrites, LineFrame, pinVars, mainVars
  <2> QED
    BY <1>1, <2>1, <2>2 DEF Typed
<1>5. CASE MainTask
  <2>1. MainTyped'
    BY <1>1, <1>5 DEF MainTask, MainWakes, BoostIsOff, FloatPin, PinsFloat, Sleep
  <2>2. UNCHANGED <<outside, level, mode, edge, pinTask, missed, received, writing, txQueue,
                    scene, commands>>
    BY <1>5 DEF MainTask, MainWakes, BoostIsOff, FloatPin, PinsFloat, Sleep, MainFrame,
                pinVars, lineVars
  <2> QED
    BY <1>1, <2>1, <2>2 DEF Typed
<1>6. ASSUME NEW p \in Pages, PageTask(p) \/ Browser(p)
      PROVE  Typed'
  <2>1. UNCHANGED <<outside, level, mode, edge, pinTask, missed, received, writing, main,
                    scene, undone>>
    BY <1>6 DEF PageTask, Browser, Show, Transact, Enqueue, OpenPage, ClosePage, SendEnds,
       SetPin, SendUart, RequestShutdown, OtherCommand, Command, PageFrame, pinVars
  <2>2. txQueue' \in 0..TxSlots /\ signal' \in BOOLEAN /\ commands' \in Nat
    <3>1. CASE Enqueue(p)
      <4>1. txQueue' \in 0..TxSlots
        BY <1>0, <1>1, <3>1 DEF Enqueue
      <4> QED
        BY <1>1, <3>1, <4>1 DEF Enqueue
    <3>2. CASE SetPin(p) \/ SendUart(p) \/ RequestShutdown(p) \/ OtherCommand(p)
      <4>1. commands' \in Nat /\ UNCHANGED txQueue
        BY <1>1, <3>2 DEF SetPin, SendUart, RequestShutdown, OtherCommand, Command
      <4>2. signal' \in BOOLEAN
        BY <1>1, <3>2 DEF SetPin, SendUart, RequestShutdown, OtherCommand
      <4> QED
        BY <1>1, <4>1, <4>2
    <3>3. ASSUME UNCHANGED <<txQueue, signal, commands>>
          PROVE  txQueue' \in 0..TxSlots /\ signal' \in BOOLEAN /\ commands' \in Nat
      BY <1>1, <3>3
    <3> QED
      BY <1>6, <3>1, <3>2, <3>3 DEF PageTask, Browser, Show, Transact, OpenPage, ClosePage,
         SendEnds
  <2> QED
    BY <1>1, <2>1, <2>2 DEF Typed
<1>7. CASE Asleep \/ UNCHANGED webVars
  BY <1>1, <1>7 DEF Asleep, webVars, pinVars, lineVars, mainVars, Typed
<1> QED
  BY <1>2, <1>3, <1>4, <1>5, <1>6, <1>7 DEF WebNext

\* Every variable of the program keeps to its type (www_test).
THEOREM WebTypeCorrect == WebSpec => []WebTypeOK
<1>1. TypeOK /\ Counted /\ Typed => WebTypeOK
  BY DEF Counted, Typed, WebTypeOK
<1>2. WebSpec => []TypeOK
  BY WebCalls, PTL
<1>3. WebSpec => [](Counted /\ VoltageInv)
  BY InitCounted, NextCounts, PTL DEF WebSpec
<1>4. WebSpec => []Typed
  BY InitTyped, NextTyped, PTL DEF WebSpec
<1> QED
  BY <1>1, <1>2, <1>3, <1>4, PTL

-----------------------------------------------------------------------------
(* Nobody waits in a circle. *)

LEMMA InitPageCalls == WebInit => PageCallInv
  BY WebClients DEF WebInit, CallInit, PageCallInv

\* One page's step: its call and its task keep together, and the others are not touched.
LEMMA OnePageCalls ==
  ASSUME TypeOK, Counted, PageCallInv, NEW c \in Pages, NEW at, NEW now,
         UNCHANGED <<serving, pinTask>>,
         phase' = [phase EXCEPT ![c] = at], page' = [page EXCEPT ![c] = now],
         at # "idle" <=> now = "calling"
  PROVE  PageCallInv'
<1>1. DOMAIN phase = Clients /\ DOMAIN page = Pages /\ Pages \subseteq Clients
  BY WebClients DEF TypeOK, Counted
<1>2. phase'[c] = at /\ page'[c] = now
  BY <1>1
<1>3. \A p \in Pages : p # c => phase'[p] = phase[p] /\ page'[p] = page[p]
  BY <1>1
<1>4. \A p \in Pages : phase'[p] # "idle" <=> page'[p] = "calling"
  BY <1>2, <1>3 DEF PageCallInv
<1> QED
  BY <1>4 DEF PageCallInv

\* A step that leaves the pages' calls and tasks alone.
LEMMA SamePages ==
  ASSUME PageCallInv, UNCHANGED <<serving, pinTask, page>>,
         \A p \in Pages : phase'[p] = phase[p]
  PROVE  PageCallInv'
  BY DEF PageCallInv

LEMMA NextPageCalls ==
  TypeOK /\ Counted /\ PageCallInv /\ [WebNext]_webVars => PageCallInv'
<1> SUFFICES ASSUME TypeOK, Counted, PageCallInv, [WebNext]_webVars
             PROVE  PageCallInv'
  OBVIOUS
<1>1. "main" \notin Pages /\ Pages \subseteq Clients
  BY WebClients, WebAssumption DEF WebAssumption
<1>2. DOMAIN phase = Clients /\ DOMAIN page = Pages
  BY DEF TypeOK, Counted
<1>3. CASE PublishPin \/ ArmEdge \/ SeeEdge
  <2>1. /\ UNCHANGED <<serving, phase, page>>
        /\ pinTask # "answer" /\ pinTask' # "answer"
    BY <1>3 DEF PublishPin, ArmEdge, SeeEdge, callVars, clientVars, pageVars
  <2> QED
    BY <2>1 DEF PageCallInv
<1>4. CASE TakeCommand
  <2>1. UNCHANGED <<phase, page>> /\ pinTask' = "answer" /\ serving' = <<Head(requests)>>
    BY <1>4 DEF TakeCommand, RecvRequest, clientVars, pageVars
  <2>2. serving' # <<>>
    BY <2>1
  <2> QED
    BY <2>1, <2>2 DEF PageCallInv
<1>5. CASE AnswerCommand
  <2>1. UNCHANGED <<phase, page>> /\ pinTask' = "publish" /\ serving' = <<>>
    BY <1>5 DEF AnswerCommand, AfterCommand, SendResponse, clientVars, pageVars
  <2> QED
    BY <2>1 DEF PageCallInv
<1>6. CASE OutsideChanges \/ AdcBatch \/ UartReads \/ UartPublishes \/ UartWrites \/ Asleep
           \/ UNCHANGED webVars
  <2>1. UNCHANGED <<phase, page, serving, pinTask>>
    BY <1>6 DEF OutsideChanges, AdcBatch, UartReads, UartPublishes, UartWrites, LineFrame,
       Asleep, webVars, callVars, clientVars, pinVars, pageVars
  <2> QED
    BY <2>1, SamePages
<1>7. CASE MainTask
  <2>1. /\ UNCHANGED <<page, serving, pinTask>>
        /\ phase' = phase \/ \E at : phase' = [phase EXCEPT !["main"] = at]
    BY <1>7 DEF MainTask, MainWakes, BoostIsOff, FloatPin, PinsFloat, Sleep, MainFrame, Call,
       Lock, SendRequest, RecvResponse, callVars, clientVars, pinVars, pageVars
  <2>2. ASSUME NEW p \in Pages
        PROVE  phase'[p] = phase[p]
    <3>1. p # "main" /\ p \in DOMAIN phase
      BY <1>1, <1>2
    <3> QED
      BY <2>1, <3>1
  <2> QED
    BY <2>1, <2>2, SamePages
<1>8. ASSUME NEW c \in Pages, PageTask(c) \/ Browser(c)
      PROVE  PageCallInv'
  <2>1. UNCHANGED <<serving, pinTask>>
    BY <1>8 DEF PageTask, Browser, Show, Transact, Enqueue, OpenPage, ClosePage, SendEnds,
       SetPin, SendUart, RequestShutdown, OtherCommand, Command, PageFrame, Call, Lock,
       SendRequest, RecvResponse, callVars, pinVars
  <2>2. page = [page EXCEPT ![c] = page[c]] /\ phase = [phase EXCEPT ![c] = phase[c]]
    BY <1>1, <1>2 DEF TypeOK, Counted
  <2>3. CASE SetPin(c)
    <3>1. /\ phase' = [phase EXCEPT ![c] = "locking"]
          /\ page' = [page EXCEPT ![c] = "calling"]
      BY <2>3 DEF SetPin, Call
    <3> QED
      BY <2>1, <3>1, OnePageCalls
  <2>4. CASE Transact(c)
    <3>1. page[c] = "calling"
      BY <2>4 DEF Transact
    <3>2. CASE (Lock(c) \/ SendRequest(c)) /\ page' = page
      <4>1. \E at : at # "idle" /\ phase' = [phase EXCEPT ![c] = at]
        BY <3>2 DEF Lock, SendRequest
      <4>2. page' = [page EXCEPT ![c] = "calling"]
        BY <2>2, <3>1, <3>2
      <4> QED
        BY <2>1, <4>1, <4>2, OnePageCalls
    <3>3. CASE RecvResponse(c) /\ page' = [page EXCEPT ![c] = "select"]
      <4>1. phase' = [phase EXCEPT ![c] = "idle"]
        BY <3>3 DEF RecvResponse
      <4> QED
        BY <2>1, <3>3, <4>1, OnePageCalls
    <3> QED
      BY <2>4, <3>2, <3>3 DEF Transact
  <2>5. CASE \/ \E s \in SourceNames : Show(c, s)
             \/ Enqueue(c) \/ OpenPage(c) \/ ClosePage(c) \/ SendEnds(c) \/ SendUart(c)
             \/ RequestShutdown(c) \/ OtherCommand(c)
    <3>1. /\ phase' = phase /\ page[c] # "calling"
          /\ page' = page \/ \E now : now # "calling" /\ page' = [page EXCEPT ![c] = now]
      BY <2>5 DEF Show, Enqueue, OpenPage, ClosePage, SendEnds, SendUart, RequestShutdown,
         OtherCommand, Command, callVars, clientVars
    <3>2. phase[c] = "idle"
      BY <3>1 DEF PageCallInv
    <3>3. phase' = [phase EXCEPT ![c] = "idle"]
      BY <2>2, <3>1, <3>2
    <3>4. CASE page' = page
      BY <2>1, <3>1, <3>4, SamePages
    <3>5. CASE \E now : now # "calling" /\ page' = [page EXCEPT ![c] = now]
      BY <2>1, <3>3, <3>5, OnePageCalls
    <3> QED
      BY <3>1, <3>4, <3>5
  <2> QED
    BY <1>8, <2>3, <2>4, <2>5 DEF PageTask, Browser
<1> QED
  BY <1>3, <1>4, <1>5, <1>6, <1>7, <1>8 DEF WebNext, PinTask

\* A select that finds anything takes the first of what it finds.
LEMMA SomethingIsFirst ==
  ASSUME NEW p, NEW s \in SourceNames, unread[p][s] > 0,
         \A t \in SourceNames : unread[p][t] \in Nat
  PROVE  \E t \in SourceNames : unread[p][t] > 0 /\ FirstReady(p, t)
<1>1. /\ DOMAIN Sources = 1..4
      /\ Sources[1] = "voltage" /\ Sources[2] = "pin"
      /\ Sources[3] = "buffer" /\ Sources[4] = "uart"
  BY DEF Sources
<1>2. CASE unread[p]["voltage"] > 0
  BY <1>1, <1>2 DEF FirstReady, SourceNames
<1>3. CASE unread[p]["voltage"] = 0 /\ unread[p]["pin"] > 0
  BY <1>1, <1>3 DEF FirstReady, SourceNames
<1>4. CASE unread[p]["voltage"] = 0 /\ unread[p]["pin"] = 0 /\ unread[p]["buffer"] > 0
  BY <1>1, <1>4 DEF FirstReady, SourceNames
<1>5. CASE /\ unread[p]["voltage"] = 0 /\ unread[p]["pin"] = 0 /\ unread[p]["buffer"] = 0
           /\ unread[p]["uart"] > 0
  BY <1>1, <1>5 DEF FirstReady, SourceNames
<1> QED
  BY <1>2, <1>3, <1>4, <1>5 DEF SourceNames

\* No page is left waiting for what cannot come, for any number of pages and every
\* capacity: a call waits for a caller that still runs or for the pin's task, and the
\* select always yields (WebsocketHandler::run, DigitalIoHandle, digital_pin_task).
THEOREM NoPageWaitsForEver == WebSpec => []NoPageIsStuck
<1>1. WebSpec => [](Counted /\ Typed)
  BY InitCounted, NextCounts, InitTyped, NextTyped, PTL DEF WebSpec
<1>2. WebSpec => []PageCallInv
  BY <1>1, InitPageCalls, NextPageCalls, WebCalls, PTL DEF WebSpec
<1>3. WebSpec => []SomebodyCanGoOn
  <2>1. WebInit => CallInit
    BY DEF WebInit
  <2>2. WebSpec => Spec
    BY <2>1, WebCalls, WebStepIsCall, PTL DEF WebSpec, Spec
  <2> QED
    BY <2>2, NobodyWaitsForEver, PTL
<1>4. /\ TypeOK /\ CallInv /\ FloatInv /\ PageCallInv /\ Counted /\ Typed
      /\ SomebodyCanGoOn
      => NoPageIsStuck
  <2> SUFFICES ASSUME TypeOK, CallInv, FloatInv, PageCallInv, Counted, Typed,
                      SomebodyCanGoOn
               PROVE  NoPageIsStuck
    OBVIOUS
  <2>1. ASSUME pinTask = "answer"
        PROVE  serving # <<>> /\ Len(responses) < Capacity
    <3>1. serving # <<>>
      BY <2>1 DEF PageCallInv
    <3>2. Len(requests) \in Nat /\ Len(responses) \in Nat /\ Len(serving) \in Nat
          /\ Len(serving) # 0
      BY <3>1, LenType DEF TypeOK
    <3>3. Len(requests) + Len(serving) + Len(responses) <= 1
      BY DEF CallInv, InFlight
    <3>4. Capacity \in Nat \ {0}
      BY RequestResponseAssumption DEF RequestResponseAssumption
    <3> QED
      BY <3>1, <3>2, <3>3, <3>4
  <2>2. ASSUME NEW p \in Pages, page[p] = "calling", pinTask = "wait", requests = <<>>
        PROVE  \E c \in Clients : CallerCanGoOn(c)
    <3>1. p \in Clients /\ phase[p] # "idle" /\ serving = <<>>
      BY <2>2, WebClients DEF PageCallInv
    <3>2. PICK c \in Clients :
            \/ phase[c] = "locking" /\ MutexFree
            \/ phase[c] = "sending" /\ Len(requests) < Capacity
            \/ phase[c] = "awaiting" /\ responses # <<>>
      BY <2>2, <3>1 DEF SomebodyCanGoOn
    <3>3. phase[c] # "idle"
      BY <3>2
    <3>4. c # "main" => page[c] = "calling"
      BY <3>3, WebAssumption DEF PageCallInv, WebAssumption
    <3>5. c = "main" => main = "float"
      BY <3>3 DEF FloatInv
    <3> QED
      BY <3>2, <3>4, <3>5 DEF CallerCanGoOn
  <2>3. txQueue < TxSlots \/ txQueue > 0
    BY WebAssumption DEF Typed, WebAssumption
  <2>4. ASSUME NEW p \in Pages, NEW s \in SourceNames, unread[p][s] > 0
        PROVE  \E t \in SourceNames : unread[p][t] > 0 /\ FirstReady(p, t)
    <3>1. \A t \in SourceNames : unread[p][t] \in Nat
      BY DEF Counted
    <3> QED
      BY <2>4, <3>1, SomethingIsFirst
  <2> QED
    BY <2>1, <2>2, <2>3, <2>4 DEF NoPageIsStuck, PageCallInv
<1> QED
  BY <1>1, <1>2, <1>3, <1>4, WebCalls, PTL
=============================================================================
