------------------------ MODULE RequestResponseProofs ------------------------
(***************************************************************************)
(* transact keeps calls apart and returns each caller its own answer, for  *)
(* every set of clients, every set of requests and every capacity.         *)
(***************************************************************************)
EXTENDS RequestResponse, TLAPS

-----------------------------------------------------------------------------
(* Types. *)

LEMMA TailType ==
  ASSUME NEW S, NEW q \in Seq(S), q # <<>>
  PROVE  /\ Head(q) \in S
         /\ Tail(q) \in Seq(S)
         /\ Len(Tail(q)) = Len(q) - 1
  OBVIOUS

LEMMA AppendType ==
  ASSUME NEW S, NEW q \in Seq(S), NEW m \in S
  PROVE  /\ Append(q, m) \in Seq(S)
         /\ Len(Append(q, m)) = Len(q) + 1
         /\ Append(q, m) # <<>>
         /\ q = <<>> => Head(Append(q, m)) = m
  OBVIOUS

LEMMA LenType ==
  ASSUME NEW S, NEW q \in Seq(S)
  PROVE  /\ Len(q) \in Nat
         /\ q = <<>> <=> Len(q) = 0
  OBVIOUS

LEMMA InitType == CallInit => TypeOK
  BY RequestResponseAssumption DEF CallInit, TypeOK, RequestResponseAssumption, Phases

LEMMA NextType == TypeOK /\ [Next]_callVars => TypeOK'
<1> SUFFICES ASSUME TypeOK, [Next]_callVars
             PROVE  TypeOK'
  OBVIOUS
<1> USE RequestResponseAssumption DEF RequestResponseAssumption
<1>1. ASSUME NEW c \in Clients, NEW r \in Requests, Call(c, r)
      PROVE  TypeOK'
  BY <1>1 DEF Call, TypeOK, Phases
<1>2. ASSUME NEW c \in Clients, Lock(c)
      PROVE  TypeOK'
  BY <1>2 DEF Lock, MutexFree, TypeOK, Phases
<1>3. ASSUME NEW c \in Clients, SendRequest(c)
      PROVE  TypeOK'
  <2>1. PICK r \in asked[c] : requests' = Append(requests, [from |-> c, body |-> r])
    BY <1>3 DEF SendRequest
  <2>2. [from |-> c, body |-> r] \in Messages
    BY <2>1 DEF TypeOK, Messages
  <2>3. requests' \in Seq(Messages) /\ Len(requests') <= Capacity
    BY <1>3, <2>1, <2>2, AppendType, LenType DEF SendRequest, TypeOK
  <2>4. phase' \in [Clients -> Phases]
    BY <1>3 DEF SendRequest, TypeOK, Phases
  <2> QED
    BY <1>3, <2>3, <2>4 DEF SendRequest, KeepLocked, TypeOK
<1>4. CASE RecvRequest
  <2>1. /\ Head(requests) \in Messages
        /\ requests' \in Seq(Messages) /\ Len(requests') <= Capacity
    BY <1>4, TailType, LenType DEF RecvRequest, TakeRequest, TypeOK
  <2>2. serving' \in Seq(Messages) /\ Len(serving') <= 1
    BY <1>4, <2>1 DEF RecvRequest
  <2> QED
    BY <1>4, <2>1, <2>2 DEF RecvRequest, TypeOK, clientVars
<1>5. CASE SendResponse
  <2>1. Head(serving) \in Messages
    BY <1>5, TailType DEF SendResponse, TypeOK
  <2>2. responses' \in Seq(Messages) /\ Len(responses') <= Capacity
    BY <1>5, <2>1, AppendType, LenType DEF SendResponse, TypeOK
  <2> QED
    BY <1>5, <2>2 DEF SendResponse, TypeOK, clientVars
<1>6. ASSUME NEW c \in Clients, RecvResponse(c)
      PROVE  TypeOK'
  <2>1. /\ Head(responses) \in Messages
        /\ responses' \in Seq(Messages) /\ Len(responses') <= Capacity
    BY <1>6, TailType, LenType DEF RecvResponse, TypeOK
  <2>2. got' \in [Clients -> SUBSET Requests] /\ phase' \in [Clients -> Phases]
    BY <1>6, <2>1 DEF RecvResponse, TypeOK, Messages, Phases
  <2> QED
    BY <1>6, <2>1, <2>2 DEF RecvResponse, TypeOK
<1>7. CASE UNCHANGED callVars
  BY <1>7 DEF callVars, clientVars, TypeOK
<1> QED
  BY <1>1, <1>2, <1>3, <1>4, <1>5, <1>6, <1>7 DEF Next, Server

\* The variables of the channel keep their types: no queue outgrows its capacity,
\* no server takes two requests, the mutex has one owner at most (channel.rs).
THEOREM TypeCorrect == Spec => []TypeOK
  BY InitType, NextType, PTL DEF Spec

-----------------------------------------------------------------------------
(* The mutex and the message on its way. *)

LEMMA InitCalls == CallInit => CallInv
  BY DEF CallInit, CallInv, InFlight, Belongs, OwnAnswer

LEMMA Awaited ==
  ASSUME TypeOK, NEW q \in Seq(Messages), q # <<>>, Belongs(q)
  PROVE  /\ Head(q).from \in Clients
         /\ phase[Head(q).from] = "awaiting"
<1>1. Head(q) \in Messages
  BY TailType
<1> QED
  BY <1>1 DEF Belongs, Messages

LEMMA NextCalls == TypeOK /\ CallInv /\ [Next]_callVars => CallInv'
<1> SUFFICES ASSUME TypeOK, CallInv, [Next]_callVars
             PROVE  CallInv'
  OBVIOUS
<1> DEFINE Lengths == /\ Len(requests) \in Nat /\ (requests = <<>> <=> Len(requests) = 0)
                      /\ Len(serving) \in Nat /\ (serving = <<>> <=> Len(serving) = 0)
                      /\ Len(responses) \in Nat /\ (responses = <<>> <=> Len(responses) = 0)
<1>0. Lengths
  BY LenType DEF TypeOK
<1>1. ASSUME NEW c \in Clients, NEW r \in Requests, Call(c, r)
      PROVE  CallInv'
  <2>1. /\ phase' = [phase EXCEPT ![c] = "locking"]
        /\ asked' = [asked EXCEPT ![c] = {r}]
        /\ phase[c] = "idle"
        /\ UNCHANGED <<mutex, requests, serving, responses, got>>
    BY <1>1 DEF Call
  <2>2. Belongs(requests)' /\ Belongs(serving)' /\ Belongs(responses)'
    BY <2>1 DEF CallInv, Belongs, TypeOK
  <2>3. \A d \in Clients : /\ phase'[d] \in {"sending", "awaiting"} <=> mutex' = {d}
                           /\ phase'[d] = "awaiting" => InFlight' = 1
                           /\ phase'[d] # "idle" => \E q \in Requests : asked'[d] = {q}
                           /\ phase'[d] = "idle" => got'[d] = asked'[d]
    BY <2>1 DEF CallInv, TypeOK, InFlight, OwnAnswer
  <2>4. (InFlight <= 1)'
    BY <2>1 DEF CallInv, InFlight
  <2> QED
    BY <2>2, <2>3, <2>4 DEF CallInv, OwnAnswer
<1>2. ASSUME NEW c \in Clients, Lock(c)
      PROVE  CallInv'
  <2>1. /\ phase' = [phase EXCEPT ![c] = "sending"]
        /\ mutex = {} /\ mutex' = {c}
        /\ phase[c] = "locking"
        /\ UNCHANGED <<requests, serving, responses, asked, got>>
    BY <1>2 DEF Lock, MutexFree
  <2>2. Belongs(requests)' /\ Belongs(serving)' /\ Belongs(responses)'
    BY <2>1 DEF CallInv, Belongs, TypeOK
  <2>3. \A d \in Clients : phase'[d] \in {"sending", "awaiting"} <=> mutex' = {d}
    BY <2>1 DEF CallInv, TypeOK
  <2>4. \A d \in Clients : /\ phase'[d] = "awaiting" => InFlight' = 1
                           /\ phase'[d] # "idle" => \E q \in Requests : asked'[d] = {q}
                           /\ phase'[d] = "idle" => got'[d] = asked'[d]
    BY <2>1 DEF CallInv, TypeOK, InFlight, OwnAnswer
  <2>5. (InFlight <= 1)'
    BY <2>1 DEF CallInv, InFlight
  <2> QED
    BY <2>2, <2>3, <2>4, <2>5 DEF CallInv, OwnAnswer
<1>3. ASSUME NEW c \in Clients, SendRequest(c)
      PROVE  CallInv'
  <2>1. PICK r \in asked[c] : requests' = Append(requests, [from |-> c, body |-> r])
    BY <1>3 DEF SendRequest
  <2>2. /\ phase' = [phase EXCEPT ![c] = "awaiting"]
        /\ phase[c] = "sending"
        /\ UNCHANGED <<mutex, serving, responses, asked, got>>
    BY <1>3 DEF SendRequest, KeepLocked
  <2>3. asked[c] = {r}
    BY <2>1, <2>2 DEF CallInv, TypeOK
  <2>4. [from |-> c, body |-> r] \in Messages
    BY <2>1 DEF TypeOK, Messages
  <2>5. mutex = {c} /\ \A d \in Clients : phase[d] = "awaiting" => d = c
    BY <2>2 DEF CallInv
  \* A message on its way would belong to a client that awaits its answer.
  <2>6. requests = <<>> /\ serving = <<>> /\ responses = <<>>
    <3>1. \A q \in {requests, serving, responses} : q \in Seq(Messages) /\ Belongs(q)
      BY DEF CallInv, TypeOK
    <3>2. \A q \in {requests, serving, responses} : q = <<>>
      BY <3>1, <2>2, <2>5, Awaited
    <3> QED
      BY <3>2
  <2>7. Len(requests') = 1 /\ Head(requests') = [from |-> c, body |-> r]
    BY <2>1, <2>4, <2>6, <1>0, AppendType DEF TypeOK
  <2>8. InFlight' = 1
    BY <2>2, <2>6, <2>7, <1>0 DEF InFlight
  <2>9. Belongs(requests)' /\ Belongs(serving)' /\ Belongs(responses)'
    BY <2>2, <2>3, <2>6, <2>7 DEF Belongs, TypeOK
  <2>10. \A d \in Clients : /\ phase'[d] \in {"sending", "awaiting"} <=> mutex' = {d}
                            /\ phase'[d] # "idle" => \E q \in Requests : asked'[d] = {q}
                            /\ phase'[d] = "idle" => got'[d] = asked'[d]
    BY <2>2 DEF CallInv, TypeOK, OwnAnswer
  <2> QED
    BY <2>8, <2>9, <2>10 DEF CallInv, OwnAnswer
<1>4. CASE RecvRequest
  <2>1. /\ requests # <<>> /\ serving = <<>>
        /\ requests' = Tail(requests)
        /\ serving' = <<Head(requests)>>
        /\ UNCHANGED <<mutex, responses, phase, asked, got>>
    BY <1>4 DEF RecvRequest, TakeRequest, clientVars
  <2>2. Len(requests') = Len(requests) - 1 /\ requests' \in Seq(Messages)
    BY <2>1, TailType DEF TypeOK
  <2>3. InFlight' = InFlight /\ InFlight \in Nat
    BY <2>1, <2>2, <1>0 DEF InFlight
  <2>4. requests' = <<>>
    BY <2>1, <2>2, <1>0, LenType DEF CallInv, InFlight
  <2>5. Belongs(requests)' /\ Belongs(serving)' /\ Belongs(responses)'
    BY <2>1, <2>4 DEF CallInv, Belongs
  <2> QED
    BY <2>1, <2>3, <2>5 DEF CallInv, OwnAnswer
<1>5. CASE SendResponse
  <2>1. /\ serving # <<>> /\ serving' = <<>>
        /\ responses' = Append(responses, Head(serving))
        /\ UNCHANGED <<mutex, requests, phase, asked, got>>
    BY <1>5 DEF SendResponse, clientVars
  <2>2. responses = <<>> /\ requests = <<>> /\ Len(serving) = 1
    <3>1. Len(serving) > 0
      BY <2>1, <1>0
    <3>2. Len(requests) + Len(serving) + Len(responses) <= 1
      BY DEF CallInv, InFlight
    <3>3. Len(requests) = 0 /\ Len(responses) = 0 /\ Len(serving) = 1
      <4> HIDE DEF Lengths
      <4>1. Len(requests) \in Nat /\ Len(serving) \in Nat /\ Len(responses) \in Nat
        BY <1>0 DEF Lengths
      <4> QED
        BY <4>1, <3>1, <3>2
    <3> QED
      BY <3>3, <1>0
  <2>3. Len(responses') = 1 /\ Head(responses') = Head(serving)
    BY <2>1, <2>2, <1>0, TailType, AppendType DEF TypeOK
  <2>4. InFlight' = 1 /\ InFlight = 1
    BY <2>1, <2>2, <2>3, <1>0 DEF InFlight
  <2>5. Belongs(requests)' /\ Belongs(serving)' /\ Belongs(responses)'
    BY <2>1, <2>2, <2>3 DEF CallInv, Belongs
  <2> QED
    BY <2>1, <2>4, <2>5 DEF CallInv, OwnAnswer
<1>6. ASSUME NEW c \in Clients, RecvResponse(c)
      PROVE  CallInv'
  <2>1. /\ phase[c] = "awaiting" /\ responses # <<>>
        /\ got' = [got EXCEPT ![c] = {Head(responses).body}]
        /\ responses' = Tail(responses)
        /\ mutex' = mutex \ {c}
        /\ phase' = [phase EXCEPT ![c] = "idle"]
        /\ UNCHANGED <<requests, serving, asked>>
    BY <1>6 DEF RecvResponse
  <2>2. mutex = {c} /\ \A d \in Clients : phase[d] \in {"sending", "awaiting"} => d = c
    BY <2>1 DEF CallInv
  <2>3. Head(responses) \in Messages /\ Len(responses') = Len(responses) - 1
        /\ responses' \in Seq(Messages)
    BY <2>1, TailType DEF TypeOK
  <2>4. Head(responses).from = c /\ asked[c] = {Head(responses).body}
    BY <2>1, <2>2, <2>3 DEF CallInv, Belongs, Messages
  <2>5. requests = <<>> /\ serving = <<>> /\ responses' = <<>>
    BY <2>1, <2>3, <1>0, LenType DEF CallInv, InFlight
  <2>6. InFlight' = 0
    <3>1. requests' = <<>> /\ serving' = <<>> /\ responses' = <<>>
      BY <2>1, <2>5
    <3> QED
      BY <3>1 DEF InFlight
  <2>7. Belongs(requests)' /\ Belongs(serving)' /\ Belongs(responses)'
    BY <2>1, <2>5 DEF Belongs
  <2>8. mutex' = {} /\ \A d \in Clients : phase'[d] \notin {"sending", "awaiting"}
    BY <2>1, <2>2 DEF TypeOK
  <2>9. \A d \in Clients : /\ phase'[d] # "idle" => \E q \in Requests : asked'[d] = {q}
                           /\ phase'[d] = "idle" => got'[d] = asked'[d]
    BY <2>1, <2>4 DEF CallInv, TypeOK, OwnAnswer
  <2> QED
    BY <2>6, <2>7, <2>8, <2>9 DEF CallInv, OwnAnswer
<1>7. CASE UNCHANGED callVars
  BY <1>7 DEF callVars, clientVars, CallInv, InFlight, Belongs, OwnAnswer
<1> QED
  BY <1>1, <1>2, <1>3, <1>4, <1>5, <1>6, <1>7 DEF Next, Server

\* The holder of the mutex alone is between its request and its answer, and the
\* message on its way is the holder's (transact).
THEOREM CallsCorrect == Spec => []CallInv
  BY InitType, NextType, InitCalls, NextCalls, PTL DEF Spec

\* No two callers are between their request and their answer (transact).
THEOREM CallsAreSerial == Spec => []OneCallAtATime
<1>1. CallInv => OneCallAtATime
  BY DEF CallInv, OneCallAtATime
<1> QED
  BY <1>1, CallsCorrect, PTL

\* One message at most is on its way: neither channel is ever full, so neither
\* send_request nor send_response waits (transact).
THEOREM ChannelsNeverFill == Spec => []OneMessageInFlight
<1>1. TypeOK /\ CallInv => OneMessageInFlight
  <2> SUFFICES ASSUME TypeOK, CallInv
               PROVE  OneMessageInFlight
    OBVIOUS
  <2>1. \A q \in {requests, serving, responses} :
          q # <<>> => \E c \in Clients : phase[c] = "awaiting"
    <3>1. \A q \in {requests, serving, responses} : q \in Seq(Messages) /\ Belongs(q)
      BY DEF CallInv, TypeOK
    <3> QED
      BY <3>1, Awaited
  <2>2. InFlight = 1 => \E q \in {requests, serving, responses} : q # <<>>
    BY DEF InFlight
  <2> QED
    BY <2>1, <2>2 DEF CallInv, OneMessageInFlight
<1> QED
  BY <1>1, TypeCorrect, CallsCorrect, PTL

\* Every caller gets the answer to its own request (transact).
THEOREM AnswersAreOwn == Spec => []OwnAnswer
<1>1. CallInv => OwnAnswer
  BY DEF CallInv
<1> QED
  BY <1>1, CallsCorrect, PTL

\* No deadlock, for any number of callers and any capacity: while a call has not
\* returned, the mutex can be taken, or its owner or the server can go on (transact).
THEOREM NobodyWaitsForEver == Spec => []SomebodyCanGoOn
<1>1. TypeOK /\ CallInv => SomebodyCanGoOn
  <2> SUFFICES ASSUME TypeOK, CallInv,
                      NEW c \in Clients, phase[c] # "idle"
               PROVE  \/ requests # <<>> /\ serving = <<>>
                      \/ serving # <<>> /\ Len(responses) < Capacity
                      \/ \E d \in Clients :
                           \/ phase[d] = "locking" /\ MutexFree
                           \/ phase[d] = "sending" /\ Len(requests) < Capacity
                           \/ phase[d] = "awaiting" /\ responses # <<>>
    BY DEF SomebodyCanGoOn
  <2>1. /\ Len(requests) \in Nat /\ (requests = <<>> <=> Len(requests) = 0)
        /\ Len(serving) \in Nat /\ (serving = <<>> <=> Len(serving) = 0)
        /\ Len(responses) \in Nat /\ (responses = <<>> <=> Len(responses) = 0)
    BY LenType DEF TypeOK
  <2>2. Len(requests) + Len(serving) + Len(responses) <= 1
    BY DEF CallInv, InFlight
  <2>3. Capacity > 0
    BY RequestResponseAssumption DEF RequestResponseAssumption
  <2>4. CASE mutex = {}
    <3>1. phase[c] = "locking"
      BY <2>4 DEF CallInv, TypeOK, Phases
    <3> QED
      BY <2>4, <3>1 DEF MutexFree
  <2>5. CASE mutex # {}
    <3>1. PICK d \in Clients : mutex = {d}
      BY <2>5 DEF TypeOK
    <3>2. CASE phase[d] = "sending"
      \* Nothing is on its way yet, or the server has it before it.
      <4>1. requests # <<>> => serving = <<>>
        BY <2>1, <2>2
      <4> QED
        BY <2>1, <2>3, <3>2, <4>1
    <3>3. CASE phase[d] = "awaiting"
      <4>1. Len(requests) + Len(serving) + Len(responses) = 1
        BY <3>3 DEF CallInv, InFlight
      <4>2. \/ requests # <<>> /\ serving = <<>>
            \/ serving # <<>> /\ Len(responses) < Capacity
            \/ responses # <<>>
        <5>1. CASE Len(requests) > 0
          BY <2>1, <4>1, <5>1
        <5>2. CASE Len(serving) > 0
          BY <2>1, <2>3, <4>1, <5>2
        <5>3. CASE Len(responses) > 0
          BY <2>1, <5>3
        <5> QED
          BY <2>1, <4>1, <5>1, <5>2, <5>3
      <4> QED
        BY <3>3, <4>2
    <3> QED
      BY <3>1, <3>2, <3>3 DEF CallInv
  <2> QED
    BY <2>4, <2>5
<1> QED
  BY <1>1, TypeCorrect, CallsCorrect, PTL

-----------------------------------------------------------------------------
(* The channels and the mutex implement one call at a time. *)

LEMMA InitRefines == CallInit => Design!Init
  BY DEF CallInit, Design!Init, Design!Nothing, PendingOf, AnsweredBy

LEMMA NextRefines ==
  ASSUME TypeOK, CallInv, CallInv', [Next]_callVars
  PROVE  [Design!Next]_(Design!vars)
<1> USE DEF Design!vars
<1>1. ASSUME NEW c \in Clients, NEW r \in Requests, Call(c, r)
      PROVE  Design!Ask(c, r)
  <2>1. /\ phase' = [phase EXCEPT ![c] = "locking"]
        /\ asked' = [asked EXCEPT ![c] = {r}]
        /\ phase[c] = "idle"
        /\ UNCHANGED <<responses, got>>
    BY <1>1 DEF Call
  <2>2. AnsweredBy(c) = {} /\ PendingOf(c) = {}
    BY <2>1 DEF CallInv, Belongs, AnsweredBy, PendingOf
  <2>3. \A d \in Clients : AnsweredBy(d)' = AnsweredBy(d)
    BY <2>1 DEF AnsweredBy
  <2>4. \A d \in Clients : PendingOf(d)' = IF d = c THEN {r} ELSE PendingOf(d)
    BY <2>1, <2>2, <2>3 DEF PendingOf, TypeOK
  <2> QED
    BY <2>1, <2>2, <2>3, <2>4 DEF Design!Ask
<1>2. ASSUME NEW c \in Clients, Lock(c) \/ SendRequest(c)
      PROVE  UNCHANGED Design!vars
  <2>1. /\ phase[c] # "idle"
        /\ \E p \in Phases \ {"idle"} : phase' = [phase EXCEPT ![c] = p]
        /\ UNCHANGED <<responses, asked, got>>
    BY <1>2 DEF Lock, SendRequest, Phases
  <2>2. \A d \in Clients : AnsweredBy(d)' = AnsweredBy(d)
    BY <2>1 DEF AnsweredBy
  <2>3. \A d \in Clients : PendingOf(d)' = PendingOf(d)
    BY <2>1, <2>2 DEF PendingOf, TypeOK
  <2> QED
    BY <2>1, <2>2, <2>3
<1>3. CASE RecvRequest
  BY <1>3 DEF RecvRequest, clientVars, PendingOf, AnsweredBy
<1>4. CASE SendResponse
  <2>1. /\ serving # <<>>
        /\ responses' = Append(responses, Head(serving))
        /\ UNCHANGED <<phase, asked, got>>
    BY <1>4 DEF SendResponse, clientVars
  <2>2. responses = <<>> /\ Head(serving) \in Messages
    <3>1. Len(serving) \in Nat /\ Len(serving) > 0 /\ Len(requests) \in Nat
      BY <2>1, LenType DEF TypeOK
    <3>2. Len(requests) + Len(serving) + Len(responses) <= 1 /\ Len(responses) \in Nat
      BY LenType DEF CallInv, InFlight, TypeOK
    <3>3. Len(responses) = 0
      BY <3>1, <3>2
    <3> QED
      BY <2>1, <3>3, LenType, TailType DEF TypeOK
  <2> DEFINE m == Head(serving)
  <2>3. responses' # <<>> /\ Head(responses') = m
    BY <2>1, <2>2, AppendType DEF TypeOK
  <2>4. m.from \in Clients /\ phase[m.from] = "awaiting" /\ asked[m.from] = {m.body}
    BY <2>1, <2>2 DEF CallInv, Belongs, Messages
  <2> HIDE DEF m
  <2>5. \A d \in Clients : /\ AnsweredBy(d) = {}
                           /\ AnsweredBy(d)' = IF d = m.from THEN {m.body} ELSE {}
    BY <2>2, <2>3 DEF AnsweredBy
  <2>6. PendingOf(m.from) = {m.body}
    BY <2>4, <2>5 DEF PendingOf
  <2>7. \A d \in Clients : PendingOf(d)' = IF d = m.from THEN {} ELSE PendingOf(d)
    BY <2>1, <2>4, <2>5 DEF PendingOf
  <2>8. Design!Answer(m.from)
    <3> DEFINE pending == [d \in Clients |-> PendingOf(d)]
    <3> DEFINE answered == [d \in Clients |-> AnsweredBy(d)]
    <3>1. answered = [d \in Clients |-> {}]
      BY <2>5
    <3>2. pending[m.from] = {m.body}
      BY <2>4, <2>6
    <3>3. answered' = [answered EXCEPT ![m.from] = pending[m.from]]
      BY <2>4, <2>5, <3>1, <3>2
    <3>4. pending' = [pending EXCEPT ![m.from] = {}]
      BY <2>4, <2>7
    <3> QED
      BY <2>1, <3>1, <3>2, <3>3, <3>4 DEF Design!Answer, Design!Nothing
  <2> QED
    BY <2>4, <2>8 DEF Design!Next
<1>5. ASSUME NEW c \in Clients, RecvResponse(c)
      PROVE  Design!Return(c)
  <2>1. /\ phase[c] = "awaiting" /\ responses # <<>>
        /\ got' = [got EXCEPT ![c] = {Head(responses).body}]
        /\ phase' = [phase EXCEPT ![c] = "idle"]
        /\ responses' = Tail(responses)
        /\ UNCHANGED asked
    BY <1>5 DEF RecvResponse
  <2>2. Head(responses).from = c
    <3>1. mutex = {c}
      BY <2>1 DEF CallInv
    <3>2. Head(responses).from \in Clients /\ phase[Head(responses).from] = "awaiting"
      BY <2>1, Awaited DEF CallInv, TypeOK
    <3>3. mutex = {Head(responses).from}
      BY <3>2 DEF CallInv
    <3> QED
      BY <3>1, <3>3
  <2>3. responses' = <<>>
    <3>1. Len(requests) \in Nat /\ Len(serving) \in Nat
          /\ Len(requests) + Len(serving) + Len(responses) <= 1
      BY LenType DEF CallInv, InFlight, TypeOK
    <3>2. responses' \in Seq(Messages) /\ Len(responses') = Len(responses) - 1
          /\ Len(responses) \in Nat /\ Len(responses') \in Nat
      BY <2>1, TailType, LenType DEF TypeOK
    <3>3. Len(responses') = 0
      BY <3>1, <3>2
    <3> QED
      BY <3>2, <3>3, LenType
  <2>4. \A d \in Clients : /\ AnsweredBy(d) = IF d = c THEN {Head(responses).body} ELSE {}
                           /\ AnsweredBy(d)' = {}
    BY <2>1, <2>2, <2>3 DEF AnsweredBy
  <2>5. \A d \in Clients : PendingOf(d)' = PendingOf(d)
    BY <2>1, <2>4 DEF PendingOf, TypeOK
  <2>6. AnsweredBy(c) # {} /\ got' = [got EXCEPT ![c] = AnsweredBy(c)]
    BY <2>1, <2>4
  <2>7. [d \in Clients |-> AnsweredBy(d)]' = [[d \in Clients |-> AnsweredBy(d)] EXCEPT ![c] = {}]
    BY <2>4
  <2> QED
    BY <2>5, <2>6, <2>7 DEF Design!Return
<1>6. CASE UNCHANGED callVars
  BY <1>6 DEF callVars, clientVars, PendingOf, AnsweredBy
<1> QED
  BY <1>1, <1>2, <1>3, <1>4, <1>5, <1>6 DEF Next, Server, Design!Next

\* Whatever the clients, the requests and the capacity, the two channels and the
\* mutex implement calls answered one at a time, each with its own answer.
THEOREM RefinesDesign == Spec => ImplementsDesign
  BY InitType, NextType, InitCalls, NextCalls, InitRefines, NextRefines, PTL
     DEF Spec, ImplementsDesign, Design!Spec
=============================================================================
