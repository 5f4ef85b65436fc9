--------------------------- MODULE RequestResponse ---------------------------
(***************************************************************************)
(* RequestResponseChannel (channel.rs): a request channel and a response   *)
(* channel of the same capacity, and a mutex that transact holds from      *)
(* before it sends until it has the answer.  Neither channel says whose    *)
(* message it carries: the field from is there for the properties only.    *)
(* The server is a task that takes a request, answers it and asks for the  *)
(* next (power_controller_task, rtc_handler, digital_pin_task).            *)
(***************************************************************************)
EXTENDS Naturals, Sequences

CONSTANTS
  Clients,   \* the tasks that call transact
  Requests,  \* the requests they make
  Capacity   \* N: 16 for power, 10 for the RTC, 4 for a digital pin

ASSUME RequestResponseAssumption == Capacity \in Nat \ {0}

VARIABLES
  mutex,      \* the clients whose guard is alive
  requests,   \* req_channel
  serving,    \* requests the server took and has not answered
  responses,  \* resp_channel
  phase,      \* how far each client's transact has come
  asked,      \* the request of the client's current or last call, as a set
  got         \* the request answered by what the last call returned, as a set

clientVars == <<phase, asked, got>>
callVars   == <<mutex, requests, serving, responses, clientVars>>

Phases   == {"idle", "locking", "sending", "awaiting"}
Messages == [from: Clients, body: Requests]

CallInit ==
  /\ mutex = {}
  /\ requests = <<>>
  /\ serving = <<>>
  /\ responses = <<>>
  /\ phase = [c \in Clients |-> "idle"]
  /\ asked = [c \in Clients |-> {}]
  /\ got = [c \in Clients |-> {}]

\* Deliberate bugs, each standing in for the definition after it.
AlwaysFree == TRUE
MutexFree == mutex = {}
ReleaseEarly(c) == mutex' = mutex \ {c}
KeepLocked(c) == UNCHANGED mutex
TakeRequest == requests' = Tail(requests)

\* transact is called and asks for the mutex.
Call(c, r) ==
  /\ phase[c] = "idle"
  /\ phase' = [phase EXCEPT ![c] = "locking"]
  /\ asked' = [asked EXCEPT ![c] = {r}]
  /\ UNCHANGED <<mutex, requests, serving, responses, got>>

\* self.mutex.lock()
Lock(c) ==
  /\ phase[c] = "locking"
  /\ MutexFree
  /\ mutex' = mutex \cup {c}
  /\ phase' = [phase EXCEPT ![c] = "sending"]
  /\ UNCHANGED <<requests, serving, responses, asked, got>>

\* send_request waits for room; the guard stays alive.
SendRequest(c) ==
  /\ phase[c] = "sending"
  /\ Len(requests) < Capacity
  /\ \E r \in asked[c] : requests' = Append(requests, [from |-> c, body |-> r])
  /\ phase' = [phase EXCEPT ![c] = "awaiting"]
  /\ KeepLocked(c)
  /\ UNCHANGED <<serving, responses, asked, got>>

\* The server's recv_request.
RecvRequest ==
  /\ serving = <<>>
  /\ requests # <<>>
  /\ serving' = <<Head(requests)>>
  /\ TakeRequest
  /\ UNCHANGED <<mutex, responses, clientVars>>

\* The server's send_response waits for room.
SendResponse ==
  /\ serving # <<>>
  /\ Len(responses) < Capacity
  /\ responses' = Append(responses, Head(serving))
  /\ serving' = <<>>
  /\ UNCHANGED <<mutex, requests, clientVars>>

\* recv_response takes whatever answer comes first; the guard is dropped.
RecvResponse(c) ==
  /\ phase[c] = "awaiting"
  /\ responses # <<>>
  /\ got' = [got EXCEPT ![c] = {Head(responses).body}]
  /\ responses' = Tail(responses)
  /\ mutex' = mutex \ {c}
  /\ phase' = [phase EXCEPT ![c] = "idle"]
  /\ UNCHANGED <<requests, serving, asked>>

Server == RecvRequest \/ SendResponse

Next ==
  \/ Server
  \/ \E c \in Clients :
       \/ \E r \in Requests : Call(c, r)
       \/ Lock(c)
       \/ SendRequest(c)
       \/ RecvResponse(c)

Spec == CallInit /\ [][Next]_callVars

(***************************************************************************)
(* Properties.                                                             *)
(***************************************************************************)

\* Every variable keeps to its type, the mutex has one owner at most and neither channel outgrows its capacity.
TypeOK ==
  /\ mutex \in SUBSET Clients /\ \A c, d \in mutex : c = d
  /\ requests \in Seq(Messages) /\ Len(requests) <= Capacity
  /\ serving \in Seq(Messages) /\ Len(serving) <= 1
  /\ responses \in Seq(Messages) /\ Len(responses) <= Capacity
  /\ phase \in [Clients -> Phases]
  /\ asked \in [Clients -> SUBSET Requests]
  /\ got \in [Clients -> SUBSET Requests]

\* Two callers are never both between their request and their answer.
OneCallAtATime ==
  \A c, d \in Clients :
    /\ phase[c] \in {"sending", "awaiting"}
    /\ phase[d] \in {"sending", "awaiting"}
    => c = d

InFlight == Len(requests) + Len(serving) + Len(responses)

\* At most one message is on its way, from a client that awaits its answer, so
\* that neither send ever waits for room and no answer is left for a later call.
OneMessageInFlight ==
  /\ InFlight <= 1
  /\ InFlight = 1 => \E c \in Clients : phase[c] = "awaiting"

\* A call returns the answer to its own request, whoever else is calling: the
\* UnexpectedResponse arms of the RTC client are never taken.
OwnAnswer == \A c \in Clients : phase[c] = "idle" => got[c] = asked[c]

\* The invariant behind them: whoever holds the mutex, and nobody else, is between
\* its request and its answer, and the one message on its way is that client's.
Belongs(queue) ==
  queue # <<>> => /\ phase[Head(queue).from] = "awaiting"
                  /\ asked[Head(queue).from] = {Head(queue).body}

CallInv ==
  /\ InFlight <= 1
  /\ \A c \in Clients : phase[c] \in {"sending", "awaiting"} <=> mutex = {c}
  /\ \A c \in Clients : phase[c] = "awaiting" => InFlight = 1
  /\ Belongs(requests)
  /\ Belongs(serving)
  /\ Belongs(responses)
  /\ \A c \in Clients : phase[c] # "idle" => \E r \in Requests : asked[c] = {r}
  /\ OwnAnswer

\* While a call has not returned, somebody can go on: the guard of the mutex's next
\* owner, of the owner itself or of the server holds.  What no client waits for, the
\* server does, and the other way round.
SomebodyCanGoOn ==
  (\E c \in Clients : phase[c] # "idle") =>
    \/ requests # <<>> /\ serving = <<>>
    \/ serving # <<>> /\ Len(responses) < Capacity
    \/ \E c \in Clients :
         \/ phase[c] = "locking" /\ MutexFree
         \/ phase[c] = "sending" /\ Len(requests) < Capacity
         \/ phase[c] = "awaiting" /\ responses # <<>>

AnsweredBy(c) ==
  IF responses # <<>> /\ Head(responses).from = c THEN {Head(responses).body} ELSE {}

PendingOf(c) == IF phase[c] # "idle" /\ AnsweredBy(c) = {} THEN asked[c] ELSE {}

Design ==
  INSTANCE RequestResponseDesign WITH
    pending  <- [c \in Clients |-> PendingOf(c)],
    answered <- [c \in Clients |-> AnsweredBy(c)],
    returned <- got

\* The two channels and the mutex implement calls that are answered one at a
\* time, each with its own answer.
ImplementsDesign == Design!Spec
=============================================================================
